-------------------------- MODULE RequestContract --------------------------
(***************************************************************************)
(* What the storage layer (cluster/storage) promises its callers,          *)
(* independently of consul, flags and watchers: a call that was made is    *)
(* answered at most once, and it is acknowledged only when some request    *)
(* for the same operation on the same key has been served by the node that *)
(* owns the key.  ScopedStorage implements this specification, and the     *)
(* calls of AppDeployment keep to it (DeploymentRequests).                 *)
(***************************************************************************)
EXTENDS FiniteSets

CONSTANT Calls   \* the calls; a call names its key and its operation

VARIABLES
    state,       \* what the caller knows of each call
    done         \* what has been carried out: <<key, operation>>

vars == <<state, done>>

(* Removal without waiting (removeSync) asks nothing of the owner.         *)
Unilateral(c) == c.op = "DELETE"

Carried(c) == <<c.key, c.op>> \in done

Init ==
    /\ state = [c \in Calls |-> "idle"]
    /\ done = {}

(* A caller may make several calls at once.                                *)
Ask(S) ==
    /\ \A c \in S : state[c] = "idle"
    /\ state' = [c \in Calls |-> IF c \in S THEN "waiting" ELSE state[c]]
    /\ UNCHANGED done

(* The owner may finish a request after its caller gave up on it.          *)
Serve(c) ==
    /\ state[c] # "idle"
    /\ done' = done \union {<<c.key, c.op>>}
    /\ UNCHANGED state

Acknowledge(c) ==
    /\ state[c] = "waiting"
    /\ Unilateral(c) \/ Carried(c)
    /\ state' = [state EXCEPT ![c] = "acknowledged"]
    /\ UNCHANGED done

(* A crash of the caller's process fails all its calls at once.            *)
Fail(S) ==
    /\ \A c \in S : state[c] = "waiting"
    /\ state' = [c \in Calls |-> IF c \in S THEN "failed" ELSE state[c]]
    /\ UNCHANGED done

Next ==
    \/ \E c \in Calls : Serve(c) \/ Acknowledge(c)
    \/ \E S \in SUBSET Calls : Ask(S) \/ Fail(S)

Spec == Init /\ [][Next]_vars

=============================================================================
