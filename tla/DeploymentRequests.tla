------------------------- MODULE DeploymentRequests -------------------------
(***************************************************************************)
(* The requests that the runs of AppDeployment make to the keys of the     *)
(* nodes, as calls of the storage layer (RequestContract): one for each    *)
(* run, key and operation.  AppDeployment has its own, coarser picture of  *)
(* such a call, and forgets it when the run moves on; ScopedStorage has    *)
(* the steps of the protocol.  Both must agree with the contract, or what  *)
(* is checked of the one says nothing about the other.                     *)
(*                                                                         *)
(* The history variable told follows what the caller of each call has been *)
(* told; no step of AppDeployment depends on it.                           *)
(***************************************************************************)
EXTENDS AppDeployment

VARIABLE told   \* history: what the run knows of each call it may make

toldVars == <<vars, told>>

Request(r, c, o) == [by |-> r, key |-> c, op |-> o]
AllRequests == [by : Runs, key : Cells, op : Served]

(* What the caller of q knows, once its run and calls are as R and C say.  *)
(* A process that ends takes the calls it waits for along.  The call of a  *)
(* phase is under way until it is ok, or has failed; a removal is          *)
(* acknowledged before removeSync, which can fail on its own; and of a     *)
(* call that is forgotten nothing new is known.                            *)
UnderWay == {"look", "set", "wait", "del", "hung"}
Heard(q, R, C) ==
    LET s == C[q.by][q.key]
    IN  IF R[q.by].state = "lost"
        THEN IF told[q] = "waiting" THEN "failed" ELSE told[q]
        ELSE IF R[q.by].phase # q.op THEN told[q]
        ELSE IF s \in {"sync", "ok"} THEN "acknowledged"
        ELSE IF s \in {"failed", "late"}
        THEN IF q.op = "remove" /\ told[q] = "acknowledged" THEN told[q] ELSE "failed"
        ELSE IF s \in UnderWay THEN "waiting" ELSE told[q]

ToldInit == Init /\ told = [q \in AllRequests |-> "idle"]
ToldNext == Next /\ told' = [q \in AllRequests |-> Heard(q, run', call')]
ToldSpec == ToldInit /\ [][ToldNext]_toldVars
ToldFairSpec == ToldSpec /\ Fairness

-----------------------------------------------------------------------------
(* The inductive invariant: the picture that AppDeployment has of a call,  *)
(* while its run is in the phase of the call, is what its caller knows;    *)
(* nothing is asked before its phase; and every request that is found on a *)
(* key, or is being served, was made by some run.                          *)
TooEarly(p, o) ==
    \/ p \in {"free", "load"}
    \/ p = "create" /\ o # "create"
    \/ p = "start" /\ o = "remove"
CallIsTold(q) ==
    LET p == run[q.by].phase
        s == call[q.by][q.key]
        t == told[q]
    IN  /\ TooEarly(p, q.op) => t = "idle"
        /\ p \in {"free", "load"} => s = "none"
        /\ run[q.by].state = "lost" => t # "waiting" /\ s = "none"
        /\ p = q.op =>
             /\ s = "unlisted" => t = "idle"
             /\ s \in UnderWay => t = "waiting"
             /\ s \in {"sync", "ok"} => t = "acknowledged"
             /\ s \in {"failed", "late"} =>
                  t = "failed" \/ (q.op = "remove" /\ t = "acknowledged")
ListedTogether(r) ==
    \A i \in Items, n, m \in Nodes :
        call[r][<<i, n>>] = "unlisted" => call[r][<<i, m>>] = "unlisted"
WasAsked(c, o) == \E r \in Runs : told[Request(r, c, o)] # "idle"
RequestsInvariant ==
    /\ told \in [AllRequests -> {"idle", "waiting", "acknowledged", "failed"}]
    /\ \A q \in AllRequests : CallIsTold(q)
    /\ \A r \in Runs : ListedTogether(r)
    /\ \A c \in Cells : cell[c] # Absent => WasAsked(c, cell[c].op)
    /\ \A t \in serving : WasAsked(t.cell, t.op)

(* The calls of all runs keep to the contract of the storage layer: each   *)
(* is answered at most once, and acknowledged only when a node has carried *)
(* out the operation it asked for, although the runs overwrite each        *)
(* other's requests, give up on some and forget others.                    *)
Contract == INSTANCE RequestContract WITH Calls <- AllRequests, state <- told
KeepsToContract == Contract!Spec
=============================================================================
