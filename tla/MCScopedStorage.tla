-------------------------- MODULE MCScopedStorage --------------------------
(* Instances of ScopedStorage for TLC.                                     *)
EXTENDS ScopedStorage

(* Two keys of one application: the name of the second extends the name of *)
(* the first, as conf and conf-site do.                                    *)
MCKeys == {"conf", "conf-site"}
MCUnder == [k \in MCKeys |-> IF k = "conf" THEN MCKeys ELSE {k}]
OneKey == {"conf"}
OneKeyUnder == [k \in OneKey |-> {k}]

MCProcs == {"master", "node"}

Call(i, k, o, p) == [id |-> i, key |-> k, op |-> o, by |-> p]

(* Two callers create one key, one of them on the owner's node.            *)
RivalCalls == {Call(1, "conf", "CREATE", "master"),
               Call(2, "conf", "CREATE", "node")}
(* A remove and a removeSync of one key, next to the life of a daemon whose *)
(* name extends it: app.reactor.js starts it once its creation has settled. *)
SiblingCalls == {Call(3, "conf", "DELETE", "master"),
                 Call(4, "conf-site", "CREATE", "master"),
                 Call(5, "conf-site", "START", "node"),
                 Call(6, "conf", "REMOVE", "master")}
SafetyCalls == RivalCalls \union SiblingCalls
RivalsOrSiblings ==
    {RivalCalls} \union {{c \in SiblingCalls : c.id # i} : i \in {3, 5, 6}}
OnceOrTwice == [c \in SafetyCalls |-> IF c \in RivalCalls THEN 2 ELSE 1]
(* A create and then an update, which has no caller in the code.           *)
UpdateCalls == {Call(1, "conf", "CREATE", "master"),
                Call(2, "conf", "UPDATE", "master")}
(* Two keys created side by side, as the dispatchers do.                   *)
ParallelCalls == {Call(1, "conf", "CREATE", "master"),
                  Call(2, "conf-site", "CREATE", "master")}
RemoveCalls == {Call(1, "conf", "REMOVE", "master")}

Each(C) == [c \in C |-> {}]
Then(C, op) ==
    [c \in C |-> {d \in C : c.op = op /\ d.op = "CREATE" /\ d.key = c.key}]
SafetyAfter == Then(SafetyCalls, "START")
UpdateAfter == Then(UpdateCalls, "UPDATE")
ParallelAfter == Each(ParallelCalls)
RemoveAfter == Each(RemoveCalls)
Once(C) == [c \in C |-> 1]
OnceUpdates == Once(UpdateCalls)
OnceRemoves == Once(RemoveCalls)
TwiceParallel == [c \in ParallelCalls |-> 2]
AllUpdateCalls == {UpdateCalls}
AllParallelCalls == {ParallelCalls}
AllRemoveCalls == {RemoveCalls}

(* A reactor that answers everything either way, and never throws.         *)
AnyReactor == [o \in ServedOps |-> Outcomes]
NoThrows == {}
(* master/app.reactor.js: every error is swallowed.                        *)
SwallowingReactor == [o \in ServedOps |-> {"OK"}]
(* local/daemon.reactor.js swallows every error; its processRemove throws  *)
(* on every key, and its other handlers on an entry without a value.       *)
DaemonReactor == [o \in ServedOps |-> IF o = "REMOVE" THEN {} ELSE {"OK"}]
DaemonThrows == {<<o, v>> \in ServedOps \X Values :
                   o = "REMOVE" \/ (v = "null" /\ o # "UPDATE")}
(* A daemon whose driver the node does not have: its creation fails, which *)
(* nobody is told, and its start throws (local/daemon.js).                 *)
UnknownDriverThrows == {"START"} \X Values
=============================================================================
