--------------------------- MODULE ScopedStorage ---------------------------
(***************************************************************************)
(* The request protocol of cluster/storage.                                *)
(*                                                                         *)
(* A caller asks the node that owns a prefix of the consul key/value store *)
(* to create, update, remove, start or stop something by writing a key     *)
(* under the prefix with the operation and the state NEW in its flags, and *)
(* then watches the key until the flags say OK or FAILED (index.js).  The  *)
(* owner watches the whole prefix, runs the reactor's handler for every    *)
(* key it finds NEW, and writes PENDING and then the outcome back into the *)
(* flags (watcher.js, kv.js).  Every access to consul is a request and a   *)
(* callback: a flag is written by a read followed by a write, and anything *)
(* may happen between the two.                                             *)
(***************************************************************************)
EXTENDS Naturals, FiniteSets

CONSTANTS
    Keys,        \* the keys under the watched prefix
    Under,       \* Under[k]: the keys whose name begins with the name of k
    Procs,       \* the fabric processes, one per node
    Owner,       \* the process whose watcher listens on the prefix
    Calls,       \* the calls that may be made: [id, key, op, by]
    After,       \* After[c]: the calls that callers settle before they make c
    Together,    \* bound: the sets of calls that one behaviour makes
    Reactor,     \* Reactor[op]: the outcomes the owner's handler can have
    Throws,      \* <<op, value>> on which the handler throws synchronously
    MaxRuns,     \* bound: the simultaneous runs for each request
    MaxFaults    \* bound: crashes, stops of the watcher and requests to consul
                 \* that are answered by an error

ServedOps == {"CREATE", "UPDATE", "REMOVE", "START", "STOP"}
Operations == ServedOps \union {"DELETE"}     \* DELETE is removeSync
Values == {"data", "null"}
States == {"NEW", "PENDING", "OK", "FAILED"}
Outcomes == {"OK", "FAILED"}

ASSUME KeysAssumption ==
    /\ Under \in [Keys -> SUBSET Keys]
    /\ \A k \in Keys : k \in Under[k]
ASSUME CallsAssumption ==
    /\ Owner \in Procs
    /\ After \in [Calls -> SUBSET Calls]
    /\ \A c \in Calls : c.key \in Keys /\ c.op \in Operations /\ c.by \in Procs
ASSUME ReactorAssumption ==
    /\ Reactor \in [ServedOps -> SUBSET Outcomes]
    /\ Throws \subseteq ServedOps \X Values
ASSUME BoundsAssumption == MaxRuns \in [Calls -> Nat] /\ MaxFaults \in Nat

Requests == {c \in Calls : c.op # "DELETE"}   \* the calls the owner serves
RunIds == UNION {{c} \X (1..MaxRuns[c]) : c \in Requests}
FlagWrites == RunIds \X {"pending", "outcome"}

VARIABLES
    store,       \* consul: what each key of the prefix holds
    dirty,       \* the prefix changed since the owner's watch last replied
    listening,   \* the owner's watch is active
    up,          \* the processes that run
    phase,       \* how far each call is
    read,        \* the value each call is going to write
    handling,    \* the runs whose handler has not finished
    flag,        \* the flag writes (kv.flag) of each run
    served,      \* history: the requests whose handler succeeded
    faults

vars == <<store, dirty, listening, up, phase, read, handling, flag, served,
          faults>>
ownerVars == <<listening, up, handling, flag>>

(***************************************************************************)
(* Data.  A key holds a value and flags: the operation, its state, and     *)
(* here also the call that asked for it.                                   *)
(***************************************************************************)
NoEntry == [st |-> "ABSENT"]
Entries == [req : Requests, st : States, val : Values]
Entry(c, s, v) == [req |-> c, st |-> s, val |-> v]

Present(k) == store[k] # NoEntry
IsNew(k) == Present(k) /\ store[k].st = "NEW"

Off == [at |-> "off", st |-> "PENDING", val |-> "null"]
Writers == [at : {"off", "get", "set"}, st : States, val : Values]
FlagWriter(s) == [at |-> "get", st |-> s, val |-> "null"]

Phases == {"idle", "get", "set", "watch", "del",
           "resolved", "rejected", "hung", "lost"}
InFlight == {"get", "set", "watch", "del"}

Init ==
    /\ store = [k \in Keys |-> NoEntry]
    /\ dirty = TRUE
    /\ listening = TRUE
    /\ up = Procs
    /\ phase = [c \in Calls |-> "idle"]
    /\ read = [c \in Calls |-> "null"]
    /\ handling = {}
    /\ flag = [w \in FlagWrites |-> Off]
    /\ served = {}
    /\ faults = 0

(***************************************************************************)
(* The death of a process takes its pending calls, its watches and its     *)
(* handlers along (an uncaught exception ends the process).                *)
(***************************************************************************)
Exit(p) ==
    /\ up' = up \ {p}
    /\ phase' = [c \in Calls |->
                   IF c.by = p /\ phase[c] \in InFlight \union {"hung"}
                   THEN "lost" ELSE phase[c]]
    /\ listening' = (listening /\ p # Owner)
    /\ handling' = IF p = Owner THEN {} ELSE handling
    /\ flag' = IF p = Owner THEN [w \in FlagWrites |-> Off] ELSE flag

(***************************************************************************)
(* The caller.                                                             *)
(***************************************************************************)
Moves(c, p) ==
    /\ phase' = [phase EXCEPT ![c] = p]
    /\ UNCHANGED ownerVars

Write(c, v) ==
    /\ store' = [store EXCEPT ![c.key] = Entry(c, "NEW", v)]
    /\ dirty' = TRUE

Delete(c) ==
    /\ store' = [k \in Keys |-> IF k \in Under[c.key] THEN NoEntry ELSE store[k]]
    /\ dirty' = (dirty \/ \E k \in Under[c.key] : Present(k))

Settled(c) == phase[c] \in {"resolved", "rejected", "lost"}

(* The first request of each method: create writes at once, removeSync     *)
(* deletes at once, the others read first.                                 *)
FirstPhase(c) ==
    IF c.op = "CREATE" THEN "set" ELSE IF c.op = "DELETE" THEN "del" ELSE "get"

Issue(c) ==
    /\ phase[c] = "idle"
    /\ c.by \in up
    /\ \A d \in After[c] : Settled(d)
    /\ \E S \in Together : c \in S /\ \A d \in Calls \ S : phase[d] = "idle"
    /\ Moves(c, FirstPhase(c))
    /\ read' = [read EXCEPT ![c] = IF c.op = "CREATE" THEN "data" ELSE "null"]
    /\ UNCHANGED <<store, dirty, served, faults>>

(* remove reads the key without its prefix, so that it never finds it: the *)
(* entry it then writes has no value.                                      *)
CallGet(c) ==
    /\ phase[c] = "get"
    /\ \/ /\ c.op = "REMOVE"
          /\ Moves(c, "set")
          /\ UNCHANGED read
       \/ /\ c.op # "REMOVE"
          /\ ~Present(c.key)
          /\ Moves(c, "rejected")
          /\ UNCHANGED read
       \/ /\ c.op \in {"START", "STOP"}
          /\ Present(c.key)
          /\ Moves(c, "set")
          /\ read' = [read EXCEPT ![c] = store[c.key].val]
       \/ /\ c.op = "UPDATE"                 \* whatever updateHandler returns
          /\ Present(c.key)
          /\ Moves(c, "set")
          /\ \E v \in Values : read' = [read EXCEPT ![c] = v]
    /\ UNCHANGED <<store, dirty, served, faults>>

CallSet(c) ==
    /\ phase[c] = "set"
    /\ Write(c, read[c])
    /\ Moves(c, "watch")
    /\ UNCHANGED <<read, served, faults>>

(* Variants of Rejected: a rejection passes for a success; remove deletes  *)
(* the key all the same; update forgets its rejection handler as remove    *)
(* does.                                                                   *)
RejectedIsResolved(c) == "resolved"
RejectedDeletes(c) == IF c.op = "REMOVE" THEN "del" ELSE "rejected"
RejectedIsForgotten(c) ==
    IF c.op \in {"REMOVE", "UPDATE"} THEN "hung" ELSE "rejected"

(* A rejection of watchAndWait: remove has no handler for it, its promise  *)
(* stays unsettled for ever.                                               *)
Rejected(c) == IF c.op = "REMOVE" THEN "hung" ELSE "rejected"

SameOperation(c) == store[c.key].req.op = c.op

(* Variant of Accepts: the call does not tell PENDING from OK.             *)
AcceptsPending(c) == SameOperation(c) /\ store[c.key].st \in {"PENDING", "OK"}

Accepts(c) == SameOperation(c) /\ store[c.key].st = "OK"
Refuses(c) == ~SameOperation(c) \/ store[c.key].st = "FAILED"

(* watchAndWait's callback on a change of the key.                         *)
CallSees(c) ==
    /\ phase[c] = "watch"
    /\ Present(c.key)
    /\ \/ /\ Accepts(c)
          /\ Moves(c, IF c.op = "REMOVE" THEN "del" ELSE "resolved")
       \/ /\ Refuses(c)
          /\ Moves(c, Rejected(c))
    /\ UNCHANGED <<store, dirty, read, served, faults>>

(* The callback dereferences the entry without a check: when the key is    *)
(* gone, the exception ends the caller's process.                          *)
CallSeesNothing(c) ==
    /\ phase[c] = "watch"
    /\ ~Present(c.key)
    /\ Exit(c.by)
    /\ UNCHANGED <<store, dirty, read, served, faults>>

CallTimesOut(c) ==
    /\ phase[c] = "watch"
    /\ Moves(c, Rejected(c))
    /\ UNCHANGED <<store, dirty, read, served, faults>>

CallDel(c) ==
    /\ phase[c] = "del"
    /\ Delete(c)
    /\ Moves(c, "resolved")
    /\ UNCHANGED <<read, served, faults>>

(* consul answers a request of the call by an error; a write may have been *)
(* carried out all the same.  The error callbacks of remove refer to       *)
(* variables that do not exist and end the process.                        *)
CallError(c) ==
    /\ faults < MaxFaults
    /\ faults' = faults + 1
    /\ \/ /\ phase[c] = "get"
          /\ IF c.op = "REMOVE" THEN Exit(c.by) ELSE Moves(c, "rejected")
          /\ UNCHANGED <<store, dirty>>
       \/ /\ phase[c] = "set"
          /\ Write(c, read[c]) \/ UNCHANGED <<store, dirty>>
          /\ Moves(c, "rejected")
       \/ /\ phase[c] = "watch"
          /\ Moves(c, Rejected(c))
          /\ UNCHANGED <<store, dirty>>
       \/ /\ phase[c] = "del"
          /\ Delete(c) \/ UNCHANGED <<store, dirty>>
          /\ IF c.op = "REMOVE" THEN Exit(c.by) ELSE Moves(c, "rejected")
    /\ UNCHANGED <<read, served>>

(***************************************************************************)
(* The owner.                                                              *)
(***************************************************************************)
FreeRuns(c) ==
    {n \in 1..MaxRuns[c] : /\ <<c, n>> \notin handling
                        /\ flag[<<<<c, n>>, "pending">>] = Off
                        /\ flag[<<<<c, n>>, "outcome">>] = Off}
NextRun(c) == <<c, CHOOSE n \in FreeRuns(c) : TRUE>>

NewRequests == {store[k].req : k \in {j \in Keys : IsNew(j)}}
Explosive(k) == IsNew(k) /\ <<store[k].req.op, store[k].val>> \in Throws

(* The watch replies with the whole prefix, and the listener is called for *)
(* every NEW entry: it starts the write of PENDING and the handler, if the *)
(* reactor has one for the operation.                                      *)
Deliver ==
    /\ listening /\ dirty
    /\ ~ \E k \in Keys : Explosive(k)
    /\ \A c \in NewRequests : FreeRuns(c) # {}
    /\ dirty' = FALSE
    /\ LET started == {NextRun(c) : c \in NewRequests}
       IN /\ handling' = handling \union {r \in started : Reactor[r[1].op] # {}}
          /\ flag' = [w \in FlagWrites |->
                        IF w[1] \in started /\ w[2] = "pending"
                        THEN FlagWriter("PENDING") ELSE flag[w]]
    /\ UNCHANGED <<store, listening, up, phase, read, served, faults>>

(* A handler that throws ends the owner's process; the entry stays NEW.    *)
DeliverThrows ==
    /\ listening /\ dirty
    /\ \E k \in Keys : Explosive(k)
    /\ Exit(Owner)
    /\ UNCHANGED <<store, dirty, read, served, faults>>

(* The handler's promise settles: the outcome is written to the flags.     *)
HandlerSettles(r) ==
    /\ r \in handling
    /\ handling' = handling \ {r}
    /\ \E o \in Reactor[r[1].op] :
          /\ flag' = [flag EXCEPT ![<<r, "outcome">>] = FlagWriter(o)]
          /\ served' = IF o = "OK" THEN served \union {r[1]} ELSE served
    /\ UNCHANGED <<store, dirty, listening, up, phase, read, faults>>

KeyOf(w) == w[1][1].key

(* Variant of FlagGet: the value that was read is not written back.        *)
FlagGetLosesValue(w) ==
    /\ flag[w].at = "get"
    /\ flag' = [flag EXCEPT ![w] =
                  IF Present(KeyOf(w)) THEN [@ EXCEPT !.at = "set"] ELSE Off]
    /\ UNCHANGED <<store, dirty, listening, up, phase, read, handling, served,
                   faults>>

(* Variant of FlagGet: that there is an entry is not checked.              *)
FlagGetUnchecked(w) ==
    /\ flag[w].at = "get"
    /\ flag' = [flag EXCEPT ![w] =
                  [@ EXCEPT !.at = "set",
                            !.val = IF Present(KeyOf(w)) THEN store[KeyOf(w)].val
                                    ELSE "undefined"]]
    /\ UNCHANGED <<store, dirty, listening, up, phase, read, handling, served,
                   faults>>

(* kv.flag: the entry is read ...                                          *)
FlagGet(w) ==
    /\ flag[w].at = "get"
    /\ flag' = [flag EXCEPT ![w] =
                  IF Present(KeyOf(w))
                  THEN [@ EXCEPT !.at = "set", !.val = store[KeyOf(w)].val]
                  ELSE Off]
    /\ UNCHANGED <<store, dirty, listening, up, phase, read, handling, served,
                   faults>>

WriteFlag(w) ==
    /\ store' = [store EXCEPT ![KeyOf(w)] =
                   Entry(w[1][1], flag[w].st, flag[w].val)]
    /\ dirty' = TRUE

(* ... and written back with the new flags, whatever it holds by now.      *)
FlagSet(w) ==
    /\ flag[w].at = "set"
    /\ WriteFlag(w)
    /\ flag' = [flag EXCEPT ![w] = Off]
    /\ UNCHANGED <<listening, up, phase, read, handling, served, faults>>

(* An error on either request is logged and forgotten; a failed write may  *)
(* have been carried out.                                                  *)
FlagError(w) ==
    /\ flag[w].at # "off"
    /\ faults < MaxFaults
    /\ faults' = faults + 1
    /\ \/ UNCHANGED <<store, dirty>>
       \/ /\ flag[w].at = "set"
          /\ WriteFlag(w)
    /\ flag' = [flag EXCEPT ![w] = Off]
    /\ UNCHANGED <<listening, up, phase, read, handling, served>>

StopWatcher ==
    /\ listening
    /\ faults < MaxFaults
    /\ faults' = faults + 1
    /\ listening' = FALSE
    /\ UNCHANGED <<store, dirty, up, phase, read, handling, flag, served>>

(* Variant of StartWatcher: the new watch waits for a change.              *)
StartWatcherMissesBacklog ==
    /\ ~listening
    /\ Owner \in up
    /\ listening' = TRUE
    /\ UNCHANGED <<store, dirty, up, phase, read, handling, flag, served,
                   faults>>

(* The first reply of a new watch is always delivered.                     *)
StartWatcher ==
    /\ ~listening
    /\ Owner \in up
    /\ listening' = TRUE
    /\ dirty' = TRUE
    /\ UNCHANGED <<store, up, phase, read, handling, flag, served, faults>>

Crash(p) ==
    /\ p \in up
    /\ faults < MaxFaults
    /\ faults' = faults + 1
    /\ Exit(p)
    /\ UNCHANGED <<store, dirty, read, served>>

(* upstart's respawn.                                                      *)
Respawn(p) ==
    /\ p \in Procs \ up
    /\ up' = up \union {p}
    /\ UNCHANGED <<store, dirty, listening, phase, read, handling, flag, served,
                   faults>>

CallStep(c) ==
    \/ Issue(c) \/ CallGet(c) \/ CallSet(c) \/ CallSees(c) \/ CallSeesNothing(c)
    \/ CallTimesOut(c) \/ CallDel(c) \/ CallError(c)

OwnerStep ==
    \/ Deliver \/ DeliverThrows
    \/ \E r \in RunIds : HandlerSettles(r)
    \/ \E w \in FlagWrites : FlagGet(w) \/ FlagSet(w) \/ FlagError(w)
    \/ StopWatcher \/ StartWatcher
    \/ \E p \in Procs : Crash(p) \/ Respawn(p)

Next == (\E c \in Calls : CallStep(c)) \/ OwnerStep

Spec == Init /\ [][Next]_vars

(***************************************************************************)
(* Fairness.  consul answers every request and every watch, the timer of a *)
(* call fires, handlers finish, and upstart restarts a dead process.       *)
(* Nobody is obliged to make a call, or to start a watcher again: that is  *)
(* part of starting the node, which may fail (Membership).                 *)
(***************************************************************************)
CallFairness(c) ==
    /\ WF_vars(CallGet(c)) /\ WF_vars(CallSet(c)) /\ WF_vars(CallDel(c))
    /\ WF_vars(CallTimesOut(c) \/ CallSees(c) \/ CallSeesNothing(c))

Fairness ==
    /\ \A c \in Calls : CallFairness(c)
    /\ WF_vars(Deliver \/ DeliverThrows)
    /\ \A r \in RunIds : WF_vars(HandlerSettles(r))
    /\ \A w \in FlagWrites : WF_vars(FlagGet(w) \/ FlagSet(w))
    /\ \A p \in Procs : WF_vars(Respawn(p))

FairSpec == Spec /\ Fairness

-----------------------------------------------------------------------------
(***************************************************************************)
(* Properties.                                                             *)
(***************************************************************************)
TypeOK ==
    /\ store \in [Keys -> Entries \union {NoEntry}]
    /\ dirty \in BOOLEAN /\ listening \in BOOLEAN
    /\ up \subseteq Procs
    /\ phase \in [Calls -> Phases]
    /\ \A c \in Calls : phase[c] \in {"get", "set", "watch"} => c \in Requests
    /\ read \in [Calls -> Values]
    /\ handling \subseteq RunIds
    /\ flag \in [FlagWrites -> Writers]
    /\ served \subseteq Requests
    /\ faults \in 0..MaxFaults

(* A promise of create, update, remove or signal resolves only when the    *)
(* owner's handler has succeeded for that operation on that key: an OK     *)
(* left by an earlier operation, a stale flag write or a restart never     *)
(* passes for an answer to an operation nobody carried out.                *)
ServedBefore(c) == \E d \in served : d.key = c.key /\ d.op = c.op
AckIsServed ==
    \A c \in Calls : phase[c] = "resolved" /\ c.op # "DELETE" => ServedBefore(c)

(* The inductive form of AckIsServed: an entry belongs to a call that was  *)
(* made on its key, and an OK - in an entry, on its way into one, or       *)
(* already seen by a call - stands for a handler that succeeded.           *)
EntryIsRequested(k) ==
    Present(k) => store[k].req.key = k /\ phase[store[k].req] # "idle"
OkEntryIsServed(k) ==
    Present(k) /\ store[k].st = "OK" =>
        \E d \in served : d.key = k /\ d.op = store[k].req.op
FlagIsRequested(w) ==
    flag[w].at # "off" =>
        /\ phase[w[1][1]] # "idle"
        /\ flag[w].st = "OK" => w[1][1] \in served
AckIsOk(c) ==
    phase[c] \in {"del", "resolved"} /\ c.op # "DELETE" => ServedBefore(c)
ProtocolInvariant ==
    /\ \A k \in Keys : EntryIsRequested(k) /\ OkEntryIsServed(k)
    /\ \A r \in handling : phase[r[1]] # "idle"
    /\ \A w \in FlagWrites : FlagIsRequested(w)
    /\ \A c \in Calls : AckIsOk(c)

(* A key disappears only because it, or a key whose name is a prefix of    *)
(* its name, was removed by removeSync or by a remove whose handler had    *)
(* succeeded: a deletion is never issued on a failed or unanswered remove. *)
RemovedBy(c, k) ==
    /\ phase[c] = "del"
    /\ k \in Under[c.key]
    /\ c.op = "DELETE" \/ ServedBefore(c)
DeletionIsRequested ==
    [][\A k \in Keys : Present(k) /\ ~Present(k)' =>
          \E c \in Calls : RemovedBy(c, k)]_vars

(* The data of a create or of a start reaches the handler: only a remove   *)
(* or an update that returned nothing empties an entry, whatever the       *)
(* read-and-write-back of flags and signals did in between.                *)
Emptied(k) ==
    \E c \in Calls : c.key = k /\ c.op \in {"REMOVE", "UPDATE"} /\ phase[c] # "idle"
HandlerGetsData ==
    \A k \in Keys : IsNew(k) /\ store[k].val = "null" =>
        store[k].req.op # "CREATE" /\ Emptied(k)

(* Every call but remove settles: by an answer, by its timeout or by the   *)
(* death of its process.  A remove does not when it fails or times out,    *)
(* for nothing handles the rejection (index.js:245).                       *)
CallsSettle ==
    \A c \in Calls : c.op # "REMOVE" => (phase[c] # "idle" ~> Settled(c))

(* A request that was written is picked up although the owner crashes, is  *)
(* stopped, or was busy writing flags, provided only that its watcher is   *)
(* started again whenever it has come to an end: what was missed meanwhile *)
(* is delivered then, and no entry stays NEW.                              *)
Waiting(c) == IsNew(c.key) /\ store[c.key].req = c
WatchedAgain == []<>listening
RequestsArePickedUp == WatchedAgain => \A c \in Calls : Waiting(c) ~> ~Waiting(c)

(* The layer keeps the contract with its callers.                          *)
ContractState(c) ==
    IF phase[c] = "idle" THEN "idle"
    ELSE IF phase[c] = "resolved" THEN "acknowledged"
    ELSE IF phase[c] \in {"rejected", "lost"} THEN "failed"
    ELSE "waiting"
Contract ==
    INSTANCE RequestContract WITH
        state <- [c \in Calls |-> ContractState(c)],
        done <- {<<c.key, c.op>> : c \in served}
ImplementsContract == Contract!Spec

-----------------------------------------------------------------------------
(***************************************************************************)
(* What a comment of the code says, and the code does not do.              *)
(***************************************************************************)

(* watcher.js: the PENDING flag is there "so it will not be picked up      *)
(* again": one request has one handler running at a time.                  *)
PickedUpOnce ==
    \A r, s \in handling : r[1] = s[1] => r = s

=============================================================================
