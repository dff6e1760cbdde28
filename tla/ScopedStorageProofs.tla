------------------------ MODULE ScopedStorageProofs ------------------------
(***************************************************************************)
(* Proofs about ScopedStorage, for every set of keys, processes and calls, *)
(* every reactor and every bound.                                          *)
(***************************************************************************)
EXTENDS ScopedStorage, TLAPS

USE KeysAssumption, CallsAssumption, ReactorAssumption, BoundsAssumption
USE DEF Requests, RunIds, FlagWrites, ServedOps, Operations, Values, States, Outcomes

(* Writing a flag, a request or a deletion keeps the store well typed.     *)
LEMMA WriteType ==
    ASSUME TypeOK, NEW c \in Requests, NEW v \in Values, Write(c, v)
    PROVE  store' \in [Keys -> Entries \union {NoEntry}] /\ dirty' \in BOOLEAN
  BY DEF TypeOK, Write, Entry, Entries

(* A deletion keeps the type of the store.                                 *)
LEMMA DeleteType ==
    ASSUME TypeOK, NEW c \in Calls, Delete(c)
    PROVE  store' \in [Keys -> Entries \union {NoEntry}] /\ dirty' \in BOOLEAN
  BY DEF TypeOK, Delete

(* So does the write of an outcome.                                        *)
LEMMA WriteFlagType ==
    ASSUME TypeOK, NEW w \in FlagWrites, WriteFlag(w)
    PROVE  store' \in [Keys -> Entries \union {NoEntry}] /\ dirty' \in BOOLEAN
  <1>1. w[1][1] \in Requests /\ flag[w].st \in States /\ flag[w].val \in Values
    BY DEF TypeOK, Writers
  <1> QED
    BY <1>1 DEF TypeOK, WriteFlag, Entry, Entries

(* The death of a process keeps its part of the state well typed.          *)
LEMMA ExitType ==
    ASSUME TypeOK, NEW p \in Procs, Exit(p)
    PROVE  /\ up' \subseteq Procs /\ phase' \in [Calls -> Phases]
           /\ \A d \in Calls : phase'[d] \in {"get", "set", "watch"} => d \in Requests
           /\ listening' \in BOOLEAN /\ handling' \subseteq RunIds
           /\ flag' \in [FlagWrites -> Writers]
  BY DEF TypeOK, Exit, Phases, Writers, Off

(* A move of a call to one of its phases.                                  *)
LEMMA MovesType ==
    ASSUME TypeOK, NEW c \in Calls, NEW q \in Phases, Moves(c, q),
           q \in {"get", "set", "watch"} => c \in Requests
    PROVE  /\ up' \subseteq Procs /\ phase' \in [Calls -> Phases]
           /\ \A d \in Calls : phase'[d] \in {"get", "set", "watch"} => d \in Requests
           /\ listening' \in BOOLEAN /\ handling' \subseteq RunIds
           /\ flag' \in [FlagWrites -> Writers]
  BY DEF TypeOK, Moves, ownerVars

(* Every step of a call keeps the types.                                   *)
LEMMA CallStepType ==
    ASSUME TypeOK, NEW c \in Calls, CallStep(c)
    PROVE  TypeOK'
  <1> USE DEF TypeOK
  <1>1. CASE Issue(c)
    BY <1>1, MovesType DEF Issue, FirstPhase, Phases
  <1>2. CASE CallGet(c)
    <2>1. c \in Requests
      BY <1>2 DEF CallGet
    <2>2. PICK q \in {"set", "rejected"} : Moves(c, q)
      BY <1>2 DEF CallGet
    <2>3. read' \in [Calls -> Values]
      <3>1. Present(c.key) => store[c.key].val \in Values
        BY DEF Present, Entries
      <3> QED
        BY <1>2, <3>1 DEF CallGet
    <2> QED
      BY <1>2, <2>1, <2>2, <2>3, MovesType DEF CallGet, Phases
  <1>3. CASE CallSet(c)
    <2>1. c \in Requests /\ read[c] \in Values
      BY <1>3 DEF CallSet
    <2>2. Write(c, read[c]) /\ Moves(c, "watch")
      BY <1>3 DEF CallSet
    <2>3. store' \in [Keys -> Entries \union {NoEntry}] /\ dirty' \in BOOLEAN
      BY <2>1, <2>2, WriteType
    <2> QED
      BY <1>3, <2>1, <2>2, <2>3, MovesType DEF CallSet, Phases
  <1>4. CASE CallSees(c)
    BY <1>4, MovesType DEF CallSees, Phases, Rejected
  <1>5. CASE CallSeesNothing(c)
    BY <1>5, ExitType DEF CallSeesNothing
  <1>6. CASE CallTimesOut(c)
    BY <1>6, MovesType DEF CallTimesOut, Phases, Rejected
  <1>7. CASE CallDel(c)
    BY <1>7, MovesType, DeleteType DEF CallDel, Phases
  <1>8. CASE CallError(c)
    <2>1. store' \in [Keys -> Entries \union {NoEntry}] /\ dirty' \in BOOLEAN
      BY <1>8, WriteType, DeleteType DEF CallError
    <2>2. /\ up' \subseteq Procs /\ phase' \in [Calls -> Phases]
          /\ \A d \in Calls : phase'[d] \in {"get", "set", "watch"} => d \in Requests
          /\ listening' \in BOOLEAN /\ handling' \subseteq RunIds
          /\ flag' \in [FlagWrites -> Writers]
      BY <1>8, MovesType, ExitType DEF CallError, Phases, Rejected
    <2> QED
      BY <1>8, <2>1, <2>2 DEF CallError
  <1> QED
    BY <1>1, <1>2, <1>3, <1>4, <1>5, <1>6, <1>7, <1>8 DEF CallStep

(* Every step of the owner, of its flag writes and of upstart keeps them.  *)
LEMMA OwnerStepType ==
    ASSUME TypeOK, OwnerStep
    PROVE  TypeOK'
  <1> USE DEF TypeOK
  <1>1. CASE Deliver
    <2>1. handling' \subseteq RunIds
      <3>1. \A c \in NewRequests : FreeRuns(c) # {} => NextRun(c) \in RunIds
        <4> SUFFICES ASSUME NEW c \in NewRequests, FreeRuns(c) # {}
                     PROVE  NextRun(c) \in RunIds
          OBVIOUS
        <4>1. c \in Requests
          BY DEF NewRequests, IsNew, Present, Entries, NoEntry
        <4>2. (CHOOSE n \in FreeRuns(c) : TRUE) \in FreeRuns(c)
          OBVIOUS
        <4>3. FreeRuns(c) \subseteq 1..MaxRuns[c]
          BY DEF FreeRuns
        <4>4. NextRun(c) \in {c} \X (1..MaxRuns[c])
          BY <4>2, <4>3 DEF NextRun
        <4> QED
          BY <4>1, <4>4
      <3> QED
        BY <1>1, <3>1 DEF Deliver
    <2>2. flag' \in [FlagWrites -> Writers]
      BY <1>1 DEF Deliver, FlagWriter, Writers
    <2> QED
      BY <1>1, <2>1, <2>2 DEF Deliver
  <1>2. CASE DeliverThrows
    BY <1>2, ExitType DEF DeliverThrows
  <1>3. ASSUME NEW r \in RunIds, HandlerSettles(r)
        PROVE  TypeOK'
    <2>1. r[1] \in Requests /\ r[1].op \in ServedOps
      BY <1>3
    <2>2. PICK o \in Reactor[r[1].op] :
            /\ flag' = [flag EXCEPT ![<<r, "outcome">>] = FlagWriter(o)]
            /\ served' = IF o = "OK" THEN served \union {r[1]} ELSE served
      BY <1>3 DEF HandlerSettles
    <2>3. o \in States
      BY <2>1, <2>2
    <2>4. flag' \in [FlagWrites -> Writers]
      BY <1>3, <2>2, <2>3 DEF FlagWriter, Writers
    <2>5. served' \subseteq Requests
      BY <2>1, <2>2
    <2> QED
      BY <1>3, <2>4, <2>5 DEF HandlerSettles
  <1>4. ASSUME NEW w \in FlagWrites, FlagGet(w)
        PROVE  TypeOK'
    <2>1. Present(KeyOf(w)) => store[KeyOf(w)].val \in Values
      <3>1. KeyOf(w) \in Keys
        BY <1>4 DEF KeyOf
      <3> QED
        BY <3>1 DEF Present, Entries
    <2>2. CASE Present(KeyOf(w))
      <3>1. flag' = [flag EXCEPT ![w] =
                       [@ EXCEPT !.at = "set", !.val = store[KeyOf(w)].val]]
        BY <1>4, <2>2 DEF FlagGet
      <3>2. flag[w] \in Writers
        BY <1>4
      <3>3. [flag[w] EXCEPT !.at = "set", !.val = store[KeyOf(w)].val] \in Writers
        BY <2>1, <2>2, <3>2 DEF Writers
      <3> QED
        BY <1>4, <3>1, <3>3 DEF FlagGet
    <2>3. CASE ~Present(KeyOf(w))
      BY <1>4, <2>3 DEF FlagGet, Writers, Off
    <2> QED
      BY <2>2, <2>3
  <1>5. ASSUME NEW w \in FlagWrites, FlagSet(w)
        PROVE  TypeOK'
    BY <1>5, WriteFlagType DEF FlagSet, Writers, Off
  <1>6. ASSUME NEW w \in FlagWrites, FlagError(w)
        PROVE  TypeOK'
    <2>1. store' \in [Keys -> Entries \union {NoEntry}] /\ dirty' \in BOOLEAN
      BY <1>6, WriteFlagType DEF FlagError
    <2> QED
      BY <1>6, <2>1 DEF FlagError, Writers, Off
  <1>7. CASE StopWatcher
    <2>1. faults' \in 0..MaxFaults
      BY <1>7 DEF StopWatcher
    <2> QED
      BY <1>7, <2>1 DEF StopWatcher
  <1>8. CASE StartWatcher
    BY <1>8 DEF StartWatcher
  <1>9. ASSUME NEW p \in Procs, Crash(p)
        PROVE  TypeOK'
    <2>1. faults' \in 0..MaxFaults /\ Exit(p)
      BY <1>9 DEF Crash
    <2> QED
      BY <1>9, <2>1, ExitType DEF Crash
  <1>10. ASSUME NEW p \in Procs, Respawn(p)
         PROVE  TypeOK'
    BY <1>10 DEF Respawn
  <1> QED
    BY <1>1, <1>2, <1>3, <1>4, <1>5, <1>6, <1>7, <1>8, <1>9, <1>10 DEF OwnerStep

(* Every variable keeps its type, whatever the calls, crashes and errors.  *)
THEOREM TypeCorrect == Spec => []TypeOK
  <1>1. Init => TypeOK
    BY DEF Init, TypeOK, Phases, Writers, Off
  <1>2. TypeOK /\ [Next]_vars => TypeOK'
    <2> SUFFICES ASSUME TypeOK, [Next]_vars
                 PROVE  TypeOK'
      OBVIOUS
    <2>1. CASE UNCHANGED vars
      BY <2>1 DEF TypeOK, vars
    <2> QED
      BY <2>1, CallStepType, OwnerStepType DEF Next
  <1> QED
    BY <1>1, <1>2, PTL DEF Spec

-----------------------------------------------------------------------------
(***************************************************************************)
(* The protocol invariant.                                                 *)
(***************************************************************************)

(* History is never lost: a call that was made stays made, a request that  *)
(* was served stays served.                                                *)
LEMMA HistoryGrows ==
    ASSUME TypeOK, Next
    PROVE  /\ served \subseteq served'
           /\ \A c \in Calls : phase[c] # "idle" => phase'[c] # "idle"
  <1> USE DEF TypeOK
  <1>1. ASSUME NEW c \in Calls, CallStep(c)
        PROVE  /\ served \subseteq served'
               /\ \A d \in Calls : phase[d] # "idle" => phase'[d] # "idle"
    <2>1. served' = served
      BY <1>1 DEF CallStep, Issue, CallGet, CallSet, CallSees, CallSeesNothing,
                  CallTimesOut, CallDel, CallError
    <2>2. \/ \E q \in Phases \ {"idle"} : Moves(c, q)
          \/ Exit(c.by)
      BY <1>1 DEF CallStep, Issue, FirstPhase, CallGet, CallSet, CallSees,
                  CallSeesNothing, CallTimesOut, CallDel, CallError, Rejected, Phases
    <2> QED
      BY <2>1, <2>2 DEF Moves, Exit
  <1>2. CASE OwnerStep
    BY <1>2 DEF OwnerStep, Deliver, DeliverThrows, HandlerSettles, FlagGet, FlagSet,
                FlagError, StopWatcher, StartWatcher, Crash, Respawn, Exit
  <1> QED
    BY <1>1, <1>2 DEF Next

(* What a step can put under a key: nothing, a new request of a call that  *)
(* has been made, or the flags of a run.                                   *)
StoreStep(k) ==
    \/ store'[k] = store[k]
    \/ store'[k] = NoEntry
    \/ \E c \in Requests :
          /\ c.key = k /\ phase[c] = "set" /\ phase'[c] # "idle"
          /\ store'[k] = Entry(c, "NEW", read[c])
    \/ \E w \in FlagWrites :
          /\ KeyOf(w) = k /\ flag[w].at = "set"
          /\ store'[k] = Entry(w[1][1], flag[w].st, flag[w].val)

(* Every step changes an entry in one of the ways of StoreStep.            *)
LEMMA StoreSteps ==
    ASSUME TypeOK, Next, NEW k \in Keys
    PROVE  StoreStep(k)
  <1> USE DEF TypeOK
  <1>1. ASSUME NEW c \in Calls, CallStep(c)
        PROVE  StoreStep(k)
    <2>1. \/ store' = store
          \/ Delete(c)
          \/ c \in Requests /\ phase[c] = "set" /\ phase'[c] # "idle" /\ Write(c, read[c])
      BY <1>1 DEF CallStep, Issue, CallGet, CallSet, CallSees, CallSeesNothing,
                  CallTimesOut, CallDel, CallError, Moves
    <2>2. CASE Delete(c)
      BY <2>2 DEF Delete, StoreStep
    <2>3. CASE c \in Requests /\ phase[c] = "set" /\ phase'[c] # "idle" /\ Write(c, read[c])
      <3>1. store' = [store EXCEPT ![c.key] = Entry(c, "NEW", read[c])]
        BY <2>3 DEF Write
      <3> QED
        BY <2>3, <3>1 DEF StoreStep
    <2> QED
      BY <2>1, <2>2, <2>3 DEF StoreStep
  <1>2. CASE OwnerStep
    <2>1. \/ store' = store
          \/ \E w \in FlagWrites : flag[w].at = "set" /\ WriteFlag(w)
      BY <1>2 DEF OwnerStep, Deliver, DeliverThrows, HandlerSettles, FlagGet, FlagSet,
                  FlagError, StopWatcher, StartWatcher, Crash, Respawn
    <2>2. ASSUME NEW w \in FlagWrites, flag[w].at = "set", WriteFlag(w)
          PROVE  StoreStep(k)
      BY <2>2 DEF WriteFlag, StoreStep
    <2> QED
      BY <2>1, <2>2 DEF StoreStep
  <1> QED
    BY <1>1, <1>2 DEF Next

(* What a step can do to a flag write: drop it, start the write of PENDING *)
(* for an entry that is NEW, start the write of an outcome of a handler,   *)
(* or advance it without touching the state it is going to write.          *)
FlagStep(w) ==
    \/ flag'[w].at = "off" /\ flag'[w].st \in {flag[w].st, "PENDING"}
    \/ flag[w].at # "off" /\ flag'[w].st = flag[w].st
    \/ flag'[w].st = "PENDING" /\ w[1][1] \in NewRequests
    \/ /\ w[1] \in handling /\ flag'[w].st \in Outcomes
       /\ flag'[w].st = "OK" => w[1][1] \in served'

(* Every step moves a writer of an outcome as FlagStep says.               *)
LEMMA FlagSteps ==
    ASSUME TypeOK, Next, NEW w \in FlagWrites
    PROVE  FlagStep(w)
  <1> USE DEF TypeOK
  <1>0. flag[w] \in Writers
    OBVIOUS
  <1>1. ASSUME NEW c \in Calls, CallStep(c)
        PROVE  FlagStep(w)
    <2>1. flag' = flag \/ Exit(c.by)
      BY <1>1 DEF CallStep, Issue, CallGet, CallSet, CallSees, CallSeesNothing,
                  CallTimesOut, CallDel, CallError, Moves, ownerVars
    <2> QED
      BY <1>0, <2>1 DEF Exit, FlagStep, Off
  <1>2. CASE Deliver
    <2>1. CASE flag'[w] = flag[w]
      BY <2>1 DEF FlagStep
    <2>2. CASE flag'[w] # flag[w]
      <3>1. PICK c \in NewRequests : w[1] = NextRun(c)
        BY <1>2, <2>2 DEF Deliver
      <3>2. w[1][1] = c
        BY <3>1 DEF NextRun
      <3> QED
        BY <1>2, <2>2, <3>1, <3>2 DEF Deliver, FlagWriter, FlagStep
    <2> QED
      BY <2>1, <2>2
  <1>3. CASE DeliverThrows
    BY <1>0, <1>3 DEF DeliverThrows, Exit, FlagStep, Off
  <1>4. ASSUME NEW r \in RunIds, HandlerSettles(r)
        PROVE  FlagStep(w)
    <2>1. PICK o \in Reactor[r[1].op] :
             /\ flag' = [flag EXCEPT ![<<r, "outcome">>] = FlagWriter(o)]
             /\ o = "OK" => r[1] \in served'
      BY <1>4 DEF HandlerSettles
    <2>2. o \in Outcomes
      BY ReactorAssumption, CallsAssumption DEF RunIds, Requests, Operations
    <2>3. CASE w = <<r, "outcome">>
      BY <1>4, <2>1, <2>2, <2>3 DEF HandlerSettles, FlagWriter, FlagStep
    <2>4. CASE w # <<r, "outcome">>
      BY <2>1, <2>4 DEF FlagStep
    <2> QED
      BY <2>3, <2>4
  <1>5. ASSUME NEW x \in FlagWrites, FlagGet(x)
        PROVE  FlagStep(w)
    BY <1>0, <1>5 DEF FlagGet, FlagStep, Off, Writers
  <1>6. ASSUME NEW x \in FlagWrites, FlagSet(x) \/ FlagError(x)
        PROVE  FlagStep(w)
    BY <1>0, <1>6 DEF FlagSet, FlagError, FlagStep, Off
  <1>7. CASE \/ StopWatcher \/ StartWatcher
             \/ \E p \in Procs : Crash(p) \/ Respawn(p)
    <2>1. flag' = flag \/ flag' = [x \in FlagWrites |-> Off]
      BY <1>7 DEF StopWatcher, StartWatcher, Crash, Respawn, Exit
    <2>2. CASE flag' = flag
      BY <2>2 DEF FlagStep
    <2>3. CASE flag' = [x \in FlagWrites |-> Off]
      BY <2>3 DEF FlagStep, Off
    <2> QED
      BY <2>1, <2>2, <2>3
  <1> QED
    BY <1>1, <1>2, <1>3, <1>4, <1>5, <1>6, <1>7 DEF Next, OwnerStep

(* A run that goes on after a step went on before it, or the step started  *)
(* it for an entry that is NEW.                                            *)
LEMMA HandlingSteps ==
    ASSUME TypeOK, Next, NEW r \in handling', r \notin handling
    PROVE  r \in RunIds /\ r[1] \in NewRequests
  <1> USE DEF TypeOK
  <1>1. CASE Deliver
    <2>1. PICK c \in NewRequests : r = NextRun(c)
      BY <1>1 DEF Deliver
    <2>2. r[1] = c
      BY <2>1 DEF NextRun
    <2> QED
      BY <1>1, <2>1, <2>2, OwnerStepType DEF OwnerStep
  <1>2. ASSUME ~Deliver
        PROVE  FALSE
    BY <1>2 DEF Next, OwnerStep, DeliverThrows, HandlerSettles, FlagGet, FlagSet,
                FlagError, StopWatcher, StartWatcher, Crash, Respawn, CallStep, Issue,
                CallGet, CallSet, CallSees, CallSeesNothing, CallTimesOut, CallDel,
                CallError, Moves, ownerVars, Exit
  <1> QED
    BY <1>1, <1>2

(* A call learns that its operation was carried out only from an entry     *)
(* whose flags say OK for it.                                              *)
LEMMA AckSteps ==
    ASSUME TypeOK, Next, NEW c \in Calls, c.op # "DELETE",
           phase'[c] \in {"del", "resolved"}
    PROVE  \/ phase[c] \in {"del", "resolved"}
           \/ Present(c.key) /\ Accepts(c)
  <1> USE DEF TypeOK
  <1>1. ASSUME NEW d \in Calls, CallStep(d)
        PROVE  \/ phase[c] \in {"del", "resolved"}
               \/ Present(c.key) /\ Accepts(c)
    <2>1. CASE \E p \in Procs : Exit(p)
      BY <2>1 DEF Exit, Phases, InFlight
    <2>2. CASE \E q \in {"get", "set", "watch", "rejected", "hung"} : Moves(d, q)
      BY <2>2 DEF Moves
    <2>3. CASE Issue(d)
      BY <2>3 DEF Issue, FirstPhase, Moves
    <2>4. CASE CallSees(d)
      BY <2>4 DEF CallSees, Moves, Rejected
    <2>5. CASE CallDel(d)
      BY <2>5 DEF CallDel, Moves
    <2> QED
      BY <1>1, <2>1, <2>2, <2>3, <2>4, <2>5
         DEF CallStep, CallGet, CallSet, CallSeesNothing, CallTimesOut, CallError,
             Rejected
  <1>2. CASE OwnerStep
    <2>1. phase' = phase \/ \E p \in Procs : Exit(p)
      BY <1>2 DEF OwnerStep, Deliver, DeliverThrows, HandlerSettles, FlagGet, FlagSet,
                  FlagError, StopWatcher, StartWatcher, Crash, Respawn
    <2> QED
      BY <2>1 DEF Exit
  <1> QED
    BY <1>1, <1>2 DEF Next

(* The invariant is inductive: an OK can only come from a handler that     *)
(* succeeded, and it travels from the outcome write into the entry and     *)
(* from the entry to the calls that watch it.                              *)
LEMMA InvariantStep ==
    ASSUME TypeOK, TypeOK', ProtocolInvariant, Next
    PROVE  ProtocolInvariant'
  <1>1. /\ served \subseteq served' /\ served' \subseteq Requests
        /\ \A c \in Calls : phase[c] # "idle" => phase'[c] # "idle"
    BY HistoryGrows DEF TypeOK
  <1>2. \A c \in NewRequests : c \in Requests /\ phase[c] # "idle"
    BY DEF NewRequests, IsNew, Present, Entries, TypeOK, ProtocolInvariant,
           EntryIsRequested
  <1>3. ASSUME NEW k \in Keys
        PROVE  (EntryIsRequested(k) /\ OkEntryIsServed(k))'
    <2>0. /\ store[k] \in Entries \union {NoEntry}
          /\ EntryIsRequested(k) /\ OkEntryIsServed(k)
      BY DEF TypeOK, ProtocolInvariant
    <2>1. CASE store'[k] = store[k]
      BY <1>1, <2>0, <2>1 DEF EntryIsRequested, OkEntryIsServed, Present, Entries
    <2>2. CASE store'[k] = NoEntry
      BY <2>2 DEF EntryIsRequested, OkEntryIsServed, Present
    <2>3. ASSUME NEW c \in Requests, c.key = k, phase'[c] # "idle",
                 store'[k] = Entry(c, "NEW", read[c])
          PROVE  (EntryIsRequested(k) /\ OkEntryIsServed(k))'
      BY <2>3 DEF EntryIsRequested, OkEntryIsServed, Entry
    <2>4. ASSUME NEW w \in FlagWrites, KeyOf(w) = k, flag[w].at = "set",
                 store'[k] = Entry(w[1][1], flag[w].st, flag[w].val)
          PROVE  (EntryIsRequested(k) /\ OkEntryIsServed(k))'
      <3>1. FlagIsRequested(w)
        BY DEF ProtocolInvariant
      <3>2. phase'[w[1][1]] # "idle" /\ (flag[w].st = "OK" => w[1][1] \in served')
        BY <1>1, <2>4, <3>1 DEF FlagIsRequested
      <3>3. store'[k].req = w[1][1] /\ store'[k].st = flag[w].st
        BY <2>4 DEF Entry
      <3> QED
        BY <2>4, <3>2, <3>3 DEF EntryIsRequested, OkEntryIsServed, KeyOf
    <2> QED
      BY <2>1, <2>2, <2>3, <2>4, StoreSteps DEF StoreStep
  <1>4. ASSUME NEW r \in handling'
        PROVE  phase'[r[1]] # "idle"
    <2>1. CASE r \in handling
      BY <1>1, <2>1 DEF ProtocolInvariant, TypeOK
    <2>2. CASE r \notin handling
      BY <1>1, <1>2, <2>2, HandlingSteps
    <2> QED
      BY <2>1, <2>2
  <1>5. ASSUME NEW w \in FlagWrites
        PROVE  FlagIsRequested(w)'
    <2>1. FlagIsRequested(w) /\ w[1] \in RunIds /\ w[1][1] \in Requests
      BY DEF ProtocolInvariant
    <2>2. w[1] \in handling => phase[w[1][1]] # "idle"
      BY DEF ProtocolInvariant
    <2> QED
      BY <1>1, <1>2, <2>1, <2>2, FlagSteps DEF FlagStep, FlagIsRequested, Off
  <1>6. ASSUME NEW c \in Calls
        PROVE  AckIsOk(c)'
    <2> SUFFICES ASSUME phase'[c] \in {"del", "resolved"}, c.op # "DELETE"
                 PROVE  ServedBefore(c)'
      BY DEF AckIsOk
    <2>1. CASE phase[c] \in {"del", "resolved"}
      BY <1>1, <2>1 DEF ProtocolInvariant, AckIsOk, ServedBefore
    <2>2. CASE Present(c.key) /\ Accepts(c)
      BY <1>1, <2>2 DEF ProtocolInvariant, OkEntryIsServed, Accepts, SameOperation,
                        ServedBefore
    <2> QED
      BY <2>1, <2>2, AckSteps
  <1> QED
    BY <1>3, <1>4, <1>5, <1>6 DEF ProtocolInvariant

(* Every entry, flag write and acknowledgement is accounted for.           *)
THEOREM ProtocolCorrect == Spec => []ProtocolInvariant
  <1>1. Init => ProtocolInvariant
    BY DEF Init, ProtocolInvariant, EntryIsRequested, OkEntryIsServed, Present,
           FlagIsRequested, Off, AckIsOk
  <1>2. TypeOK /\ TypeOK' /\ ProtocolInvariant /\ [Next]_vars => ProtocolInvariant'
    <2> SUFFICES ASSUME TypeOK, TypeOK', ProtocolInvariant, [Next]_vars
                 PROVE  ProtocolInvariant'
      OBVIOUS
    <2>1. CASE UNCHANGED vars
      BY <2>1 DEF vars, ProtocolInvariant, EntryIsRequested, OkEntryIsServed, Present,
                  FlagIsRequested, AckIsOk, ServedBefore
    <2> QED
      BY <2>1, InvariantStep
  <1> QED
    BY <1>1, <1>2, TypeCorrect, PTL DEF Spec

(* create, update, remove and signal resolve only when a handler has       *)
(* succeeded for that operation on that key.                               *)
THEOREM AcksAreServed == Spec => []AckIsServed
  <1>1. ProtocolInvariant => AckIsServed
    BY DEF ProtocolInvariant, AckIsOk, AckIsServed
  <1> QED
    BY <1>1, ProtocolCorrect, PTL

-----------------------------------------------------------------------------
(***************************************************************************)
(* Deletions, and the contract with the callers.                           *)
(***************************************************************************)

(* A step that makes a key disappear is the deletion of a call.            *)
LEMMA DeletionSteps ==
    ASSUME TypeOK, Next, NEW k \in Keys, Present(k), ~Present(k)'
    PROVE  \E c \in Calls : phase[c] = "del" /\ k \in Under[c.key]
  <1> USE DEF TypeOK
  <1>1. ASSUME NEW c \in Calls, CallStep(c)
        PROVE  phase[c] = "del" /\ k \in Under[c.key]
    <2>1. CASE phase[c] = "del" /\ Delete(c)
      BY <2>1 DEF Delete, Present
    <2>2. CASE \E v : Write(c, v)
      BY <2>2 DEF Write, Entry, NoEntry, Present
    <2>3. CASE store' = store
      BY <2>3 DEF Present
    <2> QED
      BY <1>1, <2>1, <2>2, <2>3
         DEF CallStep, Issue, CallGet, CallSet, CallSees, CallSeesNothing,
             CallTimesOut, CallDel, CallError
  <1>2. CASE OwnerStep
    <2>1. store' = store \/ \E w \in FlagWrites : WriteFlag(w)
      BY <1>2 DEF OwnerStep, Deliver, DeliverThrows, HandlerSettles, FlagGet, FlagSet,
                  FlagError, StopWatcher, StartWatcher, Crash, Respawn
    <2>2. ASSUME NEW w \in FlagWrites, WriteFlag(w)
          PROVE  store'[k] = store[k] \/ store'[k].st \in States
      BY <2>2 DEF WriteFlag, Entry, Writers
    <2>3. store'[k] = NoEntry /\ store[k] # NoEntry /\ NoEntry.st \notin States
      BY DEF Present, NoEntry
    <2> QED
      BY <2>1, <2>2, <2>3
  <1> QED
    BY <1>1, <1>2 DEF Next

(* A key disappears only under a removeSync or under a remove whose        *)
(* handler had succeeded.                                                  *)
THEOREM DeletionsAreRequested == Spec => DeletionIsRequested
  <1>1. ASSUME TypeOK, ProtocolInvariant, [Next]_vars
        PROVE  \A k \in Keys : Present(k) /\ ~Present(k)' =>
                  \E c \in Calls : RemovedBy(c, k)
    <2> SUFFICES ASSUME NEW k \in Keys, Present(k), ~Present(k)'
                 PROVE  \E c \in Calls : RemovedBy(c, k)
      OBVIOUS
    <2>1. Next
      BY <1>1 DEF vars, Present
    <2>2. PICK c \in Calls : phase[c] = "del" /\ k \in Under[c.key]
      BY <1>1, <2>1, DeletionSteps
    <2> QED
      BY <1>1, <2>2 DEF ProtocolInvariant, AckIsOk, RemovedBy
  <1> QED
    BY <1>1, TypeCorrect, ProtocolCorrect, PTL DEF Spec, DeletionIsRequested

(* The refinement: a call that moves on inside the protocol is still       *)
(* waiting for its caller; a rejection or a death fails it; an OK          *)
(* acknowledges it, which the protocol invariant justifies.                *)
LEMMA MoveRefines ==
    ASSUME TypeOK, NEW c \in Calls, phase[c] \in InFlight, served' = served,
           NEW q \in {"set", "watch", "del", "hung", "rejected"}, Moves(c, q)
    PROVE  [Contract!Next]_Contract!vars
  <1>1. phase' = [phase EXCEPT ![c] = q] /\ phase \in [Calls -> Phases]
    BY DEF Moves, TypeOK
  <1>2. CASE q = "rejected"
    <2>1. ContractState(c) = "waiting" /\ ContractState(c)' = "failed"
      BY <1>1, <1>2 DEF ContractState, InFlight
    <2>2. \A d \in Calls : d # c => ContractState(d)' = ContractState(d)
      BY <1>1 DEF ContractState
    <2>3. Contract!Fail({c})
      BY <2>1, <2>2 DEF Contract!Fail
    <2> QED
      BY <2>3 DEF Contract!Next
  <1>3. CASE q # "rejected"
    <2>1. \A d \in Calls : ContractState(d)' = ContractState(d)
      BY <1>1, <1>3 DEF ContractState, InFlight
    <2> QED
      BY <2>1 DEF Contract!vars
  <1> QED
    BY <1>2, <1>3

(* A call that is acknowledged acknowledges in the contract.               *)
LEMMA AckRefines ==
    ASSUME TypeOK, NEW c \in Calls, phase[c] \in InFlight, served' = served,
           Moves(c, "resolved"), c.op = "DELETE" \/ ServedBefore(c)
    PROVE  Contract!Next
  <1>1. phase' = [phase EXCEPT ![c] = "resolved"] /\ phase \in [Calls -> Phases]
    BY DEF Moves, TypeOK
  <1>2. ContractState(c) = "waiting" /\ ContractState(c)' = "acknowledged"
    BY <1>1 DEF ContractState, InFlight
  <1>3. \A d \in Calls : d # c => ContractState(d)' = ContractState(d)
    BY <1>1 DEF ContractState
  <1>4. Contract!Acknowledge(c)
    BY <1>2, <1>3 DEF Contract!Acknowledge, Contract!Unilateral, Contract!Carried,
                      ServedBefore
  <1> QED
    BY <1>4 DEF Contract!Next

(* The end of a process fails its calls in the contract.                   *)
LEMMA ExitRefines ==
    ASSUME TypeOK, NEW p \in Procs, Exit(p), served' = served
    PROVE  Contract!Next
  <1> DEFINE S == {c \in Calls : c.by = p /\ phase[c] \in InFlight \union {"hung"}}
  <1>1. \A c \in Calls : phase'[c] = IF c \in S THEN "lost" ELSE phase[c]
    BY DEF Exit
  <1>2. \A c \in S : ContractState(c) = "waiting"
    BY DEF ContractState, InFlight
  <1>3. \A c \in Calls :
          ContractState(c)' = IF c \in S THEN "failed" ELSE ContractState(c)
    BY <1>1 DEF ContractState
  <1>4. Contract!Fail(S)
    BY <1>2, <1>3 DEF Contract!Fail
  <1> QED
    BY <1>4 DEF Contract!Next

(* Every step of a call is a step of the contract, or none.                *)
LEMMA CallStepRefines ==
    ASSUME TypeOK, ProtocolInvariant, NEW c \in Calls, CallStep(c)
    PROVE  [Contract!Next]_Contract!vars
  <1>1. served' = served
    BY DEF CallStep, Issue, CallGet, CallSet, CallSees, CallSeesNothing,
           CallTimesOut, CallDel, CallError
  <1>2. CASE Issue(c)
    <2>1. phase[c] = "idle" /\ phase' = [phase EXCEPT ![c] = FirstPhase(c)]
      BY <1>2 DEF Issue, Moves
    <2>2. ContractState(c) = "idle" /\ ContractState(c)' = "waiting"
      BY <2>1 DEF ContractState, FirstPhase, TypeOK
    <2>3. \A d \in Calls : d # c => ContractState(d)' = ContractState(d)
      BY <2>1 DEF ContractState, TypeOK
    <2>4. Contract!Ask({c})
      BY <1>1, <2>2, <2>3 DEF Contract!Ask
    <2> QED
      BY <2>4 DEF Contract!Next
  <1>3. CASE /\ phase[c] \in InFlight
             /\ \E q \in {"set", "watch", "del", "hung", "rejected"} : Moves(c, q)
    BY <1>1, <1>3, MoveRefines
  <1>4. CASE Exit(c.by)
    BY <1>1, <1>4, ExitRefines
  <1>5. CASE /\ phase[c] \in InFlight /\ Moves(c, "resolved")
             /\ c.op = "DELETE" \/ ServedBefore(c)
    BY <1>1, <1>5, AckRefines
  <1>6. CASE CallSees(c)
    <2>1. phase[c] \in InFlight /\ (Accepts(c) => ServedBefore(c))
      BY <1>6 DEF CallSees, InFlight, Accepts, SameOperation, ProtocolInvariant,
                  OkEntryIsServed, ServedBefore
    <2> QED
      BY <1>3, <1>5, <1>6, <2>1 DEF CallSees, Rejected
  <1>7. CASE CallDel(c)
    BY <1>5, <1>7 DEF CallDel, InFlight, ProtocolInvariant, AckIsOk
  <1>8. CASE CallGet(c) \/ CallSet(c) \/ CallTimesOut(c) \/ CallError(c)
    BY <1>3, <1>4, <1>8 DEF CallGet, CallSet, CallTimesOut, CallError, Rejected,
                            InFlight
  <1> QED
    BY <1>2, <1>4, <1>6, <1>7, <1>8 DEF CallStep, CallSeesNothing

(* So is every step of the owner of the keys.                              *)
LEMMA OwnerStepRefines ==
    ASSUME TypeOK, ProtocolInvariant, OwnerStep
    PROVE  [Contract!Next]_Contract!vars
  <1>1. ASSUME NEW r \in RunIds, HandlerSettles(r)
        PROVE  [Contract!Next]_Contract!vars
    <2>1. phase' = phase /\ (served' = served \/ served' = served \union {r[1]})
      BY <1>1 DEF HandlerSettles
    <2>2. \A d \in Calls : ContractState(d)' = ContractState(d)
      BY <2>1 DEF ContractState
    <2>3. ContractState(r[1]) # "idle"
      BY <1>1 DEF HandlerSettles, ProtocolInvariant, ContractState
    <2>4. CASE served' = served
      BY <2>2, <2>4 DEF Contract!vars
    <2>5. CASE served' = served \union {r[1]}
      <3>1. {<<d.key, d.op>> : d \in served'}
              = {<<d.key, d.op>> : d \in served} \union {<<r[1].key, r[1].op>>}
        BY <2>5
      <3>2. Contract!Serve(r[1])
        BY <2>2, <2>3, <3>1 DEF Contract!Serve
      <3> QED
        BY <3>2 DEF Contract!Next, RunIds
    <2> QED
      BY <2>1, <2>4, <2>5
  <1>2. CASE served' = served /\ phase' = phase
    <2>1. \A d \in Calls : ContractState(d)' = ContractState(d)
      BY <1>2 DEF ContractState
    <2> QED
      BY <1>2, <2>1 DEF Contract!vars
  <1>3. CASE served' = served /\ \E p \in Procs : Exit(p)
    BY <1>3, ExitRefines
  <1> QED
    BY <1>1, <1>2, <1>3 DEF OwnerStep, Deliver, DeliverThrows, FlagGet, FlagSet,
                            FlagError, StopWatcher, StartWatcher, Crash, Respawn

(* The storage layer keeps its contract with its callers.                  *)
THEOREM KeepsContract == Spec => ImplementsContract
  <1>1. Init => Contract!Init
    BY DEF Init, Contract!Init, ContractState
  <1>2. TypeOK /\ ProtocolInvariant /\ [Next]_vars => [Contract!Next]_Contract!vars
    <2> SUFFICES ASSUME TypeOK, ProtocolInvariant, [Next]_vars
                 PROVE  [Contract!Next]_Contract!vars
      OBVIOUS
    <2>1. CASE UNCHANGED vars
      BY <2>1 DEF vars, Contract!vars, ContractState
    <2> QED
      BY <2>1, CallStepRefines, OwnerStepRefines DEF Next
  <1> QED
    BY <1>1, <1>2, TypeCorrect, ProtocolCorrect, PTL
       DEF Spec, ImplementsContract, Contract!Spec

-----------------------------------------------------------------------------
(***************************************************************************)
(* The data of an entry on its way through calls and flags.                *)
(***************************************************************************)
(* Wherever an empty value is - in an entry, read by a call that is going  *)
(* to write it, or by a flag write that will put it back - a remove or an  *)
(* update of that key has been made, and no flag write brings a NEW back.  *)
EntryHasData(k) ==
    Present(k) /\ store[k].val = "null" =>
        Emptied(k) /\ (store[k].st = "NEW" => store[k].req.op # "CREATE")
CallHasData(c) ==
    phase[c] = "set" /\ read[c] = "null" => c.op # "CREATE" /\ Emptied(c.key)
FlagHasData(w) ==
    /\ flag[w].st # "NEW"
    /\ flag[w].at = "set" /\ flag[w].val = "null" => Emptied(KeyOf(w))
DataInvariant ==
    /\ \A k \in Keys : EntryHasData(k)
    /\ \A c \in Calls : CallHasData(c)
    /\ \A w \in FlagWrites : FlagHasData(w)

(* A key whose data a remove or an update may have emptied stays one.      *)
LEMMA EmptiedStays ==
    ASSUME TypeOK, Next, NEW k, Emptied(k)
    PROVE  Emptied(k)'
  BY HistoryGrows DEF Emptied

(* A call gets to its write from create with data, from remove or update   *)
(* with anything, and from a signal with what the entry holds.             *)
LEMMA ReadSteps ==
    ASSUME TypeOK, Next, NEW c \in Calls, phase'[c] = "set"
    PROVE  \/ phase[c] = "set" /\ read'[c] = read[c]
           \/ c.op = "CREATE" /\ read'[c] = "data"
           \/ c.op \in {"REMOVE", "UPDATE"}
           \/ c.op \in {"START", "STOP"} /\ Present(c.key) /\ read'[c] = store[c.key].val
  <1> USE DEF TypeOK
  <1>1. ASSUME NEW d \in Calls, Issue(d) \/ CallGet(d)
        PROVE  \/ phase[c] = "set" /\ read'[c] = read[c]
               \/ c.op = "CREATE" /\ read'[c] = "data"
               \/ c.op \in {"REMOVE", "UPDATE"}
               \/ c.op \in {"START", "STOP"} /\ Present(c.key) /\ read'[c] = store[c.key].val
    <2>1. CASE c = d /\ Issue(d)
      BY <2>1 DEF Issue, FirstPhase, Moves
    <2>2. CASE c = d /\ CallGet(d)
      BY <2>2 DEF CallGet, Moves
    <2>3. CASE c # d
      BY <1>1, <2>3 DEF Issue, CallGet, Moves
    <2> QED
      BY <1>1, <2>1, <2>2, <2>3
  <1>2. ASSUME NEW d \in Calls, CallStep(d), ~Issue(d), ~CallGet(d)
        PROVE  phase[c] = "set" /\ read'[c] = read[c]
    BY <1>2 DEF CallStep, CallSet, CallSees, CallSeesNothing, CallTimesOut, CallDel,
                CallError, Rejected, Moves, Exit
  <1>3. CASE OwnerStep
    BY <1>3 DEF OwnerStep, Deliver, DeliverThrows, HandlerSettles, FlagGet, FlagSet,
                FlagError, StopWatcher, StartWatcher, Crash, Respawn, Exit
  <1> QED
    BY <1>1, <1>2, <1>3 DEF Next

(* A flag write gets to its second half with what the entry holds.         *)
LEMMA FlagReadSteps ==
    ASSUME TypeOK, Next, NEW w \in FlagWrites, flag'[w].at = "set"
    PROVE  \/ flag'[w] = flag[w]
           \/ Present(KeyOf(w)) /\ flag'[w].val = store[KeyOf(w)].val
  <1> USE DEF TypeOK
  <1>0. flag[w] \in Writers
    OBVIOUS
  <1>1. ASSUME NEW c \in Calls, CallStep(c)
        PROVE  flag'[w] = flag[w]
    <2>1. flag' = flag \/ Exit(c.by)
      BY <1>1 DEF CallStep, Issue, CallGet, CallSet, CallSees, CallSeesNothing,
                  CallTimesOut, CallDel, CallError, Moves, ownerVars
    <2> QED
      BY <2>1 DEF Exit, Off
  <1>2. CASE Deliver
    BY <1>2 DEF Deliver, FlagWriter
  <1>3. ASSUME NEW r \in RunIds, HandlerSettles(r)
        PROVE  flag'[w] = flag[w]
    BY <1>3 DEF HandlerSettles, FlagWriter
  <1>4. ASSUME NEW x \in FlagWrites, FlagGet(x)
        PROVE  \/ flag'[w] = flag[w]
               \/ Present(KeyOf(w)) /\ flag'[w].val = store[KeyOf(w)].val
    BY <1>0, <1>4 DEF FlagGet, Off, Writers
  <1>5. ASSUME NEW x \in FlagWrites, FlagSet(x) \/ FlagError(x)
        PROVE  flag'[w] = flag[w]
    <2>1. flag' = [flag EXCEPT ![x] = Off]
      BY <1>5 DEF FlagSet, FlagError
    <2> QED
      BY <2>1 DEF Off
  <1>6. CASE \/ DeliverThrows \/ StopWatcher \/ StartWatcher
             \/ \E p \in Procs : Crash(p) \/ Respawn(p)
    <2>1. flag' = flag \/ flag' = [x \in FlagWrites |-> Off]
      BY <1>6 DEF DeliverThrows, StopWatcher, StartWatcher, Crash, Respawn, Exit
    <2> QED
      BY <2>1 DEF Off
  <1> QED
    BY <1>1, <1>2, <1>3, <1>4, <1>5, <1>6 DEF Next, OwnerStep

(* Empty values come from remove and update and travel only between an     *)
(* entry and what was read from it.                                        *)
LEMMA DataStep ==
    ASSUME TypeOK, DataInvariant, Next
    PROVE  DataInvariant'
  <1>1. ASSUME NEW k \in Keys
        PROVE  EntryHasData(k)'
    <2>0. EntryHasData(k) /\ store[k] \in Entries \union {NoEntry}
      BY DEF DataInvariant, TypeOK
    <2>1. CASE store'[k] = store[k]
      BY <2>0, <2>1, EmptiedStays DEF EntryHasData, Present
    <2>2. CASE store'[k] = NoEntry
      BY <2>2 DEF EntryHasData, Present
    <2>3. ASSUME NEW c \in Requests, c.key = k, phase[c] = "set",
                 store'[k] = Entry(c, "NEW", read[c])
          PROVE  EntryHasData(k)'
      <3>1. CallHasData(c)
        BY DEF DataInvariant, Requests
      <3> QED
        BY <2>3, <3>1, EmptiedStays DEF CallHasData, EntryHasData, Entry
    <2>4. ASSUME NEW w \in FlagWrites, KeyOf(w) = k, flag[w].at = "set",
                 store'[k] = Entry(w[1][1], flag[w].st, flag[w].val)
          PROVE  EntryHasData(k)'
      <3>1. FlagHasData(w)
        BY DEF DataInvariant
      <3> QED
        BY <2>4, <3>1, EmptiedStays DEF FlagHasData, EntryHasData, Entry
    <2> QED
      BY <2>1, <2>2, <2>3, <2>4, StoreSteps DEF StoreStep
  <1>2. ASSUME NEW c \in Calls
        PROVE  CallHasData(c)'
    <2> SUFFICES ASSUME phase'[c] = "set", read'[c] = "null"
                 PROVE  c.op # "CREATE" /\ Emptied(c.key)'
      BY DEF CallHasData
    <2>1. CASE phase[c] = "set" /\ read'[c] = read[c]
      BY <2>1, EmptiedStays DEF DataInvariant, CallHasData
    <2>2. CASE c.op \in {"REMOVE", "UPDATE"}
      BY <2>2 DEF Emptied
    <2>3. CASE c.op \in {"START", "STOP"} /\ Present(c.key) /\ read'[c] = store[c.key].val
      <3>1. EntryHasData(c.key)
        BY CallsAssumption DEF DataInvariant
      <3> QED
        BY <2>3, <3>1, EmptiedStays DEF EntryHasData
    <2> QED
      BY <2>1, <2>2, <2>3, ReadSteps
  <1>3. ASSUME NEW w \in FlagWrites
        PROVE  FlagHasData(w)'
    <2>0. FlagHasData(w) /\ KeyOf(w) \in Keys
      BY CallsAssumption DEF DataInvariant, KeyOf, FlagWrites, RunIds, Requests
    <2>1. flag'[w].st # "NEW"
      BY <2>0, FlagSteps DEF FlagStep, FlagHasData, Off, Outcomes
    <2>2. ASSUME flag'[w].at = "set", flag'[w].val = "null"
          PROVE  Emptied(KeyOf(w))'
      <3>1. CASE flag'[w] = flag[w]
        BY <2>0, <2>2, <3>1, EmptiedStays DEF FlagHasData
      <3>2. CASE Present(KeyOf(w)) /\ flag'[w].val = store[KeyOf(w)].val
        BY <2>0, <2>2, <3>2, EmptiedStays DEF DataInvariant, EntryHasData
      <3> QED
        BY <2>2, <3>1, <3>2, FlagReadSteps
    <2> QED
      BY <2>1, <2>2 DEF FlagHasData
  <1> QED
    BY <1>1, <1>2, <1>3 DEF DataInvariant

(* A handler is given an empty entry only where a remove or an update has  *)
(* emptied it, and never for a create, whatever flags and signals wrote    *)
(* back in between.                                                        *)
THEOREM HandlersGetData == Spec => []HandlerGetsData
  <1>1. Init => DataInvariant
    BY DEF Init, DataInvariant, EntryHasData, CallHasData, FlagHasData, Present, Off
  <1>2. TypeOK /\ DataInvariant /\ [Next]_vars => DataInvariant'
    <2>1. CASE UNCHANGED vars
      BY <2>1 DEF vars, DataInvariant, EntryHasData, CallHasData, FlagHasData, Present,
                  Emptied
    <2> QED
      BY <2>1, DataStep
  <1>3. DataInvariant => HandlerGetsData
    BY DEF DataInvariant, EntryHasData, HandlerGetsData, IsNew
  <1> QED
    BY <1>1, <1>2, <1>3, TypeCorrect, PTL DEF Spec
=============================================================================
