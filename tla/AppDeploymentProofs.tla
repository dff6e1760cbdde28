------------------------ MODULE AppDeploymentProofs ------------------------
(***************************************************************************)
(* Proofs about AppDeployment, for any app, masters, nodes, reactors and   *)
(* bounds.                                                                 *)
(***************************************************************************)
EXTENDS AppDeployment, TLAPS

USE BoundsAssumption, AppAssumption, AnswersAssumption

(***************************************************************************)
(* Types.                                                                  *)
(***************************************************************************)
(* The values that are written into entries and lists of calls.            *)
LEMMA ValuesTyped ==
    /\ Absent \in Entries /\ NoCalls \in [Cells -> CallStates]
    /\ \A I : Listing(I) \in [Cells -> CallStates]
    /\ \A o \in Served, s \in States : Entry(o, s) \in Entries
    /\ \A c \in Cells, o \in Served, a \in Flags \union {"handler"} : Task(c, o, a) \in Tasks
    /\ \A o \in {"create", "remove"}, q \in 1..MaxRequests, s \in States :
         AppEntry(o, q, s) \in Requests
    /\ \A o \in {"create", "remove"}, q \in 1..MaxRequests, s \in States, m \in Masters :
         Writer(o, q, s, m) \in Writers
BY DEF Absent, Entries, NoCalls, CallStates, Listing, Entry, AppEntry, Requests, Writer,
       Writers, Task, Tasks

(* Every entry that is not absent has an operation that is served.         *)
LEMMA EntryFields ==
    ASSUME NEW e \in Entries, e.st # "none"
    PROVE  e.op \in Served /\ e.st \in States
BY DEF Entries, Absent, Served, States

(* A run moves on, or settles: it stays a run.                             *)
RunRecords == [phase : RunPhases, state : RunStates, by : Masters \union {"none"}]
(* Moving on or settling keeps what RunRecords says.                       *)
LEMMA RunMoves ==
    ASSUME TypeOK, NEW r \in Runs
    PROVE  /\ \A p \in RunPhases : [run[r] EXCEPT !.phase = p] \in RunRecords
           /\ \A t \in RunStates : [run[r] EXCEPT !.state = t] \in RunRecords
<1>1. run[r] \in RunRecords
  BY DEF TypeOK, RunRecords
<1> QED
  BY <1>1 DEF RunRecords

(* One call moves on: the types of the calls are kept.                     *)
LEMMA CallsType ==
    ASSUME TypeOK, NEW r \in Runs, NEW c \in Cells, NEW s \in CallStates, CallGoes(r, c, s)
    PROVE  call' \in [Runs -> [Cells -> CallStates]]
BY DEF TypeOK, CallGoes, CallStates

(* The run settles, with the calls it has then.                            *)
LEMMA SettleType ==
    ASSUME TypeOK, RunsAreFounded, NEW r \in Runs, run[r].phase # "free",
           NEW C \in [Cells -> CallStates], NEW W \in SUBSET Writers, SettleAmong(r, C, W)
    PROVE  /\ run' \in [Runs -> RunRecords]
           /\ call' \in [Runs -> [Cells -> CallStates]]
           /\ writers' \subseteq Writers
<1>1. run[r].by \in Masters /\ r[1] \in 1..MaxRequests
  BY DEF RunsAreFounded, Runs
<1>2. run' \in [Runs -> RunRecords]
  BY RunMoves DEF TypeOK, SettleAmong, RunStates, RunRecords
<1>3. Forgets(C) \in [Cells -> CallStates]
  BY DEF Forgets, CallStates
<1>4. call' \in [Runs -> [Cells -> CallStates]]
  BY <1>3 DEF TypeOK, SettleAmong
<1>5. "OK" \in States
  BY DEF States
<1>6. (IF run[r].phase \in {"remove", "purge"} THEN "remove" ELSE "create")
        \in {"create", "remove"}
  OBVIOUS
<1>7. writers' \subseteq Writers
  BY <1>1, <1>5, <1>6, ValuesTyped DEF TypeOK, SettleAmong
<1> QED
  BY <1>2, <1>4, <1>7

(* The same for a run that settles with the writers there are.             *)
LEMMA SettleWithType ==
    ASSUME TypeOK, RunsAreFounded, NEW r \in Runs, run[r].phase # "free",
           NEW C \in [Cells -> CallStates], SettleWith(r, C)
    PROVE  /\ run' \in [Runs -> RunRecords]
           /\ call' \in [Runs -> [Cells -> CallStates]]
           /\ writers' \subseteq Writers
<1>1. writers \in SUBSET Writers /\ SettleAmong(r, C, writers)
  BY DEF TypeOK, SettleWith
<1> QED
  BY <1>1, SettleType

(* A process ends: what is left of its runs is typed.                      *)
LEMMA ExitType ==
    ASSUME TypeOK, NEW m, Exit(m)
    PROVE  /\ run' \in [Runs -> RunRecords]
           /\ call' \in [Runs -> [Cells -> CallStates]]
           /\ writers' \subseteq Writers
<1>2. run' \in [Runs -> RunRecords]
  BY RunMoves DEF TypeOK, Exit, RunStates, RunRecords
<1>3. call' \in [Runs -> [Cells -> CallStates]]
  BY ValuesTyped DEF TypeOK, Exit
<1> QED
  BY <1>2, <1>3 DEF TypeOK, Exit

(* The counter of faults stays within its bound.                           *)
LEMMA FaultType ==
    ASSUME TypeOK, Fault \/ NoFault
    PROVE  faults' \in 0..MaxFaults
BY DEF TypeOK, Fault, NoFault

(* An entry that is written or deleted: the types are kept, and no flag    *)
(* turns into another.                                                     *)
LEMMA EntryChanges ==
    ASSUME TypeOK, NEW c \in Cells, NEW o \in Served, Write(c, o) \/ Erase(c)
    PROVE  cell' \in [Cells -> Entries] /\ serving' \subseteq Tasks
<1>1. CASE Write(c, o)
  <2>1. Entry(o, "NEW") \in Entries
    BY ValuesTyped DEF States
  <2> QED
    BY <1>1, <2>1 DEF Write, TypeOK
<1>2. CASE Erase(c)
  <2>1. \A t \in Tasks : [t EXCEPT !.held = TRUE] \in Tasks
    BY DEF Tasks
  <2> QED
    BY <1>2, <2>1, ValuesTyped DEF Erase, TypeOK
<1> QED
  BY <1>1, <1>2

(* Every step of a call keeps the types: it moves one call and may change  *)
(* one entry.                                                              *)
LEMMA CallStepType ==
    ASSUME TypeOK, RunsAreFounded, NEW r \in Runs, NEW c \in Cells,
           CallStep(r, c) \/ RequestFails(r, c)
    PROVE  TypeOK'
<1>1. CASE SeesNothing(r, c)
  BY <1>1, ExitType, FaultType DEF SeesNothing, TypeOK, RunRecords
<1>2. CASE ~SeesNothing(r, c)
  <2>1. \E t \in CallStates : CallGoes(r, c, t)
    BY <1>2 DEF CallStep, RequestFails, Look, Set, Sees, TimesOut, Delete, Accepted,
                Refused, CallStates
  <2>2. call' \in [Runs -> [Cells -> CallStates]]
    BY <2>1, CallsType
  <2>3. cell' \in [Cells -> Entries] /\ serving' \subseteq Tasks
    <3>1. CASE \E o \in Served : Write(c, o) \/ Erase(c)
      BY <3>1, EntryChanges
    <3>2. CASE UNCHANGED <<cell, serving>>
      BY <3>2 DEF TypeOK
    <3>3. call[r][c] = "set" => run[r].phase \in Served
      BY DEF RunsAreFounded, Over
    <3>4. "remove" \in Served
      BY DEF Served
    <3> QED
      BY <1>2, <3>1, <3>2, <3>3, <3>4
         DEF CallStep, RequestFails, Look, Set, Sees, TimesOut, Delete
  <2>4. faults' \in 0..MaxFaults
    BY <1>2, FaultType DEF CallStep, RequestFails, Look, Set, Sees, TimesOut, Delete
  <2>5. UNCHANGED <<nodes, app, done, run, writers, requests>>
    BY <1>2 DEF CallStep, RequestFails, Look, Set, Sees, TimesOut, Delete
  <2> QED
    BY <2>2, <2>3, <2>4, <2>5 DEF TypeOK
<1> QED
  BY <1>1, <1>2

(* Every step of a run keeps the types.                                    *)
LEMMA RunStepType ==
    ASSUME TypeOK, RunsAreFounded, NEW r \in Runs, RunStep(r) \/ LoadFails(r)
    PROVE  TypeOK'
<1>0. call[r] \in [Cells -> CallStates] /\ run \in [Runs -> RunRecords]
  BY DEF TypeOK, RunRecords
<1>a. ASSUME NEW p \in RunPhases, Goes(r, p)
      PROVE  run' \in [Runs -> RunRecords]
  BY <1>a, RunMoves DEF TypeOK, Goes, RunRecords
<1>1. CASE Load(r)
  BY <1>1, <1>a, ValuesTyped, FaultType DEF Load, TypeOK, RunPhases, RunRecords
<1>2. CASE Abort(r)
  <2>1. run[r].phase # "free"
    BY <1>2 DEF Abort, Rejects
  <2> QED
    BY <1>0, <1>2, <2>1, SettleWithType, FaultType DEF Abort, Settle, TypeOK, RunRecords
<1>3. CASE Created(r)
  BY <1>3, <1>a, ValuesTyped, FaultType DEF Created, TypeOK, RunPhases, RunRecords
<1>4. CASE Started(r)
  BY <1>0, <1>4, SettleWithType, FaultType DEF Started, Running, Settle, TypeOK, RunRecords
<1>5. CASE Removed(r)
  BY <1>5, <1>a, FaultType DEF Removed, TypeOK, RunPhases, RunRecords
<1>6. CASE Purge(r)
  <2>1. {[w EXCEPT !.held = TRUE] : w \in writers} \in SUBSET Writers
    <3>1. \A w \in Writers : [w EXCEPT !.held = TRUE] \in Writers
      BY DEF Writers
    <3> QED
      BY <3>1 DEF TypeOK
  <2>2. run[r].phase # "free" /\ (app' = NoApp \/ app' = app)
    BY <1>6 DEF Purge, Running
  <2>3. \E W \in SUBSET Writers : SettleAmong(r, call[r], W)
    BY <1>6, <2>1 DEF Purge, Settle, SettleWith, TypeOK
  <2> QED
    BY <1>0, <1>6, <2>2, <2>3, SettleType, FaultType DEF Purge, TypeOK, RunRecords
<1>7. CASE LoadFails(r)
  <2>1. [run[r] EXCEPT !.state = "lost"] \in RunRecords
    BY RunMoves DEF RunStates
  <2>2. CASE Settle(r)
    BY <1>0, <1>7, <2>2, SettleWithType, FaultType DEF LoadFails, Running, Settle, TypeOK, RunRecords
  <2>3. CASE ~Settle(r)
    <3>1. /\ run' = [run EXCEPT ![r].state = "lost"]
          /\ UNCHANGED <<nodes, app, cell, serving, done, call, writers, requests>>
      BY <1>7, <2>3 DEF LoadFails
    <3>2. run' \in [Runs -> RunRecords]
      BY <1>0, <2>1, <3>1
    <3> QED
      BY <1>7, <3>1, <3>2, FaultType DEF LoadFails, TypeOK, RunRecords
  <2> QED
    BY <2>2, <2>3
<1>8. ASSUME NEW i \in Items, List(r, i)
      PROVE  TypeOK'
  <2>1. [c \in Cells |-> IF c[1] # i THEN call[r][c]
                         ELSE IF c[2] \notin Targets(r, i) THEN "none"
                         ELSE IF run[r].phase = "create" THEN "set" ELSE "look"]
          \in [Cells -> CallStates]
    BY <1>0 DEF CallStates
  <2> QED
    BY <1>8, <2>1, FaultType DEF List, TypeOK
<1>9. ASSUME NEW i \in Items, ListFails(r, i)
      PROVE  TypeOK'
  <2> DEFINE rest == [c \in Cells |-> IF c[1] = i THEN "none" ELSE call[r][c]]
  <2>1. rest \in [Cells -> CallStates]
    BY <1>0 DEF CallStates
  <2>2. run[r].phase # "free" /\ faults' \in 0..MaxFaults
    BY <1>9, FaultType DEF ListFails, Alive
  <2>3. CASE SettleWith(r, rest)
    BY <1>9, <2>1, <2>2, <2>3, SettleWithType DEF ListFails, TypeOK, RunRecords
  <2>4. CASE ~SettleWith(r, rest)
    <3>1. call' = [call EXCEPT ![r] = rest] /\ UNCHANGED <<run, writers>>
      BY <1>9, <2>4 DEF ListFails
    <3>2. call' \in [Runs -> [Cells -> CallStates]]
      BY <2>1, <3>1 DEF TypeOK
    <3> QED
      BY <1>9, <2>2, <3>1, <3>2 DEF ListFails, TypeOK
  <2> QED
    BY <2>3, <2>4
<1> QED
  BY <1>1, <1>2, <1>3, <1>4, <1>5, <1>6, <1>7, <1>8, <1>9 DEF RunStep

(* The steps of the user, the watch, the writers, the nodes, and crashes.  *)
LEMMA OtherStepType ==
    ASSUME TypeOK, RunsAreFounded, Next,
           ~\E r \in Runs : \/ RunStep(r) \/ LoadFails(r)
                            \/ \E c \in Cells : CallStep(r, c) \/ RequestFails(r, c)
    PROVE  TypeOK'
<1>1. CASE InstallApp \/ UninstallApp
  <2>1. requests + 1 \in 1..MaxRequests /\ requests' \in 0..MaxRequests
    BY <1>1 DEF InstallApp, UninstallApp, Asks, TypeOK
  <2>2. CASE InstallApp
    <3>1. app' \in Requests
      BY <2>1, <2>2, ValuesTyped DEF InstallApp, States
    <3> QED
      BY <2>1, <2>2, <3>1, FaultType DEF InstallApp, TypeOK
  <2>3. CASE UninstallApp
    <3>1. writers' \subseteq Writers
      BY <2>1, <2>3, ValuesTyped DEF UninstallApp, States, TypeOK
    <3> QED
      BY <2>1, <2>3, <3>1, FaultType DEF UninstallApp, TypeOK
  <2> QED
    BY <1>1, <2>2, <2>3
<1>2. ASSUME NEW w \in writers, Flag(w) \/ FlagFails(w)
      PROVE  TypeOK'
  <2>1. w \in Writers
    BY DEF TypeOK
  <2>2. AppEntry(w.op, w.no, w.st) \in Requests
    BY <2>1, ValuesTyped DEF Writers
  <2> QED
    BY <1>2, <2>2, FaultType DEF Flag, FlagFails, TypeOK
<1>3. ASSUME NEW m \in Masters, NEW r \in Runs, Deliver(m, r)
      PROVE  TypeOK'
  <2>1. app \in Requests
    BY <1>3 DEF Deliver, Begin, TypeOK, NoApp
  <2>2. app.op \in {"create", "remove"} /\ app.no \in 1..MaxRequests
    BY <2>1 DEF Requests
  <2>3. [phase |-> IF app.op = "create" THEN "load" ELSE "remove", state |-> "running", by |-> m]
          \in RunRecords
    BY DEF RunPhases, RunStates, RunRecords
  <2>4. Writer(app.op, app.no, "PENDING", m) \in Writers
    BY <2>2, ValuesTyped DEF States
  <2>5. run' \in [Runs -> RunRecords]
    <3>1. run \in [Runs -> RunRecords]
      BY DEF TypeOK, RunRecords
    <3> QED
      BY <1>3, <2>3, <3>1 DEF Deliver, Begin
  <2>6. call' \in [Runs -> [Cells -> CallStates]]
    BY <1>3, ValuesTyped DEF Deliver, Begin, TypeOK
  <2> QED
    BY <1>3, <2>4, <2>5, <2>6, FaultType DEF Deliver, Begin, TypeOK, RunRecords
<1>4. ASSUME NEW c \in Cells, PickUp(c)
      PROVE  TypeOK'
  <2>1. cell[c] \in Entries /\ cell[c].st # "none"
    BY <1>4 DEF PickUp, TypeOK
  <2>2. \A a \in {"handler", "PENDING"} : Task(c, cell[c].op, a) \in Tasks
    BY <2>1, EntryFields, ValuesTyped DEF Flags
  <2> QED
    BY <1>4, <2>2, FaultType DEF PickUp, TypeOK
<1>5. ASSUME NEW c \in Cells, NEW o \in Served, Answer(c, o)
      PROVE  TypeOK'
  <2>1. PICK s \in Answers[c[1]][o] :
           /\ serving' = (serving \ {Task(c, o, "handler")}) \union {Task(c, o, s)}
           /\ done' = IF s = "OK" THEN done \union {<<c, o>>} ELSE done
    BY <1>5 DEF Answer
  <2>2. c[1] \in Items
    BY DEF Cells
  <2>3. s \in Flags
    BY <2>1, <2>2 DEF Flags
  <2>4. serving' \subseteq Tasks
    BY <2>1, <2>3, ValuesTyped DEF TypeOK
  <2>5. done' \subseteq Cells \X Served
    BY <2>1 DEF TypeOK
  <2> QED
    BY <1>5, <2>4, <2>5, FaultType DEF Answer, TypeOK
<1>8. ASSUME NEW t \in serving, FlagKey(t) \/ FlagKeyFails(t)
      PROVE  TypeOK'
  <2>1. t \in Tasks /\ t.at \in Flags
    BY <1>8 DEF FlagKey, FlagKeyFails, OnTheirWay, TypeOK
  <2>2. Entry(t.op, t.at) \in Entries
    BY <2>1, ValuesTyped DEF Tasks, Flags, States
  <2>3. cell' \in [Cells -> Entries]
    BY <1>8, <2>2 DEF FlagKey, FlagKeyFails, TypeOK
  <2> QED
    BY <1>8, <2>3, FaultType DEF FlagKey, FlagKeyFails, TypeOK
<1>6. ASSUME NEW n \in Nodes, NodeComesOrGoes(n)
      PROVE  TypeOK'
  BY <1>6, FaultType DEF NodeComesOrGoes, TypeOK
<1>7. ASSUME NEW m \in Masters, Crash(m)
      PROVE  TypeOK'
  BY <1>7, ExitType, FaultType DEF Crash, TypeOK, RunRecords
<1> QED
  BY <1>1, <1>2, <1>3, <1>4, <1>5, <1>6, <1>7, <1>8 DEF Next

(***************************************************************************)
(* What a step does to the runs.  A quiet run stays in its phase, and its  *)
(* calls are as before or forgotten; of the other runs there is at most    *)
(* one, which moves.                                                       *)
(***************************************************************************)
Quiet(r) ==
    /\ run'[r].phase = run[r].phase /\ run'[r].by = run[r].by
    /\ \A c \in Cells : call'[r][c] \in {call[r][c], "none"}
CallMoves(r, c) ==
    Look(r, c) \/ Set(r, c) \/ Sees(r, c) \/ TimesOut(r, c) \/ Delete(r, c)
    \/ RequestFails(r, c)
RunMoved(r) ==
    \/ Load(r) \/ Created(r) \/ Removed(r)
    \/ \E m \in Masters : Deliver(m, r)
    \/ \E i \in Items : List(r, i)
    \/ \E c \in Cells : CallMoves(r, c)

(* Nothing happens to a run that a step leaves as it is.                   *)
LEMMA UntouchedIsQuiet ==
    ASSUME NEW r \in Runs, run'[r] = run[r], call'[r] = call[r]
    PROVE  Quiet(r)
BY DEF Quiet

(* Settling is quiet.                                                      *)
LEMMA SettlingIsQuiet ==
    ASSUME TypeOK, NEW r \in Runs, NEW C \in [Cells -> CallStates],
           \A c \in Cells : C[c] \in {call[r][c], "none"}, NEW W, SettleAmong(r, C, W)
    PROVE  \A q \in Runs : Quiet(q)
<1>1. /\ run \in [Runs -> RunRecords] /\ run[r] \in RunRecords
      /\ call \in [Runs -> [Cells -> CallStates]]
  BY DEF TypeOK, RunRecords
<1>2. run'[r] = [run[r] EXCEPT !.state = "settled"] /\ call'[r] = Forgets(C)
  BY <1>1 DEF SettleAmong
<1>3. Quiet(r)
  BY <1>1, <1>2 DEF Quiet, Forgets, RunRecords
<1>4. \A q \in Runs : q # r => run'[q] = run[q] /\ call'[q] = call[q]
  BY <1>1 DEF SettleAmong
<1> QED
  BY <1>3, <1>4, UntouchedIsQuiet

(* So is the end of a process.                                             *)
LEMMA ExitIsQuiet ==
    ASSUME TypeOK, NEW m, Exit(m)
    PROVE  \A q \in Runs : Quiet(q)
<1> SUFFICES ASSUME NEW q \in Runs
             PROVE  Quiet(q)
  OBVIOUS
<1>1. run[q] \in RunRecords
  BY DEF TypeOK, RunRecords
<1>2. CASE run[q].by = m
  <2>1. run'[q] = [run[q] EXCEPT !.state = "lost"] /\ call'[q] = NoCalls
    BY <1>2 DEF Exit
  <2> QED
    BY <1>1, <2>1 DEF Quiet, NoCalls, RunRecords
<1>3. CASE run[q].by # m
  BY <1>3, UntouchedIsQuiet DEF Exit
<1> QED
  BY <1>2, <1>3

(* The call of one run moves, and nothing else about the runs.             *)
LEMMA CallEffect ==
    ASSUME TypeOK, NEW r \in Runs, NEW c \in Cells, NEW s \in CallStates,
           CallGoes(r, c, s), run' = run
    PROVE  /\ \A q \in Runs : q # r => Quiet(q)
           /\ \A d \in Cells : d # c => call'[r][d] = call[r][d]
           /\ call'[r][c] \in {s, "none"}
           /\ run'[r] = run[r]
BY DEF TypeOK, CallGoes, Quiet

(* A step is quiet for every run but the one it moves.                     *)
LEMMA QuietSteps ==
    ASSUME TypeOK, RunsAreFounded, Next
    PROVE  \/ \A q \in Runs : Quiet(q)
           \/ \E r \in Runs : RunMoved(r) /\ \A q \in Runs : q # r => Quiet(q)
<1>0. /\ run \in [Runs -> RunRecords] /\ call \in [Runs -> [Cells -> CallStates]]
      /\ \A r \in Runs : call[r] \in [Cells -> CallStates]
  BY DEF TypeOK, RunRecords
<1>1. ASSUME NEW r \in Runs, NEW c \in Cells, CallMoves(r, c)
      PROVE  \A q \in Runs : q # r => Quiet(q)
  <2>1. run' = run /\ \E t \in CallStates : CallGoes(r, c, t)
    BY <1>1 DEF CallMoves, Look, Set, Sees, TimesOut, Delete, RequestFails, Accepted,
                Refused, CallStates
  <2> QED
    BY <2>1, CallEffect
<1>2. ASSUME NEW r \in Runs, Load(r) \/ Created(r) \/ Removed(r)
      PROVE  \A q \in Runs : q # r => Quiet(q)
  <2>1. \A q \in Runs : q # r => run'[q] = run[q] /\ call'[q] = call[q]
    BY <1>0, <1>2 DEF Load, Created, Removed, Goes
  <2> QED
    BY <2>1, UntouchedIsQuiet
<1>3. ASSUME NEW r \in Runs, NEW m \in Masters, Deliver(m, r)
      PROVE  \A q \in Runs : q # r => Quiet(q)
  <2>1. \A q \in Runs : q # r => run'[q] = run[q] /\ call'[q] = call[q]
    BY <1>0, <1>3 DEF Deliver, Begin
  <2> QED
    BY <2>1, UntouchedIsQuiet
<1>4. ASSUME NEW r \in Runs, NEW i \in Items, List(r, i)
      PROVE  \A q \in Runs : q # r => Quiet(q)
  <2>1. \A q \in Runs : q # r => run'[q] = run[q] /\ call'[q] = call[q]
    BY <1>0, <1>4 DEF List
  <2> QED
    BY <2>1, UntouchedIsQuiet
<1>5. ASSUME NEW r \in Runs, Abort(r) \/ Started(r) \/ Purge(r) \/ LoadFails(r)
      PROVE  \A q \in Runs : Quiet(q)
  <2>1. CASE \E W : SettleAmong(r, call[r], W)
    BY <1>0, <2>1, SettlingIsQuiet
  <2>2. CASE ~\E W : SettleAmong(r, call[r], W)
    <3>1. run' = [run EXCEPT ![r].state = "lost"] /\ call' = call
      BY <1>5, <2>2 DEF Abort, Started, Purge, LoadFails, Settle, SettleWith
    <3>2. run'[r].phase = run[r].phase /\ run'[r].by = run[r].by
      BY <1>0, <3>1 DEF RunRecords
    <3>3. \A q \in Runs : q # r => run'[q] = run[q]
      BY <1>0, <3>1
    <3> QED
      BY <3>1, <3>2, <3>3 DEF Quiet
  <2> QED
    BY <2>1, <2>2
<1>6. ASSUME NEW r \in Runs, NEW i \in Items, ListFails(r, i)
      PROVE  \A q \in Runs : Quiet(q)
  <2> DEFINE rest == [c \in Cells |-> IF c[1] = i THEN "none" ELSE call[r][c]]
  <2>1. rest \in [Cells -> CallStates] /\ \A c \in Cells : rest[c] \in {call[r][c], "none"}
    BY <1>0 DEF CallStates
  <2>2. CASE SettleWith(r, rest)
    BY <2>1, <2>2, SettlingIsQuiet DEF SettleWith
  <2>3. CASE ~SettleWith(r, rest)
    <3>1. call' = [call EXCEPT ![r] = rest] /\ run' = run
      BY <1>6, <2>3 DEF ListFails
    <3> QED
      BY <1>0, <2>1, <3>1 DEF Quiet
  <2> QED
    BY <2>2, <2>3
<1>7. ASSUME NEW m, Exit(m)
      PROVE  \A q \in Runs : Quiet(q)
  BY <1>7, ExitIsQuiet
<1>8. ASSUME run' = run, call' = call
      PROVE  \A q \in Runs : Quiet(q)
  BY <1>8, UntouchedIsQuiet
<1>9. ASSUME NEW r \in Runs, NEW c \in Cells, CallStep(r, c)
      PROVE  CallMoves(r, c) \/ \A q \in Runs : Quiet(q)
  BY <1>7, <1>9 DEF CallStep, CallMoves, SeesNothing
<1>10. ASSUME \/ InstallApp \/ UninstallApp
              \/ \E w \in writers : Flag(w) \/ FlagFails(w)
              \/ \E c \in Cells : PickUp(c) \/ \E o \in Served : Answer(c, o)
              \/ \E t \in serving : FlagKey(t) \/ FlagKeyFails(t)
              \/ \E n \in Nodes : NodeComesOrGoes(n)
       PROVE  run' = run /\ call' = call
  BY <1>10 DEF InstallApp, UninstallApp, Flag, FlagFails, PickUp, Answer, FlagKey,
         FlagKeyFails, NodeComesOrGoes
<1>11. CASE \E r \in Runs : RunStep(r) \/ LoadFails(r)
  BY <1>2, <1>4, <1>5, <1>6, <1>11 DEF RunStep, RunMoved
<1>12. CASE \E r \in Runs : \E m \in Masters : Deliver(m, r)
  BY <1>3, <1>12 DEF RunMoved
<1>13. CASE \E r \in Runs : \E c \in Cells : CallStep(r, c) \/ RequestFails(r, c)
  BY <1>1, <1>9, <1>13 DEF RunMoved, CallMoves
<1>14. CASE \E m \in Masters : Crash(m)
  BY <1>7, <1>14 DEF Crash
<1> QED
  BY <1>8, <1>10, <1>11, <1>12, <1>13, <1>14 DEF Next

(***************************************************************************)
(* What a step does to the entries on the nodes.  What was carried out     *)
(* stays so; an OK is sent only with it, and written only when it was sent.*)
(***************************************************************************)
(* A request that is written, or an entry that is deleted, says no OK.     *)
LEMMA NoOkChanges ==
    ASSUME TypeOK, OutcomesAreServed, NEW c \in Cells, NEW o, Write(c, o) \/ Erase(c), done' = done
    PROVE  OutcomesAreServed'
<1>0. cell \in [Cells -> Entries] /\ serving \subseteq Tasks
  BY DEF TypeOK
<1>1. CASE Write(c, o)
  BY <1>0, <1>1 DEF Write, Entry, OutcomesAreServed
<1>2. CASE Erase(c)
  <2>1. \A d \in Cells : cell'[d] = cell[d] \/ cell'[d].st # "OK"
    BY <1>0, <1>2 DEF Erase, Absent
  <2>2. \A t \in serving' : \E u \in serving : t.cell = u.cell /\ t.op = u.op /\ t.at = u.at
    BY <1>0, <1>2 DEF Erase, Tasks
  <2>3. \A d \in Cells : cell'[d].st = "OK" => <<d, cell'[d].op>> \in done
    BY <2>1 DEF OutcomesAreServed
  <2>4. \A t \in serving' : t.at = "OK" => <<t.cell, t.op>> \in done
    BY <2>2 DEF OutcomesAreServed
  <2> QED
    BY <2>3, <2>4 DEF OutcomesAreServed
<1> QED
  BY <1>1, <1>2

(* A node takes up a request, or answers it.                               *)
LEMMA NodeSteps ==
    ASSUME OutcomesAreServed, NEW c \in Cells, PickUp(c) \/ \E o \in Served : Answer(c, o)
    PROVE  done \subseteq done' /\ OutcomesAreServed'
<1>1. CASE PickUp(c)
  BY <1>1 DEF PickUp, Task, OutcomesAreServed
<1>2. ASSUME NEW o \in Served, Answer(c, o)
      PROVE  done \subseteq done' /\ OutcomesAreServed'
  <2>1. PICK s \in Answers[c[1]][o] :
           /\ serving' = (serving \ {Task(c, o, "handler")}) \union {Task(c, o, s)}
           /\ done' = IF s = "OK" THEN done \union {<<c, o>>} ELSE done
    BY <1>2 DEF Answer
  <2>2. cell' = cell
    BY <1>2 DEF Answer
  <2> QED
    BY <2>1, <2>2 DEF Task, OutcomesAreServed
<1> QED
  BY <1>1, <1>2

(* A flag arrives, or gets lost.                                           *)
LEMMA FlagSteps ==
    ASSUME TypeOK, OutcomesAreServed, NEW t \in serving, FlagKey(t) \/ FlagKeyFails(t)
    PROVE  done \subseteq done' /\ OutcomesAreServed'
<1>1. done' = done /\ serving' \subseteq serving
  BY DEF FlagKey, FlagKeyFails
<1>2. \A d \in Cells : cell'[d] = cell[d] \/ (d = t.cell /\ cell'[d] = Entry(t.op, t.at))
  BY DEF FlagKey, FlagKeyFails, TypeOK
<1>3. \A d \in Cells : cell'[d].st = "OK" => <<d, cell'[d].op>> \in done
  BY <1>2 DEF OutcomesAreServed, Entry
<1> QED
  BY <1>1, <1>3 DEF OutcomesAreServed

(* The same of every step.                                                 *)
LEMMA CellSteps ==
    ASSUME TypeOK, OutcomesAreServed, Next
    PROVE  done \subseteq done' /\ OutcomesAreServed'
<1>1. CASE UNCHANGED <<cell, serving, done>>
  BY <1>1 DEF OutcomesAreServed
<1>2. ASSUME NEW c \in Cells, NEW o, Write(c, o) \/ Erase(c), done' = done
      PROVE  done \subseteq done' /\ OutcomesAreServed'
  BY <1>2, NoOkChanges
<1>3. CASE \/ \E r \in Runs : RunStep(r) \/ LoadFails(r)
           \/ InstallApp \/ UninstallApp
           \/ \E w \in writers : Flag(w) \/ FlagFails(w)
           \/ \E r \in Runs : \E m \in Masters : Deliver(m, r)
           \/ \E n \in Nodes : NodeComesOrGoes(n)
           \/ \E m \in Masters : Crash(m)
  BY <1>1, <1>3 DEF RunStep, LoadFails, Load, Abort, Created, Started, Removed, Purge, List,
       ListFails, InstallApp, UninstallApp, Flag, FlagFails, Deliver, Begin, NodeComesOrGoes, Crash
<1>4. ASSUME NEW r \in Runs, NEW c \in Cells, CallStep(r, c) \/ RequestFails(r, c)
      PROVE  done \subseteq done' /\ OutcomesAreServed'
  BY <1>1, <1>2, <1>4 DEF CallStep, RequestFails, Look, Set, Sees, TimesOut, Delete, SeesNothing
<1>5. CASE \E c \in Cells : PickUp(c) \/ \E o \in Served : Answer(c, o)
  BY <1>5, NodeSteps
<1>6. CASE \E t \in serving : FlagKey(t) \/ FlagKeyFails(t)
  BY <1>6, FlagSteps
<1> QED
  BY <1>3, <1>4, <1>5, <1>6 DEF Next

(***************************************************************************)
(* The invariant.                                                          *)
(***************************************************************************)
(* What is claimed of a single run.                                        *)
RunIsFounded(r) ==
    /\ run[r].phase # "free" => run[r].by \in Masters
    /\ run[r].phase = "purge" => \A c \in Cells : call[r][c] \in {"none", "ok"}
    /\ \A c \in Cells : call[r][c] \notin Over \union {"none"} => run[r].phase \in Served
CallIsFounded(r, c) ==
    /\ run[r].phase = "create" /\ call[r][c] = "ok" => <<c, "create">> \in done
    /\ call[r][c] \in {"del", "sync"} => run[r].phase = "remove"
    /\ run[r].phase \in {"remove", "purge"} /\ call[r][c] \in {"del", "sync", "ok"} =>
         <<c, "remove">> \in done

(* A quiet run keeps its claims.                                           *)
LEMMA QuietKeeps ==
    ASSUME DeploymentInvariant, Next, NEW r \in Runs, Quiet(r)
    PROVE  RunIsFounded(r)' /\ \A c \in Cells : CallIsFounded(r, c)'
<1>1. RunIsFounded(r)'
  BY DEF DeploymentInvariant, RunsAreFounded, RunIsFounded, Quiet, Over
<1>2. ASSUME NEW c \in Cells
      PROVE  CallIsFounded(r, c)'
  <2>1. CASE call'[r][c] = "none"
    BY <2>1 DEF CallIsFounded
  <2>2. CASE call'[r][c] = call[r][c]
    <3>1. done \subseteq done'
      BY CellSteps DEF DeploymentInvariant
    <3>2. CallIsFounded(r, c) /\ run'[r].phase = run[r].phase
      BY DEF DeploymentInvariant, CallsAreFounded, CallIsFounded, Quiet
    <3> QED
      BY <2>2, <3>1, <3>2 DEF CallIsFounded
  <2> QED
    BY <2>1, <2>2 DEF Quiet
<1> QED
  BY <1>1, <1>2

(* A call that moves: it passes only on an answer to what it asked for.    *)
LEMMA CallMoveKeeps ==
    ASSUME DeploymentInvariant, Next, NEW r \in Runs, NEW c \in Cells, CallMoves(r, c)
    PROVE  RunIsFounded(r)' /\ \A d \in Cells : CallIsFounded(r, d)'
<1>0. /\ TypeOK /\ RunsAreFounded /\ OutcomesAreServed /\ CallsAreFounded
      /\ RunIsFounded(r) /\ \A d \in Cells : CallIsFounded(r, d)
  BY DEF DeploymentInvariant, RunsAreFounded, RunIsFounded, CallsAreFounded, CallIsFounded
<1>1. PICK t \in CallStates : CallGoes(r, c, t) /\ run' = run
  BY DEF CallMoves, Look, Set, Sees, TimesOut, Delete, RequestFails, Accepted, Refused,
         CallStates
<1>2. /\ run'[r] = run[r]
      /\ \A d \in Cells : d # c => call'[r][d] = call[r][d]
      /\ call'[r][c] \in {t, "none"}
  BY <1>0, <1>1, CallEffect
<1>3. call[r][c] \notin Over \union {"none"} /\ run[r].phase \in Served
  <2>1. call[r][c] \in {"look", "set", "wait", "del", "sync"}
    BY DEF CallMoves, Look, Set, Sees, TimesOut, Delete, RequestFails
  <2> QED
    BY <1>0, <2>1 DEF RunIsFounded, Over
<1>4. RunIsFounded(r)'
  BY <1>0, <1>2, <1>3 DEF RunIsFounded, Served
<1>5. ASSUME NEW d \in Cells, d # c
      PROVE  CallIsFounded(r, d)'
  <2>1. call'[r][d] = call[r][d] /\ CallIsFounded(r, d)
    BY <1>0, <1>2, <1>5
  <2>2. done \subseteq done'
    BY <1>0, CellSteps
  <2> QED
    BY <1>2, <2>1, <2>2 DEF CallIsFounded
<1>6. CallIsFounded(r, c)'
  <2>1. CASE call'[r][c] \notin {"del", "sync", "ok"}
    BY <2>1 DEF CallIsFounded
  <2>2. CASE Sees(r, c) /\ call'[r][c] \in {"del", "sync", "ok"}
    <3>1. call' = [call EXCEPT ![r][c] = call'[r][c]] /\ cell[c].op = run[r].phase /\ cell[c].st = "OK"
          /\ done' = done /\ call'[r][c] \in {Accepted(r), "none"}
      <4>1. /\ done' = done /\ call[r] \in [Cells -> CallStates]
            /\ call \in [Runs -> [Cells -> CallStates]]
        BY <1>0, <2>2 DEF Sees, TypeOK
      <4>2. Refused(r) \notin {"del", "sync", "ok"}
        BY DEF Refused
      <4>3. ASSUME CallGoes(r, c, Refused(r))
            PROVE  call'[r][c] \in {Refused(r), "none"}
        BY <4>1, <4>3 DEF CallGoes
      <4>4. cell[c].op = run[r].phase /\ cell[c].st = "OK" /\ CallGoes(r, c, Accepted(r))
        BY <2>2, <4>2, <4>3 DEF Sees
      <4> QED
        BY <4>1, <4>4 DEF CallGoes
    <3>2. <<c, run[r].phase>> \in done
      BY <1>0, <3>1 DEF OutcomesAreServed
    <3>3. CASE run[r].phase = "remove"
      BY <1>2, <3>1, <3>2, <3>3, <2>2 DEF CallIsFounded, Accepted
    <3>4. CASE run[r].phase # "remove"
      BY <1>2, <1>3, <3>1, <3>2, <3>4 DEF CallIsFounded, Accepted, Served
    <3> QED
      BY <3>3, <3>4
  <2>3. CASE Delete(r, c)
    <3>1. call[r][c] \in {"del", "sync"} /\ done' = done
      BY <2>3 DEF Delete
    <3>2. run[r].phase = "create" => call'[r][c] # "ok"
      <4>1. run[r].phase = "create" => call[r][c] \notin {"del", "sync"}
        BY <1>0 DEF CallIsFounded
      <4> QED
        BY <3>1, <4>1
    <3> QED
      BY <1>0, <1>2, <3>1, <3>2 DEF CallIsFounded
  <2>4. CASE ~Sees(r, c) /\ ~Delete(r, c)
    <3>1. call'[r][c] \notin {"del", "sync", "ok"}
      <4>1. \E u \in {"failed", "late", "hung", "set", "wait"} : CallGoes(r, c, u)
        BY <2>4 DEF CallMoves, Look, Set, TimesOut, RequestFails
      <4>2. PICK u \in {"failed", "late", "hung", "set", "wait"} : CallGoes(r, c, u)
        BY <4>1
      <4>3. call'[r][c] \in {u, "none"}
        BY <1>0, <4>2 DEF CallGoes, TypeOK
      <4> QED
        BY <4>3
    <3> QED
      BY <2>1, <3>1
  <2> QED
    BY <2>1, <2>2, <2>3, <2>4
<1> QED
  BY <1>4, <1>5, <1>6

(* A run that moves as a whole keeps them too: it gets new calls, or, when *)
(* it has removed everything, goes on with calls that passed.              *)
LEMMA MovedKeeps ==
    ASSUME DeploymentInvariant, Next, NEW r \in Runs, RunMoved(r)
    PROVE  RunIsFounded(r)' /\ \A c \in Cells : CallIsFounded(r, c)'
<1>0. /\ run \in [Runs -> RunRecords] /\ run[r] \in RunRecords
      /\ call \in [Runs -> [Cells -> CallStates]]
      /\ RunIsFounded(r) /\ \A c \in Cells : CallIsFounded(r, c)
  BY DEF DeploymentInvariant, TypeOK, RunsAreFounded, RunIsFounded, CallsAreFounded,
         CallIsFounded, RunRecords
<1>1. CASE Load(r)
  <2>1. run'[r].phase = "create" /\ run'[r].by = run[r].by
    BY <1>0, <1>1 DEF Load, Goes, RunRecords
  <2>2. \A c \in Cells : call'[r][c] \in {"none", "unlisted"}
    BY <1>0, <1>1 DEF Load, Listing
  <2>3. run[r].phase # "free"
    BY <1>1 DEF Load, Running
  <2> QED
    BY <1>0, <2>1, <2>2, <2>3 DEF RunIsFounded, CallIsFounded, Served
<1>2. CASE Created(r)
  <2>1. run'[r].phase = "start" /\ run'[r].by = run[r].by
    BY <1>0, <1>2 DEF Created, Goes, RunRecords
  <2>2. \A c \in Cells : call'[r][c] \in {"none", "unlisted"}
    BY <1>0, <1>2 DEF Created, Listing
  <2>3. run[r].phase # "free"
    BY <1>2 DEF Created, Running
  <2> QED
    BY <1>0, <2>1, <2>2, <2>3 DEF RunIsFounded, CallIsFounded, Served
<1>3. CASE Removed(r)
  <2>1. run'[r].phase = "purge" /\ run'[r].by = run[r].by /\ run[r].phase = "remove"
    BY <1>0, <1>3 DEF Removed, Running, Goes, RunRecords
  <2>2. call' = call
    BY <1>3 DEF Removed
  <2>3. \A c \in Cells : call[r][c] \in {"none", "ok"}
    BY <1>3, <2>1 DEF Removed, AllFulfilled, Fulfilled, Rejects
  <2>4. run'[r].by \in Masters
    BY <1>0, <2>1 DEF RunIsFounded
  <2>5. RunIsFounded(r)'
    BY <2>1, <2>2, <2>3, <2>4 DEF RunIsFounded, Over
  <2>6. ASSUME NEW c \in Cells
        PROVE  CallIsFounded(r, c)'
    <3>1. done \subseteq done'
      BY CellSteps DEF DeploymentInvariant
    <3> QED
      BY <1>0, <2>1, <2>2, <2>3, <3>1 DEF CallIsFounded
  <2> QED
    BY <2>5, <2>6
<1>4. ASSUME NEW m \in Masters, Deliver(m, r)
      PROVE  RunIsFounded(r)' /\ \A c \in Cells : CallIsFounded(r, c)'
  <2>1. run'[r].phase \in {"load", "remove"} /\ run'[r].by = m
    BY <1>0, <1>4 DEF Deliver, Begin
  <2>2. \A c \in Cells : call'[r][c] \in {"none"} \union
          (IF run'[r].phase = "remove" THEN {"unlisted"} ELSE {})
    BY <1>0, <1>4 DEF Deliver, Begin, Listing, NoCalls
  <2> QED
    BY <2>1, <2>2 DEF RunIsFounded, CallIsFounded, Served
<1>5. ASSUME NEW i \in Items, List(r, i)
      PROVE  RunIsFounded(r)' /\ \A c \in Cells : CallIsFounded(r, c)'
  <2>1. run' = run /\ cell' = cell /\ done' = done
    BY <1>5 DEF List
  <2>2. run[r].phase \in Served
    <3>1. PICK n \in Nodes : call[r][<<i, n>>] = "unlisted"
      BY <1>5 DEF List
    <3>2. <<i, n>> \in Cells
      BY DEF Cells
    <3> QED
      BY <1>0, <3>1, <3>2 DEF RunIsFounded, Over
  <2>3. \A c \in Cells : call'[r][c] \in {call[r][c], "none", "set", "look"}
    BY <1>0, <1>5 DEF List
  <2> QED
    BY <1>0, <2>1, <2>2, <2>3 DEF RunIsFounded, CallIsFounded, Served
<1> QED
  BY <1>1, <1>2, <1>3, <1>4, <1>5, CallMoveKeeps DEF RunMoved

(***************************************************************************)
(* The theorems.                                                           *)
(***************************************************************************)
(* Every step keeps the types.                                             *)
LEMMA StepType ==
    ASSUME TypeOK, RunsAreFounded, Next
    PROVE  TypeOK'
<1>1. CASE \E r \in Runs : RunStep(r) \/ LoadFails(r)
  BY <1>1, RunStepType
<1>2. CASE \E r \in Runs : \E c \in Cells : CallStep(r, c) \/ RequestFails(r, c)
  BY <1>2, CallStepType
<1> QED
  BY <1>1, <1>2, OtherStepType

(* Every step keeps the invariant: CellSteps for the entries, and for the  *)
(* runs QuietKeeps, or MovedKeeps for the one that moves.                  *)
LEMMA StepKeeps ==
    ASSUME DeploymentInvariant, Next
    PROVE  DeploymentInvariant'
<1>1. TypeOK' /\ OutcomesAreServed'
  BY StepType, CellSteps DEF DeploymentInvariant
<1>2. ASSUME NEW r \in Runs
      PROVE  RunIsFounded(r)' /\ \A c \in Cells : CallIsFounded(r, c)'
  <2>1. Quiet(r) \/ RunMoved(r)
    BY QuietSteps DEF DeploymentInvariant
  <2> QED
    BY <2>1, QuietKeeps, MovedKeeps
<1>3. RunsAreFounded'
  BY <1>2 DEF RunsAreFounded, RunIsFounded
<1>4. CallsAreFounded'
  BY <1>2 DEF CallsAreFounded, CallIsFounded
<1> QED
  BY <1>1, <1>3, <1>4 DEF DeploymentInvariant

(* In every reachable state: an OK, in an entry or on its way there,       *)
(* stands for a handler that succeeded, and what a call took for its       *)
(* answer was one, of the operation it asked for: although a flag is       *)
(* written over whatever the entry says when it arrives (kv.js:102-125).   *)
THEOREM DeploymentCorrect == Spec => []DeploymentInvariant
<1>1. Init => DeploymentInvariant
  <2> SUFFICES ASSUME Init
               PROVE  DeploymentInvariant
    OBVIOUS
  <2>1. TypeOK
    BY ValuesTyped DEF Init, TypeOK, FreeRun, RunPhases, RunStates
  <2>2. OutcomesAreServed
    BY DEF Init, OutcomesAreServed, Absent
  <2>3. RunsAreFounded /\ CallsAreFounded
    BY DEF Init, RunsAreFounded, CallsAreFounded, FreeRun, NoCalls
  <2> QED
    BY <2>1, <2>2, <2>3 DEF DeploymentInvariant
<1>2. DeploymentInvariant /\ [Next]_vars => DeploymentInvariant'
  <2> SUFFICES ASSUME DeploymentInvariant, [Next]_vars
               PROVE  DeploymentInvariant'
    OBVIOUS
  <2>1. CASE Next
    BY <2>1, StepKeeps
  <2>2. CASE UNCHANGED vars
    BY <2>2 DEF vars, DeploymentInvariant, TypeOK, OutcomesAreServed, RunsAreFounded,
                CallsAreFounded
  <2> QED
    BY <2>1, <2>2
<1> QED
  BY <1>1, <1>2, PTL DEF Spec

(* The types, in particular.                                               *)
THEOREM TypeCorrect == Spec => []TypeOK
<1>1. DeploymentInvariant => TypeOK
  BY DEF DeploymentInvariant
<1> QED
  BY <1>1, DeploymentCorrect, PTL

(* A run starts the daemons only when the creations it asked for have been *)
(* carried out (processCreate): a creation that failed or timed out        *)
(* rejects, so every call that was made has been answered.                 *)
THEOREM StartsAreFounded == Spec => StartsWhenCreated
<1> DEFINE Founded ==
      \A r \in Runs : run[r].phase = "create" /\ run'[r].phase = "start" =>
        \A n \in Nodes : call[r][<<"daemons", n>>] # "none" =>
           <<<<"daemons", n>>, "create">> \in done
<1>1. DeploymentInvariant /\ [Next]_vars => Founded
  <2> SUFFICES ASSUME DeploymentInvariant, [Next]_vars, NEW r \in Runs,
                      run[r].phase = "create", run'[r].phase = "start",
                      NEW n \in Nodes, call[r][<<"daemons", n>>] # "none"
               PROVE  <<<<"daemons", n>>, "create">> \in done
    OBVIOUS
  <2>1. Next /\ RunMoved(r)
    <3>1. run' # run
      OBVIOUS
    <3>2. Next
      BY <3>1 DEF vars
    <3> QED
      BY <3>2, QuietSteps DEF DeploymentInvariant, Quiet
  <2>2. Created(r)
    <3>1. run[r] \in RunRecords /\ run \in [Runs -> RunRecords]
      BY DEF DeploymentInvariant, TypeOK, RunRecords
    <3>2. ~Load(r) /\ ~Removed(r)
      BY DEF Load, Removed, Running
    <3>3. \A m \in Masters : ~Deliver(m, r)
      BY DEF Deliver, Begin
    <3>4. \A i \in Items : ~List(r, i)
      BY DEF List
    <3>5. \A c \in Cells : ~CallMoves(r, c)
      BY DEF CallMoves, Look, Set, Sees, TimesOut, Delete, RequestFails
    <3> QED
      BY <2>1, <3>2, <3>3, <3>4, <3>5 DEF RunMoved
  <2>3. <<"daemons", n>> \in Cells /\ <<"daemons", n>>[1] = "daemons"
    BY DEF Cells, Items
  <2>4. Fulfilled(r, <<"daemons", n>>)
    BY <2>2, <2>3 DEF Created, AllFulfilled
  <2>5. call[r][<<"daemons", n>>] = "ok"
    BY <2>3, <2>4 DEF Fulfilled, Rejects
  <2> QED
    BY <2>3, <2>5 DEF DeploymentInvariant, CallsAreFounded
<1> QED
  BY <1>1, DeploymentCorrect, PTL DEF Spec, StartsWhenCreated

(* The entry of the app goes when the nodes have carried out the removal   *)
(* of everything the run found on them (processRemove): the removals still *)
(* under way or without an answer keep the run from purging.               *)
THEOREM AppLast == Spec => AppGoesLast
<1> DEFINE Last ==
      \A r \in Runs : run[r].phase = "purge" /\ app # NoApp /\ app' = NoApp
                      /\ run[r].state = "running" /\ run'[r].state = "settled" =>
        \A c \in Cells : call[r][c] # "none" => <<c, "remove">> \in done
<1>1. DeploymentInvariant => Last
  <2> SUFFICES ASSUME DeploymentInvariant, NEW r \in Runs, run[r].phase = "purge",
                      NEW c \in Cells, call[r][c] # "none"
               PROVE  <<c, "remove">> \in done
    OBVIOUS
  <2>1. call[r][c] = "ok"
    BY DEF DeploymentInvariant, RunsAreFounded
  <2> QED
    BY <2>1 DEF DeploymentInvariant, CallsAreFounded
<1> QED
  BY <1>1, DeploymentCorrect, PTL DEF Spec, AppGoesLast

(***************************************************************************)
(* The outcomes in the entry of the app.                                   *)
(***************************************************************************)
(* What a step may do to a run that was begun: leave it, end it, or take   *)
(* it to its next phase; a removal never becomes an installation.          *)
RunEnds(r) == \E t \in {"settled", "lost"} : run'[r] = [run[r] EXCEPT !.state = t]
RunGoes(r) ==
    \E p \in {<<"load", "create">>, <<"create", "start">>, <<"remove", "purge">>} :
        run[r].phase = p[1] /\ run'[r] = [run[r] EXCEPT !.phase = p[2]]

(* A run settles, and the others are as before.                            *)
LEMMA SettlingEnds ==
    ASSUME TypeOK, NEW r \in Runs, NEW C, NEW W, SettleAmong(r, C, W), NEW q \in Runs
    PROVE  run'[q] = run[q] \/ RunEnds(q)
BY DEF TypeOK, SettleAmong, RunEnds

(* The end of a process ends its runs.                                     *)
LEMMA ExitEnds ==
    ASSUME NEW m, Exit(m), NEW q \in Runs
    PROVE  run'[q] = run[q] \/ RunEnds(q)
BY DEF Exit, RunEnds

(* Every step of a run that was begun is one of these.                     *)
LEMMA RunEffects ==
    ASSUME TypeOK, Next, NEW q \in Runs, run[q].phase # "free"
    PROVE  run'[q] = run[q] \/ RunEnds(q) \/ RunGoes(q)
<1>0. run \in [Runs -> RunRecords]
  BY DEF TypeOK, RunRecords
<1>1. ASSUME NEW r \in Runs, RunStep(r) \/ LoadFails(r)
      PROVE  run'[q] = run[q] \/ RunEnds(q) \/ RunGoes(q)
  <2>1. CASE Load(r) \/ Created(r) \/ Removed(r)
    BY <1>0, <2>1 DEF Load, Created, Removed, Running, Goes, RunGoes
  <2>2. CASE \E C, W : SettleAmong(r, C, W)
    BY <2>2, SettlingEnds
  <2>3. CASE LoadFails(r)
    BY <1>0, <2>2, <2>3 DEF LoadFails, Settle, SettleWith, RunEnds
  <2>4. CASE run' = run
    BY <2>4
  <2> QED
    BY <1>1, <2>1, <2>2, <2>3, <2>4 DEF RunStep, Abort, Started, Purge, List, ListFails,
         Settle, SettleWith
<1>2. ASSUME NEW r \in Runs, NEW c \in Cells, CallStep(r, c) \/ RequestFails(r, c)
      PROVE  run'[q] = run[q] \/ RunEnds(q)
  BY <1>2, ExitEnds DEF CallStep, RequestFails, Look, Set, Sees, TimesOut, Delete, SeesNothing
<1>3. ASSUME NEW m \in Masters, NEW r \in Runs, Deliver(m, r)
      PROVE  run'[q] = run[q]
  BY <1>0, <1>3 DEF Deliver, Begin
<1>4. CASE \E m \in Masters : Crash(m)
  BY <1>4, ExitEnds DEF Crash
<1>5. CASE \/ InstallApp \/ UninstallApp
           \/ \E w \in writers : Flag(w) \/ FlagFails(w)
           \/ \E c \in Cells : PickUp(c) \/ \E o \in Served : Answer(c, o)
           \/ \E t \in serving : FlagKey(t) \/ FlagKeyFails(t)
           \/ \E n \in Nodes : NodeComesOrGoes(n)
  BY <1>5 DEF InstallApp, UninstallApp, Flag, FlagFails, PickUp, Answer, FlagKey,
         FlagKeyFails, NodeComesOrGoes
<1> QED
  BY <1>1, <1>2, <1>3, <1>4, <1>5 DEF Next

(* So what was reported once stays so.                                     *)
LEMMA ReportedStays ==
    ASSUME TypeOK, Next, NEW o, NEW n, NEW s, Reported(o, n, s)
    PROVE  Reported(o, n, s)'
<1>1. ASSUME NEW r \in Runs, Ran(r, o, n)
      PROVE  Ran(r, o, n)' /\ (run[r].state # "running" => run'[r].state # "running")
  <2>1. run[r] \in RunRecords /\ run[r].phase # "free"
    BY <1>1 DEF TypeOK, RunRecords, Ran
  <2>2. run'[r] = run[r] \/ RunEnds(r) \/ RunGoes(r)
    BY <2>1, RunEffects
  <2>3. CASE run'[r] = run[r]
    BY <1>1, <2>3 DEF Ran
  <2>4. CASE RunEnds(r)
    BY <1>1, <2>1, <2>4 DEF Ran, RunEnds, RunRecords
  <2>5. CASE RunGoes(r)
    BY <1>1, <2>1, <2>5 DEF Ran, RunGoes, RunRecords
  <2> QED
    BY <2>2, <2>3, <2>4, <2>5
<1> QED
  BY <1>1 DEF Reported

(* What the writers will write: requests, outcomes of runs that settle     *)
(* now, and PENDING for the one that begins.                               *)
LEMMA SettlingReports ==
    ASSUME TypeOK, NEW r \in Runs, run[r].phase # "free", NEW C, NEW W, SettleAmong(r, C, W),
           NEW w \in writers', w \notin W
    PROVE  Reported(w.op, w.no, w.st)'
<1>1. run \in [Runs -> RunRecords] /\ run[r] \in RunRecords
  BY DEF TypeOK, RunRecords
<1>2. run'[r].state = "settled" /\ run'[r].phase = run[r].phase
  BY <1>1 DEF SettleAmong, RunRecords
<1>3. /\ w.op = IF run[r].phase \in {"remove", "purge"} THEN "remove" ELSE "create"
      /\ w.no = r[1] /\ w.st = "OK"
  BY DEF SettleAmong, Writer
<1>4. Ran(r, w.op, w.no)'
  BY <1>2, <1>3 DEF Ran
<1> QED
  BY <1>2, <1>3, <1>4 DEF Reported

(* A writer of the next state reports a run that is over.                  *)
LEMMA WritersReport ==
    ASSUME TypeOK, Next, OutcomesAreOfRuns, NEW w \in writers'
    PROVE  Reported(w.op, w.no, w.st)'
<1>1. CASE w \in writers
  BY <1>1, ReportedStays DEF OutcomesAreOfRuns
<1>2. CASE w \notin writers /\ \E r \in Runs : RunStep(r) \/ LoadFails(r)
  <2>1. PICK r \in Runs : RunStep(r) \/ LoadFails(r)
    BY <1>2
  <2>2. run[r].phase # "free" /\ \E C, W :
           /\ SettleAmong(r, C, W)
           /\ W = writers \/ W = {[v EXCEPT !.held = TRUE] : v \in writers}
    BY <1>2, <2>1 DEF RunStep, LoadFails, Load, Abort, Rejects, Created, Started, Removed, Purge,
         List, ListFails, Alive, Running, Settle, SettleWith
  <2>3. PICK C, W :
           /\ SettleAmong(r, C, W)
           /\ W = writers \/ W = {[v EXCEPT !.held = TRUE] : v \in writers}
    BY <2>2
  <2>4. CASE w \in W
    <3>1. PICK v \in writers : w = [v EXCEPT !.held = TRUE]
      BY <1>2, <2>3, <2>4
    <3>2. v \in Writers
      BY DEF TypeOK
    <3>3. w.op = v.op /\ w.no = v.no /\ w.st = v.st
      BY <3>1, <3>2 DEF Writers
    <3> QED
      BY <3>3, ReportedStays DEF OutcomesAreOfRuns
  <2>5. CASE w \notin W
    BY <2>2, <2>3, <2>5, SettlingReports
  <2> QED
    BY <2>4, <2>5
<1>3. CASE w \notin writers /\ \E m \in Masters, r \in Runs : Deliver(m, r)
  <2>1. PICK m \in Masters, r \in Runs : Deliver(m, r)
    BY <1>3
  <2>2. w = Writer(app.op, app.no, "PENDING", m)
    BY <1>3, <2>1 DEF Deliver, Begin
  <2>3. app.op \in {"create", "remove"} /\ r[1] = app.no
    BY <2>1 DEF Deliver, Begin, TypeOK, Requests, NoApp
  <2>4. run'[r].phase = IF app.op = "create" THEN "load" ELSE "remove"
    BY <2>1 DEF Deliver, Begin, TypeOK
  <2>5. w.op = app.op /\ w.no = app.no /\ w.st = "PENDING"
    BY <2>2 DEF Writer
  <2>6. Ran(r, w.op, w.no)'
    BY <2>3, <2>4, <2>5 DEF Ran
  <2> QED
    BY <2>5, <2>6 DEF Reported
<1>4. CASE w \notin writers /\ UninstallApp
  <2>1. w.st = "NEW"
    BY <1>4 DEF UninstallApp, Writer
  <2> QED
    BY <2>1 DEF Reported
<1>5. CASE writers' \subseteq writers
  BY <1>1, <1>5
<1>6. CASE \/ InstallApp \/ \E v \in writers : Flag(v) \/ FlagFails(v)
           \/ \E c \in Cells : PickUp(c) \/ \E o \in Served : Answer(c, o)
           \/ \E t \in serving : FlagKey(t) \/ FlagKeyFails(t)
           \/ \E n \in Nodes : NodeComesOrGoes(n)
           \/ \E m \in Masters : Crash(m)
           \/ \E r \in Runs, c \in Cells : CallStep(r, c) \/ RequestFails(r, c)
  BY <1>5, <1>6 DEF InstallApp, Flag, FlagFails, PickUp, Answer, FlagKey,
         FlagKeyFails, NodeComesOrGoes, Crash, Exit,
       CallStep, RequestFails, Look, Set, Sees, TimesOut, Delete, SeesNothing
<1> QED
  BY <1>1, <1>2, <1>3, <1>4, <1>6 DEF Next

(* The entry itself is written by the user, by a writer, or deleted.       *)
LEMMA EntryReports ==
    ASSUME TypeOK, Next, OutcomesAreOfRuns
    PROVE  Reported(app.op, app.no, app.st)'
<1>1. CASE app' = app
  BY <1>1, ReportedStays DEF OutcomesAreOfRuns
<1>2. CASE InstallApp
  BY <1>2 DEF InstallApp, AppEntry, Reported
<1>3. ASSUME NEW w \in writers, Flag(w)
      PROVE  Reported(app.op, app.no, app.st)'
  <2>1. CASE app' = AppEntry(w.op, w.no, w.st)
    BY <2>1, ReportedStays DEF OutcomesAreOfRuns, AppEntry
  <2> QED
    BY <1>1, <1>3, <2>1 DEF Flag
<1>4. CASE app' = NoApp
  BY <1>4 DEF NoApp, Reported
<1>5. CASE \E r \in Runs : RunStep(r) \/ LoadFails(r)
  BY <1>1, <1>4, <1>5 DEF RunStep, LoadFails, Load, Abort, Created, Started, Removed, Purge, List,
       ListFails
<1>6. CASE \/ UninstallApp \/ \E v \in writers : FlagFails(v)
           \/ \E c \in Cells : PickUp(c) \/ \E o \in Served : Answer(c, o)
           \/ \E t \in serving : FlagKey(t) \/ FlagKeyFails(t)
           \/ \E n \in Nodes : NodeComesOrGoes(n)
           \/ \E m \in Masters : Crash(m) \/ \E r \in Runs : Deliver(m, r)
           \/ \E r \in Runs, c \in Cells : CallStep(r, c) \/ RequestFails(r, c)
  BY <1>1, <1>6 DEF UninstallApp, FlagFails, PickUp, Answer, FlagKey,
         FlagKeyFails, NodeComesOrGoes, Crash, Deliver,
       Begin, CallStep, RequestFails, Look, Set, Sees, TimesOut, Delete, SeesNothing
<1> QED
  BY <1>2, <1>3, <1>5, <1>6 DEF Next

(* The entry of the app never reports what no run of the reactor did: its  *)
(* outcome is that of a run of the request it names (watcher.js:58-75).    *)
THEOREM OutcomesAreReported == Spec => []OutcomesAreOfRuns
<1>1. Init => OutcomesAreOfRuns
  BY DEF Init, OutcomesAreOfRuns, Reported, NoApp
<1>2. TypeOK /\ OutcomesAreOfRuns /\ [Next]_vars => OutcomesAreOfRuns'
  <2> SUFFICES ASSUME TypeOK, OutcomesAreOfRuns, [Next]_vars
               PROVE  OutcomesAreOfRuns'
    OBVIOUS
  <2>1. CASE Next
    BY <2>1, WritersReport, EntryReports DEF OutcomesAreOfRuns
  <2>2. CASE UNCHANGED vars
    BY <2>2 DEF vars, OutcomesAreOfRuns, Reported, Ran
  <2> QED
    BY <2>1, <2>2
<1> QED
  BY <1>1, <1>2, TypeCorrect, PTL DEF Spec

=============================================================================
