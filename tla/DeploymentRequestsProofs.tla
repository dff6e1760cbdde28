---------------------- MODULE DeploymentRequestsProofs ----------------------
(***************************************************************************)
(* Proofs that the calls of the runs of AppDeployment keep to the contract *)
(* of the storage layer, for any app, masters, nodes, reactors and bounds. *)
(***************************************************************************)
EXTENDS DeploymentRequests, AppDeploymentProofs

USE BoundsAssumption, AppAssumption, AnswersAssumption

(* A request is named by its run, its key and its operation.               *)
LEMMA RequestFields ==
    /\ \A r \in Runs, c \in Cells, o \in Served :
         /\ Request(r, c, o) \in AllRequests
         /\ Request(r, c, o).by = r /\ Request(r, c, o).key = c /\ Request(r, c, o).op = o
    /\ \A q \in AllRequests :
         /\ q.by \in Runs /\ q.key \in Cells /\ q.op \in Served
         /\ q = Request(q.by, q.key, q.op)
BY DEF Request, AllRequests

(* Before the calls of a run are listed, and after its process has ended,  *)
(* it has none.                                                            *)
LEMMA NoCallsYet ==
    ASSUME RequestsInvariant, NEW r \in Runs, NEW c \in Cells,
           run[r].phase \in {"free", "load"} \/ run[r].state = "lost"
    PROVE  call[r][c] = "none"
<1>1. "create" \in Served
  BY DEF Served
<1>2. CallIsTold(Request(r, c, "create"))
  BY <1>1, RequestFields DEF RequestsInvariant
<1> QED
  BY <1>1, <1>2, RequestFields DEF CallIsTold

(***************************************************************************)
(* What a step does to a run: it goes on to its next phase or stays in its *)
(* own, it lists its calls anew only with the phase, and a run that is     *)
(* lost has none.  A silent step tells no caller of the run anything.      *)
(***************************************************************************)
Advances(r) ==
    \/ run'[r].phase = run[r].phase
    \/ run[r].phase = "free" /\ run'[r].phase \in {"load", "remove"}
    \/ run[r].phase = "load" /\ run'[r].phase = "create"
    \/ run[r].phase = "create" /\ run'[r].phase = "start"
    \/ run[r].phase = "remove" /\ run'[r].phase = "purge"
Shaped(r) ==
    /\ Advances(r)
    /\ ListedTogether(r)'
    /\ \A c \in Cells :
         /\ run'[r].phase \in {"free", "load"} => call'[r][c] = "none"
         /\ run'[r].state = "lost" => call'[r][c] = "none"
         /\ call'[r][c] = "unlisted" =>
              run'[r].phase # run[r].phase \/ call[r][c] = "unlisted"
Silent(r) ==
    /\ run'[r].state = "lost" => run[r].state = "lost"
    /\ \A c \in Cells :
         \/ call'[r][c] \in {"none", "unlisted"}
         \/ run'[r].phase \notin Served
         \/ run'[r].phase = run[r].phase /\ call'[r][c] = call[r][c]

(* A run that a step leaves as it is.                                      *)
LEMMA UntouchedShape ==
    ASSUME RequestsInvariant, NEW r \in Runs, run'[r] = run[r], call'[r] = call[r]
    PROVE  Shaped(r) /\ Silent(r)
<1>1. ListedTogether(r)'
  BY DEF RequestsInvariant, ListedTogether
<1> QED
  BY <1>1, NoCallsYet DEF Shaped, Silent, Advances

(* A run settles with the calls C.                                         *)
LEMMA SettlingShape ==
    ASSUME TypeOK, RequestsInvariant, NEW r \in Runs,
           run[r].phase \notin {"free"}, run[r].state = "running",
           NEW C \in [Cells -> CallStates],
           \A c \in Cells : C[c] \in {call[r][c], "none"},
           \A i \in Items, n, m \in Nodes :
               C[<<i, n>>] = "unlisted" => C[<<i, m>>] = "unlisted",
           NEW W, SettleAmong(r, C, W)
    PROVE  \A q \in Runs : Shaped(q) /\ Silent(q)
<1>1. run \in [Runs -> RunRecords] /\ run[r] \in RunRecords
      /\ call \in [Runs -> [Cells -> CallStates]]
  BY DEF TypeOK, RunRecords
<1>2. run'[r] = [run[r] EXCEPT !.state = "settled"] /\ call'[r] = Forgets(C)
  BY <1>1 DEF SettleAmong
<1>3. run'[r].phase = run[r].phase /\ run'[r].state = "settled"
  BY <1>1, <1>2 DEF RunRecords
<1>4. \A c \in Cells : call'[r][c] \in {call[r][c], "none"}
  BY <1>2 DEF Forgets
<1>5. ListedTogether(r)'
  <2>1. \A i \in Items, n \in Nodes : <<i, n>> \in Cells
    BY DEF Cells
  <2>2. \A c \in Cells : call'[r][c] = "unlisted" <=> C[c] = "unlisted"
    BY <1>2 DEF Forgets, Over
  <2> QED
    BY <2>1, <2>2 DEF ListedTogether
<1>6. Shaped(r) /\ Silent(r)
  BY <1>3, <1>4, <1>5, NoCallsYet DEF Shaped, Silent, Advances
<1>7. \A q \in Runs : q # r => run'[q] = run[q] /\ call'[q] = call[q]
  BY <1>1 DEF SettleAmong
<1> QED
  BY <1>6, <1>7, UntouchedShape

(* A process ends: the runs it takes along are lost.                       *)
LEMMA ExitShape ==
    ASSUME TypeOK, RequestsInvariant, NEW m, Exit(m), NEW r \in Runs
    PROVE  Shaped(r) /\ (Silent(r) \/ run'[r].state = "lost")
<1>1. run[r] \in RunRecords
  BY DEF TypeOK, RunRecords
<1>2. CASE run[r].by = m
  <2>1. run'[r] = [run[r] EXCEPT !.state = "lost"] /\ call'[r] = NoCalls
    BY <1>2 DEF Exit
  <2>2. run'[r].phase = run[r].phase /\ run'[r].state = "lost"
    BY <1>1, <2>1 DEF RunRecords
  <2>3. \A c \in Cells : call'[r][c] = "none"
    BY <2>1 DEF NoCalls
  <2>4. \A i \in Items, n \in Nodes : <<i, n>> \in Cells
    BY DEF Cells
  <2> QED
    BY <2>2, <2>3, <2>4 DEF Shaped, Advances, ListedTogether
<1>3. CASE run[r].by # m
  BY <1>3, UntouchedShape DEF Exit
<1> QED
  BY <1>2, <1>3

(* A run begins, or goes to its next phase with a list of calls to make.   *)
LEMMA GoingShape ==
    ASSUME TypeOK, RequestsInvariant, NEW r \in Runs,
           Load(r) \/ Created(r) \/ \E m \in Masters : Deliver(m, r)
    PROVE  \A q \in Runs : Shaped(q) /\ Silent(q)
<1>1. /\ run \in [Runs -> RunRecords] /\ run[r] \in RunRecords
      /\ call \in [Runs -> [Cells -> CallStates]]
  BY DEF TypeOK, RunRecords
<1>2. \A I : \A i \in Items, n, m \in Nodes :
         Listing(I)[<<i, n>>] = "unlisted" => Listing(I)[<<i, m>>] = "unlisted"
  BY DEF Listing, Cells
<1>3. \A c \in Cells : NoCalls[c] = "none" /\ \A I : Listing(I)[c] \in {"none", "unlisted"}
  BY DEF Listing, NoCalls
<1>4. \A i \in Items, n \in Nodes : <<i, n>> \in Cells
  BY DEF Cells
<1>5. CASE Load(r) \/ Created(r)
  <2>1. /\ run[r].state = "running" /\ run[r].phase \in {"load", "create"}
        /\ run'[r] = [run[r] EXCEPT !.phase = IF run[r].phase = "load" THEN "create" ELSE "start"]
        /\ \E I : call'[r] = Listing(I)
    BY <1>1, <1>5 DEF Load, Created, Running, Goes
  <2>2. /\ run'[r].phase = IF run[r].phase = "load" THEN "create" ELSE "start"
        /\ run'[r].state = run[r].state
    BY <1>1, <2>1 DEF RunRecords
  <2>3. run[r].state = "running" /\ Advances(r) /\ run'[r].phase # run[r].phase
        /\ run'[r].phase \notin {"free", "load"}
    BY <1>5, <2>2 DEF Load, Created, Running, Advances
  <2>4. Shaped(r) /\ Silent(r)
    BY <1>2, <1>3, <2>1, <2>2, <2>3 DEF Shaped, Silent, ListedTogether
  <2>5. \A q \in Runs : q # r => run'[q] = run[q] /\ call'[q] = call[q]
    BY <1>1, <1>5 DEF Load, Created, Goes
  <2> QED
    BY <2>4, <2>5, UntouchedShape
<1>6. ASSUME NEW m \in Masters, Deliver(m, r)
      PROVE  \A q \in Runs : Shaped(q) /\ Silent(q)
  <2>1. /\ run'[r] = [phase |-> IF app.op = "create" THEN "load" ELSE "remove",
                      state |-> "running", by |-> m]
        /\ run[r].phase = "free"
        /\ call'[r] = IF app.op = "create" THEN NoCalls ELSE Listing(Items)
    BY <1>1, <1>6 DEF Deliver, Begin
  <2>2. /\ run'[r].phase = IF app.op = "create" THEN "load" ELSE "remove"
        /\ run'[r].state = "running"
    BY <2>1
  <2>3. Advances(r)
    BY <2>1, <2>2 DEF Advances
  <2>4. app.op = "create" => Shaped(r) /\ Silent(r)
    BY <1>3, <1>4, <2>1, <2>2, <2>3 DEF Shaped, Silent, ListedTogether
  <2>5. app.op # "create" => Shaped(r) /\ Silent(r)
    BY <1>2, <1>3, <2>1, <2>2, <2>3 DEF Shaped, Silent, ListedTogether
  <2>6. \A q \in Runs : q # r => run'[q] = run[q] /\ call'[q] = call[q]
    BY <1>1, <1>6 DEF Deliver, Begin
  <2> QED
    BY <2>4, <2>5, <2>6, UntouchedShape
<1> QED
  BY <1>5, <1>6

(* Everything that was found has been removed: what is left to do asks     *)
(* nothing of the nodes.                                                   *)
LEMMA RemovedShape ==
    ASSUME TypeOK, RequestsInvariant, NEW r \in Runs, Removed(r)
    PROVE  \A q \in Runs : Shaped(q) /\ Silent(q)
<1>1. run \in [Runs -> RunRecords] /\ run[r] \in RunRecords
  BY DEF TypeOK, RunRecords
<1>2. /\ run'[r].phase = "purge" /\ run'[r].state = "running"
      /\ run[r].phase = "remove" /\ call' = call
  BY <1>1 DEF Removed, Running, Goes, RunRecords
<1>3. \A i \in Items, n \in Nodes : <<i, n>> \in Cells /\ call[r][<<i, n>>] # "unlisted"
  BY DEF Removed, AllFulfilled, Fulfilled, Cells
<1>4. \A c \in Cells : call[r][c] # "unlisted"
  BY DEF Removed, AllFulfilled, Fulfilled
<1>5. Shaped(r) /\ Silent(r)
  BY <1>2, <1>3, <1>4 DEF Shaped, Silent, Advances, ListedTogether, Served
<1>6. \A q \in Runs : q # r => run'[q] = run[q] /\ call'[q] = call[q]
  BY <1>1, <1>2 DEF Removed, Goes
<1> QED
  BY <1>5, <1>6, UntouchedShape

(* The nodes have been listed: every call that waited for the list is made *)
(* or dropped.                                                             *)
LEMMA ListShape ==
    ASSUME TypeOK, RunsAreFounded, RequestsInvariant, NEW r \in Runs, NEW i \in Items, List(r, i)
    PROVE  /\ \A q \in Runs : Shaped(q) /\ (q # r => Silent(q))
           /\ run' = run /\ done' = done
           /\ run[r].phase \in Served /\ run[r].state # "lost"
           /\ \A c \in Cells :
                IF c[1] = i
                THEN call[r][c] = "unlisted" /\ call'[r][c] \in {"none", "set", "look"}
                ELSE call'[r][c] = call[r][c]
<1>1. call \in [Runs -> [Cells -> CallStates]]
  BY DEF TypeOK
<1>2. PICK n \in Nodes : call[r][<<i, n>>] = "unlisted"
  BY DEF List
<1>3. \A c \in Cells : c[1] \in Items /\ c[2] \in Nodes /\ c = <<c[1], c[2]>>
  BY DEF Cells
<1>4. \A c \in Cells : c[1] = i => call[r][c] = "unlisted"
  BY <1>2, <1>3 DEF RequestsInvariant, ListedTogether
<1>5. \A c \in Cells : IF c[1] = i THEN call'[r][c] \in {"none", "set", "look"}
                       ELSE call'[r][c] = call[r][c]
  BY <1>1 DEF List
<1>6. run' = run /\ done' = done /\ run[r].state # "lost"
  BY DEF List, Alive
<1>7. run[r].phase \in Served
  <2>1. <<i, n>> \in Cells
    BY DEF Cells
  <2> QED
    BY <1>2, <2>1 DEF RunsAreFounded, Over
<1>8. \A j \in Items, k \in Nodes :
         <<j, k>> \in Cells /\ (call'[r][<<j, k>>] = "unlisted" <=>
                                  j # i /\ call[r][<<j, k>>] = "unlisted")
  BY <1>5 DEF Cells
<1>9. ListedTogether(r)'
  BY <1>8 DEF RequestsInvariant, ListedTogether
<1>10. Shaped(r)
  BY <1>5, <1>6, <1>7, <1>9 DEF Shaped, Advances, Served
<1>11. \A q \in Runs : q # r => run'[q] = run[q] /\ call'[q] = call[q]
  BY <1>1, <1>6 DEF List
<1> QED
  BY <1>4, <1>5, <1>6, <1>7, <1>10, <1>11, UntouchedShape

(* A call moves: nothing else about the runs does.                         *)
LEMMA MoveShape ==
    ASSUME TypeOK, RunsAreFounded, RequestsInvariant, NEW r \in Runs, NEW c \in Cells,
           CallMoves(r, c)
    PROVE  /\ \A q \in Runs : Shaped(q) /\ (q # r => Silent(q))
           /\ run' = run /\ done' = done
           /\ run[r].phase \in Served /\ run[r].state # "lost"
           /\ \A d \in Cells : d # c => call'[r][d] = call[r][d]
           /\ call'[r][c] # "unlisted"
<1>1. call \in [Runs -> [Cells -> CallStates]]
  BY DEF TypeOK
<1>2. /\ run' = run /\ done' = done /\ run[r].state # "lost"
      /\ call[r][c] \in {"look", "set", "wait", "del", "sync"}
      /\ \E t \in CallStates \ {"unlisted"} : CallGoes(r, c, t)
  BY DEF CallMoves, Look, Set, Sees, TimesOut, Delete, RequestFails, Accepted, Refused,
         CallStates, Alive
<1>3. PICK t \in CallStates \ {"unlisted"} : CallGoes(r, c, t)
  BY <1>2
<1>4. run[r].phase \in Served
  BY <1>2 DEF RunsAreFounded, Over
<1>5. /\ \A d \in Cells : d # c => call'[r][d] = call[r][d]
      /\ call'[r][c] \in {t, "none"}
      /\ \A q \in Runs : q # r => call'[q] = call[q]
  BY <1>1, <1>3 DEF CallGoes
<1>6. \A d \in Cells : call'[r][d] = "unlisted" <=> call[r][d] = "unlisted"
  BY <1>2, <1>5
<1>7. ListedTogether(r)'
  BY <1>6 DEF RequestsInvariant, ListedTogether, Cells
<1>8. Shaped(r)
  BY <1>2, <1>4, <1>6, <1>7 DEF Shaped, Advances, Served
<1> QED
  BY <1>2, <1>4, <1>5, <1>8, UntouchedShape

(* Every step leaves every run in shape, and is one of four kinds: a node  *)
(* answers; calls are made; a call moves; or some runs are lost, if any.   *)
Kept == \A r \in Runs : run'[r] = run[r] /\ call'[r] = call[r]
Loses == /\ done' = done
         /\ \A r \in Runs : Silent(r) \/ run'[r].state = "lost"
LEMMA StepShape ==
    ASSUME DeploymentInvariant, RequestsInvariant, Next
    PROVE  /\ \A r \in Runs : Shaped(r)
           /\ \/ Kept /\ \E c \in Cells, o \in Served : Answer(c, o)
              \/ \E r \in Runs, i \in Items : List(r, i)
              \/ \E r \in Runs, c \in Cells : CallMoves(r, c)
              \/ Loses
<1>0. /\ TypeOK /\ RunsAreFounded
      /\ run \in [Runs -> RunRecords] /\ call \in [Runs -> [Cells -> CallStates]]
  BY DEF DeploymentInvariant, TypeOK, RunRecords
<1> DEFINE Fine == (\A r \in Runs : Shaped(r)) /\ Loses
<1>1. ASSUME NEW r \in Runs, Load(r) \/ Created(r) \/ Removed(r) \/ \E m \in Masters : Deliver(m, r)
      PROVE  Fine
  <2>1. done' = done
    BY <1>1 DEF Load, Created, Removed, Deliver, Begin
  <2> QED
    BY <1>0, <1>1, <2>1, GoingShape, RemovedShape DEF Loses
<1>2. ASSUME NEW r \in Runs, NEW C \in [Cells -> CallStates], NEW W, SettleAmong(r, C, W),
             run[r].phase # "free", run[r].state = "running", done' = done,
             \A c \in Cells : C[c] \in {call[r][c], "none"},
             \A i \in Items, n, m \in Nodes :
                 C[<<i, n>>] = "unlisted" => C[<<i, m>>] = "unlisted"
      PROVE  Fine
  BY <1>0, <1>2, SettlingShape DEF Loses
<1>3. ASSUME NEW r \in Runs, NEW W, SettleAmong(r, call[r], W),
             run[r].phase # "free", run[r].state = "running", done' = done
      PROVE  Fine
  <2>1. call[r] \in [Cells -> CallStates]
    BY <1>0
  <2>2. \A i \in Items, n, m \in Nodes :
           call[r][<<i, n>>] = "unlisted" => call[r][<<i, m>>] = "unlisted"
    BY DEF RequestsInvariant, ListedTogether
  <2> QED
    BY <1>2, <1>3, <2>1, <2>2
<1>4. ASSUME NEW r \in Runs, Abort(r) \/ Started(r) \/ Purge(r)
      PROVE  Fine
  <2>1. run[r].phase # "free" /\ run[r].state = "running" /\ done' = done
    BY <1>4 DEF Abort, Rejects, Started, Purge, Running
  <2>2. \E W : SettleAmong(r, call[r], W)
    BY <1>4 DEF Abort, Started, Purge, Settle, SettleWith
  <2> QED
    BY <1>3, <2>1, <2>2
<1>5. ASSUME NEW r \in Runs, LoadFails(r)
      PROVE  Fine
  <2>1. run[r].phase = "load" /\ run[r].state = "running" /\ done' = done
    BY <1>5 DEF LoadFails, Running
  <2>2. CASE Settle(r)
    BY <1>3, <2>1, <2>2 DEF Settle, SettleWith
  <2>3. CASE ~Settle(r)
    <3>1. run' = [run EXCEPT ![r].state = "lost"] /\ call' = call
      BY <1>5, <2>3 DEF LoadFails
    <3>2. run'[r].phase = run[r].phase /\ run'[r].state = "lost"
      BY <1>0, <3>1 DEF RunRecords
    <3>3. \A c \in Cells : call[r][c] = "none"
      BY <2>1, NoCallsYet
    <3>4. ListedTogether(r)'
      BY <3>1 DEF RequestsInvariant, ListedTogether
    <3>5. Shaped(r)
      BY <3>1, <3>2, <3>3, <3>4 DEF Shaped, Advances
    <3>6. \A q \in Runs : q # r => run'[q] = run[q] /\ call'[q] = call[q]
      BY <1>0, <3>1
    <3> QED
      BY <2>1, <3>2, <3>5, <3>6, UntouchedShape DEF Loses
  <2> QED
    BY <2>2, <2>3
<1>6. ASSUME NEW r \in Runs, NEW i \in Items, ListFails(r, i)
      PROVE  Fine
  <2> DEFINE rest == [c \in Cells |-> IF c[1] = i THEN "none" ELSE call[r][c]]
  <2>1. rest \in [Cells -> CallStates] /\ \A c \in Cells : rest[c] \in {call[r][c], "none"}
    BY <1>0 DEF CallStates
  <2>2. \A j \in Items, n \in Nodes :
           <<j, n>> \in Cells /\ rest[<<j, n>>] = IF j = i THEN "none" ELSE call[r][<<j, n>>]
    BY DEF Cells
  <2>3. \A j \in Items, n, m \in Nodes :
           rest[<<j, n>>] = "unlisted" => rest[<<j, m>>] = "unlisted"
    BY <2>2 DEF RequestsInvariant, ListedTogether
  <2>4. done' = done /\ run[r].phase # "free" /\ run[r].state # "lost"
    BY <1>6 DEF ListFails, Alive
  <2>5. CASE run[r].state = "running" /\ SettleWith(r, rest)
    <3>1. SettleAmong(r, rest, writers)
      BY <2>5 DEF SettleWith
    <3> HIDE DEF rest
    <3> QED
      BY <1>2, <2>1, <2>3, <2>4, <2>5, <3>1
  <2>6. CASE call' = [call EXCEPT ![r] = rest] /\ UNCHANGED run
    <3>1. call'[r] = rest
      BY <1>0, <2>6
    <3>2. ListedTogether(r)'
      BY <2>3, <3>1 DEF ListedTogether
    <3>3. Shaped(r) /\ Silent(r)
      BY <2>1, <2>4, <2>6, <3>1, <3>2, NoCallsYet DEF Shaped, Silent, Advances
    <3>4. \A q \in Runs : q # r => run'[q] = run[q] /\ call'[q] = call[q]
      BY <1>0, <2>6
    <3> QED
      BY <2>4, <3>3, <3>4, UntouchedShape DEF Loses
  <2> QED
    BY <1>6, <2>5, <2>6 DEF ListFails
<1>7. ASSUME NEW m, Exit(m), done' = done
      PROVE  Fine
  BY <1>0, <1>7, ExitShape DEF Loses
<1>8. ASSUME run' = run, call' = call
      PROVE  Kept /\ \A r \in Runs : Shaped(r) /\ Silent(r)
  BY <1>8, UntouchedShape DEF Kept
<1>9. CASE \/ InstallApp \/ UninstallApp
           \/ \E w \in writers : Flag(w) \/ FlagFails(w)
           \/ \E c \in Cells : PickUp(c)
           \/ \E t \in serving : FlagKey(t) \/ FlagKeyFails(t)
           \/ \E n \in Nodes : NodeComesOrGoes(n)
  <2>1. run' = run /\ call' = call /\ done' = done
    BY <1>9 DEF InstallApp, UninstallApp, Flag, FlagFails, PickUp, FlagKey,
              FlagKeyFails, NodeComesOrGoes
  <2> QED
    BY <1>8, <2>1 DEF Loses
<1>10. CASE \E c \in Cells, o \in Served : Answer(c, o)
  <2>1. run' = run /\ call' = call
    BY <1>10 DEF Answer
  <2> QED
    BY <1>8, <1>10, <2>1
<1>11. CASE \E r \in Runs : RunStep(r) \/ LoadFails(r)
  <2>1. PICK r \in Runs : RunStep(r) \/ LoadFails(r)
    BY <1>11
  <2>2. CASE \E i \in Items : List(r, i)
    BY <1>0, <2>2, ListShape
  <2> QED
    BY <1>1, <1>4, <1>5, <1>6, <2>1, <2>2 DEF RunStep
<1>12. CASE \E r \in Runs, c \in Cells : CallStep(r, c) \/ RequestFails(r, c)
  <2>1. PICK r \in Runs, c \in Cells : CallStep(r, c) \/ RequestFails(r, c)
    BY <1>12
  <2>2. CASE SeesNothing(r, c)
    BY <1>7, <2>2 DEF SeesNothing
  <2>3. CASE CallMoves(r, c)
    BY <1>0, <2>3, MoveShape
  <2> QED
    BY <2>1, <2>2, <2>3 DEF CallStep, CallMoves
<1>13. CASE \E r \in Runs : \E m \in Masters : Deliver(m, r)
  BY <1>1, <1>13
<1>14. CASE \E m \in Masters : Crash(m)
  BY <1>7, <1>14 DEF Crash
<1> QED
  BY <1>9, <1>10, <1>11, <1>12, <1>13, <1>14 DEF Next

(***************************************************************************)
(* What the callers are told.                                              *)
(***************************************************************************)
(* They are told something, and what was asked stays asked.                *)
LEMMA HeardTyped ==
    ASSUME RequestsInvariant, NEW q \in AllRequests
    PROVE  /\ Heard(q, run', call') \in {"idle", "waiting", "acknowledged", "failed"}
           /\ told[q] # "idle" => Heard(q, run', call') # "idle"
BY DEF RequestsInvariant, Heard

(* Silence tells nothing.                                                  *)
LEMMA SilentTells ==
    ASSUME RequestsInvariant, NEW q \in AllRequests,
           run'[q.by].state = "lost" => run[q.by].state = "lost",
           \/ call'[q.by][q.key] \in {"none", "unlisted"}
           \/ run'[q.by].phase \notin Served
           \/ run'[q.by].phase = run[q.by].phase /\ call'[q.by][q.key] = call[q.by][q.key]
    PROVE  Heard(q, run', call') = told[q]
<1>1. q.key \in Cells /\ q.by \in Runs /\ q.op \in Served /\ CallIsTold(q)
  BY RequestFields DEF RequestsInvariant
<1>2. told[q] \in {"idle", "waiting", "acknowledged", "failed"}
  BY DEF RequestsInvariant
<1>3. CASE run'[q.by].state = "lost"
  BY <1>1, <1>3 DEF Heard, CallIsTold
<1>4. CASE run'[q.by].state # "lost" /\ run'[q.by].phase = q.op
  <2>1. CASE call'[q.by][q.key] \in {"none", "unlisted"}
    BY <1>4, <2>1 DEF Heard, UnderWay
  <2>2. CASE call'[q.by][q.key] \notin {"none", "unlisted"}
    <3>1. run[q.by].phase = q.op /\ call'[q.by][q.key] = call[q.by][q.key]
      BY <1>1, <1>4, <2>2
    <3> QED
      BY <1>1, <1>2, <1>4, <3>1 DEF Heard, CallIsTold
  <2> QED
    BY <2>1, <2>2
<1> QED
  BY <1>3, <1>4 DEF Heard

(* What is known of a call is what the picture of it says, once more.      *)
LEMMA ToldStays ==
    ASSUME RequestsInvariant, NEW q \in AllRequests, Shaped(q.by),
           told'[q] = Heard(q, run', call')
    PROVE  CallIsTold(q)'
<1> DEFINE p == run[q.by].phase
           s == call[q.by][q.key]
<1>1. q.key \in Cells /\ q.by \in Runs /\ q.op \in Served /\ CallIsTold(q)
  BY RequestFields DEF RequestsInvariant
<1>2. told[q] \in {"idle", "waiting", "acknowledged", "failed"}
  BY DEF RequestsInvariant
<1>3. TooEarly(p', q.op) => told'[q] = "idle"
  <2> SUFFICES ASSUME TooEarly(p', q.op)
               PROVE  told'[q] = "idle"
    OBVIOUS
  <2>1. TooEarly(p, q.op)
    BY <1>1 DEF Shaped, Advances, Served, TooEarly
  <2>2. told[q] = "idle"
    BY <1>1, <2>1 DEF CallIsTold
  <2>3. p' # q.op
    BY <1>1 DEF Served, TooEarly
  <2> QED
    BY <2>2, <2>3 DEF Heard
<1>4. p' \in {"free", "load"} => s' = "none"
  BY <1>1 DEF Shaped
<1>5. run'[q.by].state = "lost" => told'[q] # "waiting" /\ s' = "none"
  BY <1>1 DEF Shaped, Heard
<1>6. ASSUME p' = q.op, s' = "unlisted"
      PROVE  told'[q] = "idle"
  <2>1. told'[q] = told[q]
    BY <1>5, <1>6 DEF Heard, UnderWay
  <2>2. p' # p \/ s = "unlisted"
    BY <1>1, <1>6 DEF Shaped
  <2>3. told[q] = "idle"
    BY <1>1, <1>6, <2>2 DEF Shaped, Advances, CallIsTold, Served, TooEarly
  <2> QED
    BY <2>1, <2>3
<1>7. ASSUME p' = q.op
      PROVE  /\ s' \in UnderWay => told'[q] = "waiting"
             /\ s' \in {"sync", "ok"} => told'[q] = "acknowledged"
             /\ s' \in {"failed", "late"} =>
                  told'[q] = "failed" \/ (q.op = "remove" /\ told'[q] = "acknowledged")
  BY <1>5, <1>7 DEF Heard, UnderWay
<1> QED
  BY <1>3, <1>4, <1>5, <1>6, <1>7 DEF CallIsTold

(* What was asked stays asked.                                             *)
LEMMA AskedStays ==
    ASSUME RequestsInvariant, ToldNext, NEW c \in Cells, NEW o \in Served, WasAsked(c, o)
    PROVE  WasAsked(c, o)'
<1>1. PICK r \in Runs : told[Request(r, c, o)] # "idle"
  BY DEF WasAsked
<1>2. Request(r, c, o) \in AllRequests
  BY RequestFields
<1>3. told'[Request(r, c, o)] # "idle"
  BY <1>1, <1>2, HeardTyped DEF ToldNext
<1> QED
  BY <1>3 DEF WasAsked

(* What a step writes into an entry, and what the nodes serve after it:    *)
(* the request of a call, what they serve already, or what an entry says.  *)
Written(c) ==
    \/ cell'[c] \in {cell[c], Absent}
    \/ \E t \in serving : t.cell = c /\ cell'[c].op = t.op
    \/ \E r \in Runs : call[r][c] = "set" /\ cell'[c].op = run[r].phase
Taken(s) ==
    \/ \E t \in serving : s.cell = t.cell /\ s.op = t.op
    \/ s.cell \in Cells /\ cell[s.cell] # Absent /\ s.op = cell[s.cell].op

(* The request of a call is written, or an entry deleted.                  *)
LEMMA ChangesShape ==
    ASSUME TypeOK, NEW r \in Runs, NEW c \in Cells,
           (call[r][c] = "set" /\ Write(c, run[r].phase)) \/ Erase(c)
    PROVE  (\A d \in Cells : Written(d)) /\ (\A s \in serving' : Taken(s))
<1>0. cell \in [Cells -> Entries] /\ serving \subseteq Tasks
  BY DEF TypeOK
<1>1. CASE call[r][c] = "set" /\ Write(c, run[r].phase)
  <2>1. serving' = serving /\ cell'[c].op = run[r].phase
        /\ \A d \in Cells : d # c => cell'[d] = cell[d]
    BY <1>0, <1>1 DEF Write, Entry
  <2> QED
    BY <1>1, <2>1 DEF Written, Taken
<1>2. CASE Erase(c)
  <2>1. \A d \in Cells : cell'[d] \in {cell[d], Absent}
    BY <1>0, <1>2 DEF Erase
  <2>2. \A s \in serving' : \E t \in serving : s.cell = t.cell /\ s.op = t.op
    BY <1>0, <1>2 DEF Erase, Tasks
  <2> QED
    BY <2>1, <2>2 DEF Written, Taken
<1> QED
  BY <1>1, <1>2

LEMMA EntrySteps ==
    ASSUME TypeOK, Next
    PROVE  (\A c \in Cells : Written(c)) /\ (\A s \in serving' : Taken(s))
<1> DEFINE Goal == (\A c \in Cells : Written(c)) /\ (\A s \in serving' : Taken(s))
<1>0. cell \in [Cells -> Entries] /\ serving \subseteq Tasks
  BY DEF TypeOK
<1>1. ASSUME UNCHANGED <<cell, serving>>
      PROVE  Goal
  BY <1>1 DEF Written, Taken
<1>2. ASSUME NEW c \in Cells, PickUp(c)
      PROVE  Goal
  <2>1. cell[c] # Absent /\ cell' = cell
    BY <1>2 DEF PickUp, Absent
  <2>2. \A s \in serving' : s \in serving \/ (s.cell = c /\ s.op = cell[c].op)
    BY <1>2 DEF PickUp, Task
  <2> QED
    BY <2>1, <2>2 DEF Written, Taken
<1>3. ASSUME NEW c \in Cells, NEW o \in Served, Answer(c, o)
      PROVE  Goal
  <2>1. cell' = cell
    BY <1>3 DEF Answer
  <2>2. PICK s : serving' = (serving \ {Task(c, o, "handler")}) \union {Task(c, o, s)}
    BY <1>3 DEF Answer
  <2>3. Task(c, o, "handler") \in serving /\ Task(c, o, s).cell = Task(c, o, "handler").cell
        /\ Task(c, o, s).op = Task(c, o, "handler").op
    BY <1>3 DEF Answer, Task
  <2> QED
    BY <2>1, <2>2, <2>3 DEF Written, Taken
<1>4. ASSUME NEW t \in serving, FlagKey(t) \/ FlagKeyFails(t)
      PROVE  Goal
  <2>1. serving' \subseteq serving
    BY <1>4 DEF FlagKey, FlagKeyFails
  <2>2. \A d \in Cells : cell'[d] = cell[d] \/ (d = t.cell /\ cell'[d].op = t.op)
    BY <1>0, <1>4 DEF FlagKey, FlagKeyFails, Entry
  <2> QED
    BY <2>1, <2>2 DEF Written, Taken
<1>5. CASE \/ \E r \in Runs : RunStep(r) \/ LoadFails(r)
           \/ InstallApp \/ UninstallApp
           \/ \E w \in writers : Flag(w) \/ FlagFails(w)
           \/ \E r \in Runs : \E m \in Masters : Deliver(m, r)
           \/ \E n \in Nodes : NodeComesOrGoes(n)
           \/ \E m \in Masters : Crash(m)
  <2>1. UNCHANGED <<cell, serving>>
    BY <1>5 DEF RunStep, LoadFails, Load, Abort, Created, Started, Removed, Purge, List,
         ListFails, InstallApp, UninstallApp, Flag, FlagFails, Deliver, Begin,
         NodeComesOrGoes, Crash
  <2> QED
    BY <1>1, <2>1
<1>6. ASSUME NEW r \in Runs, NEW c \in Cells, CallStep(r, c) \/ RequestFails(r, c)
      PROVE  \/ UNCHANGED <<cell, serving>> \/ Erase(c)
             \/ call[r][c] = "set" /\ Write(c, run[r].phase)
  BY <1>6 DEF CallStep, RequestFails, Look, Set, Sees, TimesOut, Delete, SeesNothing
<1>7. ASSUME NEW r \in Runs, NEW c \in Cells, CallStep(r, c) \/ RequestFails(r, c)
      PROVE  Goal
  BY <1>1, <1>6, <1>7, ChangesShape
<1>8. CASE \E r \in Runs, c \in Cells : CallStep(r, c) \/ RequestFails(r, c)
  BY <1>7, <1>8
<1>9. CASE \E c \in Cells : PickUp(c) \/ \E o \in Served : Answer(c, o)
  BY <1>2, <1>3, <1>9
<1>10. CASE \E t \in serving : FlagKey(t) \/ FlagKeyFails(t)
  BY <1>4, <1>10
<1>11. Next => \/ \E r \in Runs : RunStep(r) \/ LoadFails(r)
               \/ InstallApp \/ UninstallApp
               \/ \E w \in writers : Flag(w) \/ FlagFails(w)
               \/ \E r \in Runs : \E m \in Masters : Deliver(m, r)
               \/ \E n \in Nodes : NodeComesOrGoes(n)
               \/ \E m \in Masters : Crash(m)
               \/ \E r \in Runs, c \in Cells : CallStep(r, c) \/ RequestFails(r, c)
               \/ \E c \in Cells : PickUp(c) \/ \E o \in Served : Answer(c, o)
               \/ \E t \in serving : FlagKey(t) \/ FlagKeyFails(t)
  BY Zenon DEF Next
<1> QED
  BY <1>5, <1>8, <1>9, <1>10, <1>11

(* Requests on the keys were made by some run, and so were those that the  *)
(* nodes serve.                                                            *)
LEMMA RequestsAreAsked ==
    ASSUME DeploymentInvariant, RequestsInvariant, ToldNext
    PROVE  /\ \A c \in Cells : cell'[c] # Absent => WasAsked(c, cell[c].op)'
           /\ \A t \in serving' : WasAsked(t.cell, t.op)'
<1>0. TypeOK /\ RunsAreFounded /\ Next
  BY DEF DeploymentInvariant, ToldNext
<1>1. \A c \in Cells : cell[c] # Absent => cell[c].op \in Served
  BY <1>0 DEF TypeOK, Entries
<1>2. \A t \in serving : t.cell \in Cells /\ t.op \in Served
  BY <1>0 DEF TypeOK, Tasks
<1>3. ASSUME NEW r \in Runs, NEW c \in Cells, call[r][c] = "set"
      PROVE  run[r].phase \in Served /\ WasAsked(c, run[r].phase)
  <2> DEFINE q == Request(r, c, run[r].phase)
  <2>1. run[r].phase \in Served
    BY <1>0, <1>3 DEF RunsAreFounded, Over
  <2>2. q \in AllRequests /\ q.by = r /\ q.key = c /\ q.op = run[r].phase
    BY <2>1, RequestFields
  <2>3. CallIsTold(q)
    BY <2>2 DEF RequestsInvariant
  <2>4. told[q] = "waiting"
    BY <1>3, <2>2, <2>3 DEF CallIsTold, UnderWay
  <2> QED
    BY <2>1, <2>4 DEF WasAsked
<1>4. ASSUME NEW c \in Cells, cell'[c] # Absent
      PROVE  WasAsked(c, cell[c].op)'
  <2>1. CASE cell'[c] = cell[c]
    BY <1>1, <1>4, <2>1, AskedStays DEF RequestsInvariant
  <2>2. CASE \E t \in serving : t.cell = c /\ cell'[c].op = t.op
    <3>1. PICK t \in serving : t.cell = c /\ cell'[c].op = t.op
      BY <2>2
    <3>2. WasAsked(c, t.op) /\ t.op \in Served
      BY <1>2, <3>1 DEF RequestsInvariant
    <3>3. WasAsked(c, t.op)'
      BY <3>2, AskedStays
    <3> QED
      BY <3>1, <3>3 DEF WasAsked
  <2>3. CASE \E r \in Runs : call[r][c] = "set" /\ cell'[c].op = run[r].phase
    <3>1. PICK r \in Runs : call[r][c] = "set" /\ cell'[c].op = run[r].phase
      BY <2>3
    <3> DEFINE o == run[r].phase
    <3>2. o \in Served /\ WasAsked(c, o)
      BY <1>3, <3>1
    <3>3. PICK p \in Runs : told'[Request(p, c, o)] # "idle"
      <4>1. PICK p \in Runs : told[Request(p, c, o)] # "idle"
        BY <3>2 DEF WasAsked
      <4>2. Request(p, c, o) \in AllRequests
        BY <3>2, RequestFields
      <4> QED
        BY <4>1, <4>2, HeardTyped DEF ToldNext
    <3> QED
      BY <3>1, <3>3 DEF WasAsked
  <2> QED
    BY <1>0, <1>4, <2>1, <2>2, <2>3, EntrySteps DEF Written
<1>5. ASSUME NEW s \in serving'
      PROVE  WasAsked(s.cell, s.op)'
  <2>1. s.cell \in Cells /\ s.op \in Served /\ WasAsked(s.cell, s.op)
    BY <1>0, <1>1, <1>2, EntrySteps DEF RequestsInvariant, Taken
  <2>2. PICK p \in Runs : told[Request(p, s.cell, s.op)] # "idle"
    BY <2>1 DEF WasAsked
  <2>3. Request(p, s.cell, s.op) \in AllRequests
    BY <2>1, RequestFields
  <2>4. told'[Request(p, s.cell, s.op)] # "idle"
    BY <2>2, <2>3, HeardTyped DEF ToldNext
  <2> QED
    BY <2>4 DEF WasAsked
<1> QED
  BY <1>4, <1>5

(* A step keeps what is known of the calls.                                *)
LEMMA ToldStepKeeps ==
    ASSUME DeploymentInvariant, RequestsInvariant, ToldNext
    PROVE  RequestsInvariant'
<1>1. \A r \in Runs : Shaped(r)
  BY StepShape DEF ToldNext
<1>2. told' \in [AllRequests -> {"idle", "waiting", "acknowledged", "failed"}]
  BY HeardTyped DEF ToldNext
<1>3. ASSUME NEW q \in AllRequests
      PROVE  CallIsTold(q)'
  <2>1. q.by \in Runs
    BY RequestFields
  <2>2. told'[q] = Heard(q, run', call')
    BY DEF ToldNext
  <2> QED
    BY <1>1, <2>1, <2>2, ToldStays
<1>4. \A r \in Runs : ListedTogether(r)'
  BY <1>1 DEF Shaped
<1> QED
  BY <1>2, <1>3, <1>4, RequestsAreAsked DEF RequestsInvariant

(***************************************************************************)
(* The steps of the contract.                                              *)
(***************************************************************************)
(* Told as before: a function is known by its values.                      *)
LEMMA ToldAsBefore ==
    ASSUME RequestsInvariant, ToldNext, \A q \in AllRequests : told'[q] = told[q]
    PROVE  told' = told
<1>1. told \in [AllRequests -> {"idle", "waiting", "acknowledged", "failed"}]
  BY DEF RequestsInvariant
<1>2. told' = [q \in AllRequests |-> told'[q]]
  BY DEF ToldNext
<1>3. told = [q \in AllRequests |-> told[q]]
  BY <1>1
<1> QED
  BY <1>2, <1>3

(* Runs that are lost fail the calls that wait.                            *)
LEMMA LossRefines ==
    ASSUME RequestsInvariant, ToldNext, Loses
    PROVE  Contract!Next
<1> DEFINE S == {q \in AllRequests : run'[q.by].state = "lost" /\ told[q] = "waiting"}
<1>1. ASSUME NEW q \in AllRequests
      PROVE  Heard(q, run', call') = IF q \in S THEN "failed" ELSE told[q]
  <2>1. q.by \in Runs /\ q.key \in Cells
    BY RequestFields
  <2>2. CASE run'[q.by].state = "lost"
    BY <2>2 DEF Heard
  <2>3. CASE run'[q.by].state # "lost"
    <3>1. Silent(q.by)
      BY <2>1, <2>3 DEF Loses
    <3>2. Heard(q, run', call') = told[q]
      BY <2>1, <3>1, SilentTells DEF Silent
    <3> QED
      BY <2>3, <3>2
  <2> QED
    BY <2>2, <2>3
<1>2. told' = [q \in AllRequests |-> IF q \in S THEN "failed" ELSE told[q]]
  BY <1>1 DEF ToldNext
<1>3. Contract!Fail(S)
  BY <1>2 DEF Contract!Fail, Loses
<1> QED
  BY <1>3 DEF Contract!Next

(* The calls of a list that arrives are made at once.                      *)
LEMMA ListRefines ==
    ASSUME TypeOK, RunsAreFounded, RequestsInvariant, ToldNext,
           NEW r \in Runs, NEW i \in Items, List(r, i)
    PROVE  Contract!Next
<1> DEFINE S == {q \in AllRequests : /\ q.by = r /\ q.key[1] = i /\ q.op = run[r].phase
                                     /\ call'[r][q.key] \in {"set", "look"}}
<1>1. /\ \A q \in Runs : q # r => Silent(q)
      /\ run' = run /\ done' = done
      /\ run[r].phase \in Served /\ run[r].state # "lost"
      /\ \A c \in Cells :
           IF c[1] = i
           THEN call[r][c] = "unlisted" /\ call'[r][c] \in {"none", "set", "look"}
           ELSE call'[r][c] = call[r][c]
  BY ListShape
<1>2. ASSUME NEW q \in S
      PROVE  told[q] = "idle" /\ Heard(q, run', call') = "waiting"
  <2>1. q.key \in Cells /\ CallIsTold(q)
    BY RequestFields DEF RequestsInvariant
  <2> QED
    BY <1>1, <2>1 DEF CallIsTold, Heard, UnderWay
<1>3. ASSUME NEW q \in AllRequests, q \notin S
      PROVE  Heard(q, run', call') = told[q]
  <2>1. q.by \in Runs /\ q.key \in Cells
    BY RequestFields
  <2>2. CASE q.by # r
    BY <1>1, <2>1, <2>2, SilentTells DEF Silent
  <2>3. CASE q.by = r /\ q.op # run[r].phase
    BY <1>1, <2>3 DEF Heard
  <2>4. CASE q.by = r /\ q.op = run[r].phase
    <3>1. call'[r][q.key] = "none" \/ call'[r][q.key] = call[r][q.key]
      BY <1>1, <1>3, <2>1, <2>4
    <3> QED
      BY <1>1, <2>4, <3>1, SilentTells
  <2> QED
    BY <2>2, <2>3, <2>4
<1>4. told' = [q \in AllRequests |-> IF q \in S THEN "waiting" ELSE told[q]]
  BY <1>2, <1>3 DEF ToldNext
<1> HIDE DEF S
<1>5. Contract!Ask(S)
  BY <1>1, <1>2, <1>4 DEF Contract!Ask
<1>6. S \in SUBSET AllRequests
  BY DEF S
<1> QED
  BY <1>5, <1>6 DEF Contract!Next

(* A call that is answered with success has been carried out.              *)
LEMMA AnswersAreCarried ==
    ASSUME DeploymentInvariant, NEW r \in Runs, NEW c \in Cells, CallMoves(r, c),
           call'[r][c] \in {"sync", "ok"}
    PROVE  <<c, run[r].phase>> \in done
<1>0. TypeOK /\ OutcomesAreServed /\ CallsAreFounded
  BY DEF DeploymentInvariant
<1>1. ASSUME NEW t, CallGoes(r, c, t)
      PROVE  t \in {"sync", "ok"}
  BY <1>0, <1>1 DEF TypeOK, CallGoes
<1>2. CASE Sees(r, c)
  <2>1. CallGoes(r, c, Accepted(r)) /\ cell[c].op = run[r].phase /\ cell[c].st = "OK"
    BY <1>1, <1>2 DEF Sees, Refused
  <2> QED
    BY <1>0, <2>1 DEF OutcomesAreServed
<1>3. CASE Delete(r, c)
  BY <1>0, <1>3 DEF Delete, CallsAreFounded
<1>4. CASE Look(r, c) \/ Set(r, c) \/ TimesOut(r, c) \/ RequestFails(r, c)
  <2>1. \E u \in {"failed", "late", "hung", "set", "wait"} : CallGoes(r, c, u)
    BY <1>4 DEF Look, Set, TimesOut, RequestFails
  <2> QED
    BY <1>1, <2>1
<1> QED
  BY <1>2, <1>3, <1>4 DEF CallMoves

(* A call that moves is acknowledged, fails, or waits on.                  *)
LEMMA CallMoveRefines ==
    ASSUME DeploymentInvariant, RequestsInvariant, ToldNext,
           NEW r \in Runs, NEW c \in Cells, CallMoves(r, c)
    PROVE  [Contract!Next]_Contract!vars
<1> DEFINE q == Request(r, c, run[r].phase)
<1>0. TypeOK /\ RunsAreFounded /\ CallsAreFounded
  BY DEF DeploymentInvariant
<1>1. /\ \A p \in Runs : p # r => Silent(p)
      /\ run' = run /\ done' = done
      /\ run[r].phase \in Served /\ run[r].state # "lost"
      /\ \A d \in Cells : d # c => call'[r][d] = call[r][d]
      /\ call'[r][c] # "unlisted"
  BY <1>0, MoveShape
<1>2. q \in AllRequests /\ q.by = r /\ q.key = c /\ q.op = run[r].phase
  BY <1>1, RequestFields
<1>3. ASSUME NEW p \in AllRequests, p # q
      PROVE  told'[p] = told[p]
  <2>1. p.by \in Runs /\ p.key \in Cells /\ p = Request(p.by, p.key, p.op)
    BY RequestFields
  <2>2. told'[p] = Heard(p, run', call')
    BY DEF ToldNext
  <2>3. CASE p.by # r
    BY <1>1, <2>1, <2>2, <2>3, SilentTells DEF Silent
  <2>4. CASE p.by = r /\ p.op # run[r].phase
    BY <1>1, <2>2, <2>4 DEF Heard
  <2>5. CASE p.by = r /\ p.op = run[r].phase
    <3>1. p.key # c
      BY <1>3, <2>1, <2>5
    <3> QED
      BY <1>1, <2>1, <2>2, <2>5, <3>1, SilentTells
  <2> QED
    BY <2>3, <2>4, <2>5
<1>4. told'[q] = Heard(q, run', call') /\ CallIsTold(q)
  BY <1>2 DEF ToldNext, RequestsInvariant
<1>5. call[r][c] \in {"look", "set", "wait", "del", "sync"}
  BY DEF CallMoves, Look, Set, Sees, TimesOut, Delete, RequestFails
<1> HIDE DEF q
<1>6. CASE call[r][c] = "sync"
  <2>1. q.op = "remove" /\ told[q] = "acknowledged"
    BY <1>0, <1>2, <1>4, <1>6 DEF CallsAreFounded, CallIsTold
  <2>2. call'[r][c] \in {"ok", "failed", "none"}
    BY <1>0, <1>6 DEF CallMoves, Look, Set, Sees, TimesOut, Delete, RequestFails, CallGoes,
                      TypeOK
  <2>3. told'[q] = told[q]
    BY <1>1, <1>2, <1>4, <2>1, <2>2 DEF Heard, UnderWay
  <2>4. told' = told
    BY <1>3, <2>3, ToldAsBefore
  <2> QED
    BY <1>1, <2>4 DEF Contract!vars
<1>7. CASE call[r][c] # "sync"
  <2>1. told[q] = "waiting"
    BY <1>2, <1>4, <1>5, <1>7 DEF CallIsTold, UnderWay
  <2>2. told \in [AllRequests -> {"idle", "waiting", "acknowledged", "failed"}]
        /\ told' = [p \in AllRequests |-> told'[p]]
    BY DEF RequestsInvariant, ToldNext
  <2>3. CASE call'[r][c] \in {"sync", "ok"}
    <3>1. told'[q] = "acknowledged"
      BY <1>1, <1>2, <1>4, <2>3 DEF Heard
    <3>2. Contract!Carried(q)
      BY <1>2, <2>3, AnswersAreCarried DEF Contract!Carried
    <3>3. told' = [told EXCEPT ![q] = "acknowledged"]
      BY <1>2, <1>3, <2>2, <3>1
    <3>4. Contract!Acknowledge(q)
      BY <1>1, <2>1, <3>2, <3>3 DEF Contract!Acknowledge
    <3> QED
      BY <1>2, <3>4 DEF Contract!Next
  <2>4. CASE call'[r][c] \in {"failed", "late"}
    <3>1. told'[q] = "failed"
      BY <1>1, <1>2, <1>4, <2>1, <2>4 DEF Heard
    <3>2. told' = [p \in AllRequests |-> IF p \in {q} THEN "failed" ELSE told[p]]
      BY <1>3, <2>2, <3>1
    <3>3. Contract!Fail({q})
      BY <1>1, <2>1, <3>2 DEF Contract!Fail
    <3>4. {q} \in SUBSET AllRequests
      BY <1>2
    <3> QED
      BY <3>3, <3>4 DEF Contract!Next
  <2>5. CASE call'[r][c] \notin {"sync", "ok", "failed", "late"}
    <3>1. told'[q] = told[q]
      BY <1>1, <1>2, <1>4, <2>1, <2>5 DEF Heard
    <3>2. told' = told
      BY <1>3, <3>1, ToldAsBefore
    <3> QED
      BY <1>1, <3>2 DEF Contract!vars
  <2> QED
    BY <2>3, <2>4, <2>5
<1> QED
  BY <1>6, <1>7

(* A node answers: a request that some run made is carried out, or failed. *)
LEMMA AnswerRefines ==
    ASSUME DeploymentInvariant, RequestsInvariant, ToldNext, Kept,
           NEW c \in Cells, NEW o \in Served, Answer(c, o)
    PROVE  [Contract!Next]_Contract!vars
<1>1. ASSUME NEW q \in AllRequests
      PROVE  told'[q] = told[q]
  <2>1. q.by \in Runs /\ q.key \in Cells
    BY RequestFields
  <2>2. Silent(q.by)
    BY <2>1, UntouchedShape DEF Kept
  <2>3. told'[q] = Heard(q, run', call')
    BY DEF ToldNext
  <2> QED
    BY <2>1, <2>2, <2>3, SilentTells DEF Silent
<1>2. told' = told
  BY <1>1, ToldAsBefore
<1>3. Task(c, o, "handler") \in serving /\ (done' = done \/ done' = done \union {<<c, o>>})
  BY DEF Answer
<1>4. WasAsked(c, o)
  BY <1>3 DEF RequestsInvariant, Task
<1>5. PICK r \in Runs : told[Request(r, c, o)] # "idle"
  BY <1>4 DEF WasAsked
<1>6. /\ Request(r, c, o) \in AllRequests
      /\ Request(r, c, o).key = c /\ Request(r, c, o).op = o
  BY RequestFields
<1>7. CASE done' = done
  BY <1>2, <1>7 DEF Contract!vars
<1>8. CASE done' = done \union {<<c, o>>}
  <2>1. Contract!Serve(Request(r, c, o))
    BY <1>2, <1>5, <1>6, <1>8 DEF Contract!Serve
  <2> QED
    BY <1>6, <2>1 DEF Contract!Next
<1> QED
  BY <1>3, <1>7, <1>8

(***************************************************************************)
(* The theorems.                                                           *)
(***************************************************************************)
(* The history changes nothing: what AppDeployment does with it, it does   *)
(* without.                                                                *)
THEOREM ToldImplementsDeployment == ToldSpec => Spec
<1>1. ToldInit => Init
  BY DEF ToldInit
<1>2. [ToldNext]_toldVars => [Next]_vars
  BY DEF ToldNext, toldVars
<1> QED
  BY <1>1, <1>2, PTL DEF ToldSpec, Spec

(* In every reachable state the picture that a run has of a call is what   *)
(* its caller was told, and every request on a key, or being served, was   *)
(* made by a run.                                                          *)
THEOREM RequestsCorrect == ToldSpec => []RequestsInvariant
<1>1. ToldInit => RequestsInvariant
  <2> SUFFICES ASSUME ToldInit
               PROVE  RequestsInvariant
    OBVIOUS
  <2>1. told = [q \in AllRequests |-> "idle"] /\ serving = {}
    BY DEF ToldInit, Init
  <2>2. \A r \in Runs, c \in Cells :
           run[r].phase = "free" /\ run[r].state = "running" /\ call[r][c] = "none"
    BY DEF ToldInit, Init, FreeRun, NoCalls
  <2>3. \A c \in Cells : cell[c] = Absent
    BY DEF ToldInit, Init
  <2>4. ASSUME NEW q \in AllRequests
        PROVE  CallIsTold(q)
    BY <2>1, <2>2, RequestFields DEF CallIsTold, Served
  <2>5. \A r \in Runs : ListedTogether(r)
    BY <2>2 DEF ListedTogether, Cells
  <2> QED
    BY <2>1, <2>3, <2>4, <2>5 DEF RequestsInvariant
<1>2. DeploymentInvariant /\ RequestsInvariant /\ [ToldNext]_toldVars => RequestsInvariant'
  <2> SUFFICES ASSUME DeploymentInvariant, RequestsInvariant, [ToldNext]_toldVars
               PROVE  RequestsInvariant'
    OBVIOUS
  <2>1. CASE ToldNext
    BY <2>1, ToldStepKeeps
  <2>2. CASE UNCHANGED toldVars
    BY <2>2 DEF toldVars, vars, RequestsInvariant, CallIsTold, ListedTogether, WasAsked
  <2> QED
    BY <2>1, <2>2
<1> QED
  BY <1>1, <1>2, ToldImplementsDeployment, DeploymentCorrect, PTL DEF ToldSpec

(* The calls of the runs keep to the contract of the storage layer: each   *)
(* is answered at most once, and acknowledged only when a node has carried *)
(* out what it asked for (app.reactor.js, cluster/storage).                *)
THEOREM CallsKeepToContract == ToldSpec => KeepsToContract
<1>1. ToldInit => Contract!Init
  BY DEF ToldInit, Init, Contract!Init
<1>2. DeploymentInvariant /\ RequestsInvariant /\ [ToldNext]_toldVars
        => [Contract!Next]_Contract!vars
  <2> SUFFICES ASSUME DeploymentInvariant, RequestsInvariant, [ToldNext]_toldVars
               PROVE  [Contract!Next]_Contract!vars
    OBVIOUS
  <2>1. CASE ToldNext
    <3>1. TypeOK /\ RunsAreFounded /\ Next
      BY <2>1 DEF ToldNext, DeploymentInvariant
    <3> QED
      BY <2>1, <3>1, StepShape, AnswerRefines, ListRefines, CallMoveRefines, LossRefines
  <2>2. CASE UNCHANGED toldVars
    BY <2>2 DEF toldVars, vars, Contract!vars
  <2> QED
    BY <2>1, <2>2
<1> QED
  BY <1>1, <1>2, RequestsCorrect, ToldImplementsDeployment, DeploymentCorrect, PTL
     DEF ToldSpec, KeepsToContract, Contract!Spec

=============================================================================
