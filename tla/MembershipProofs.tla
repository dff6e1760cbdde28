-------------------------- MODULE MembershipProofs --------------------------
(***************************************************************************)
(* Proofs about Membership, for every set of nodes and every number of     *)
(* starts and faults.                                                      *)
(***************************************************************************)
EXTENDS Membership, FiniteSetTheorems, TLAPS

USE BoundsAssumption, NodesAssumption

(* The initial state is typed.                                             *)
LEMMA InitType == Init => TypeOK
  BY DEF Init, TypeOK, Starts, Resources, NoStart, NoLeader, Phases

(***************************************************************************)
(* Types, one action at a time.                                            *)
(***************************************************************************)
(* What the shared parts of the actions keep of the types.                 *)
LEMMA GoesType ==
    ASSUME TypeOK, NEW n \in Nodes, NEW s \in Starts, NEW p \in Phases, Goes(n, s, p)
    PROVE  phase' \in [Nodes -> [Starts -> Phases]]
  BY DEF TypeOK, Goes

(* A start that begins is a start of the node, with a number within the    *)
(* bound.                                                                  *)
LEMMA BeginStartType ==
    ASSUME TypeOK, NEW n \in Nodes, BeginStart(n)
    PROVE  /\ phase' \in [Nodes -> [Starts -> Phases]]
           /\ begun' \in [Nodes -> 0..MaxStarts]
           /\ begun[n] + 1 \in Starts
  <1>1. begun[n] + 1 \in Starts /\ begun[n] + 1 \in 0..MaxStarts
    BY DEF TypeOK, BeginStart, Starts
  <1>2. "pidof" \in Phases
    BY DEF Phases, Pending, Awaiting
  <1> QED
    BY <1>1, <1>2 DEF TypeOK, BeginStart

(* What a start opens is a resource of the node.                           *)
LEMMA AcquireType ==
    ASSUME TypeOK, NEW n \in Nodes, NEW R \in SUBSET Resources, Acquire(n, R)
    PROVE  /\ held' \in [Nodes -> SUBSET Resources]
           /\ leaked' \in [Nodes -> [Resources -> Nat]]
  <1>1. held' \in [Nodes -> SUBSET Resources]
    BY DEF TypeOK, Acquire
  <1>2. [r \in Resources |-> IF r \in R /\ r \in held[n]
                             THEN leaked[n][r] + 1 ELSE leaked[n][r]]
          \in [Resources -> Nat]
    BY DEF TypeOK
  <1>3. leaked' \in [Nodes -> [Resources -> Nat]]
    BY <1>2 DEF TypeOK, Acquire
  <1> QED
    BY <1>1, <1>3

(* Every step of a start keeps the types.                                  *)
LEMMA StartStepType ==
    ASSUME TypeOK, NEW n \in Nodes, NEW s \in Starts, StartStep(n, s)
    PROVE  TypeOK'
  <1> USE DEF nodeVars, storeVars
  <1>1. CASE FindConsul(n, s)
    <2>1. phase' \in [Nodes -> [Starts -> Phases]]
      BY <1>1, GoesType DEF FindConsul, Phases, Pending, Awaiting
    <2> QED
      BY <1>1, <2>1 DEF FindConsul, TypeOK
  <1>2. CASE SpawnConsul(n, s)
    <2>1. phase' \in [Nodes -> [Starts -> Phases]]
      BY <1>2, GoesType DEF SpawnConsul, Phases, Pending, Awaiting
    <2> QED
      BY <1>2, <2>1 DEF SpawnConsul, TypeOK
  <1>3. CASE CreateSession(n, s)
    <2>1. phase' \in [Nodes -> [Starts -> Phases]]
      BY <1>3, GoesType DEF CreateSession, Phases, Pending, Awaiting
    <2> QED
      BY <1>3, <2>1 DEF CreateSession, TypeOK
  <1>4. CASE Introspect(n, s)
    <2>1. phase' \in [Nodes -> [Starts -> Phases]]
      BY <1>4, GoesType DEF Introspect, Phases, Pending, Awaiting
    <2> QED
      BY <1>4, <2>1 DEF Introspect, TypeOK
  <1>5. CASE Register(n, s)
    <2>1. phase' \in [Nodes -> [Starts -> Phases]]
      BY <1>5, GoesType DEF Register, Phases, Pending, Awaiting
    <2>2. lock' \in [Nodes -> Starts \union {NoStart}]
      BY <1>5 DEF Register, TypeOK
    <2> QED
      BY <1>5, <2>1, <2>2 DEF Register, TypeOK
  <1>6. CASE StartWatching(n, s)
    <2>1. phase' \in [Nodes -> [Starts -> Phases]]
      BY <1>6, GoesType DEF StartWatching, Phases, Pending, Awaiting
    <2>2. held' \in [Nodes -> SUBSET Resources] /\ leaked' \in [Nodes -> [Resources -> Nat]]
      BY <1>6, AcquireType DEF StartWatching, Resources
    <2> QED
      BY <1>6, <2>1, <2>2 DEF StartWatching, TypeOK
  <1>7. CASE Swallow(n, s)
    <2>1. phase' \in [Nodes -> [Starts -> Phases]]
      BY <1>7, GoesType DEF Swallow, Phases, Pending, Awaiting
    <2> QED
      BY <1>7, <2>1 DEF Swallow, TypeOK
  <1>8. CASE RaceForLeader(n, s)
    <2>1. phase' \in [Nodes -> [Starts -> Phases]]
      BY <1>8, GoesType DEF RaceForLeader, Phases, Pending, Awaiting
    <2>2. held' \in [Nodes -> SUBSET Resources] /\ leaked' \in [Nodes -> [Resources -> Nat]]
      BY <1>8, AcquireType DEF RaceForLeader, Resources
    <2> QED
      BY <1>8, <2>1, <2>2 DEF RaceForLeader, TypeOK
  <1>9. CASE RequestFails(n, s)
    <2>1. phase' \in [Nodes -> [Starts -> Phases]]
      BY <1>9, GoesType DEF RequestFails, GivesUp, Phases, Pending, Awaiting
    <2>2. faults' \in 0..MaxFaults
      BY <1>9 DEF RequestFails, TypeOK
    <2> QED
      BY <1>9, <2>1, <2>2 DEF RequestFails, TypeOK
  <1>10. CASE ConsulSyncs(n, s)
    <2>1. phase' \in [Nodes -> [Starts -> Phases]]
      BY <1>10, GoesType DEF ConsulSyncs, Phases, Pending, Awaiting
    <2> QED
      BY <1>10, <2>1 DEF ConsulSyncs, TypeOK
  <1> QED
    BY <1>1, <1>2, <1>3, <1>4, <1>5, <1>6, <1>7, <1>8, <1>9, <1>10 DEF StartStep, ChainStep

(* Every call of the API does.                                             *)
LEMMA ApiType ==
    ASSUME TypeOK, NEW n \in Nodes,
           Join(n) \/ JoinThrows(n) \/ Start(n) \/ Stop(n) \/ Leave(n)
    PROVE  TypeOK'
  <1> USE DEF nodeVars, storeVars
  <1>1. CASE Join(n)
    BY <1>1, BeginStartType DEF Join, TypeOK
  <1>2. CASE JoinThrows(n)
    BY <1>2 DEF JoinThrows, TypeOK
  <1>3. CASE Start(n)
    BY <1>3, BeginStartType DEF Start, TypeOK
  <1>4. CASE Stop(n)
    BY <1>4 DEF Stop, Release, TypeOK
  <1>5. CASE Leave(n)
    BY <1>5 DEF Leave, Release, TypeOK
  <1> QED
    BY <1>1, <1>2, <1>3, <1>4, <1>5

(* Every crash, boot and expiry does.                                      *)
LEMMA OutsideType ==
    ASSUME TypeOK, NEW n \in Nodes,
           Crash(n) \/ Boot(n) \/ ConsulDies(n) \/ \E s \in Starts : Expire(n, s)
    PROVE  TypeOK'
  <1> USE DEF nodeVars, storeVars
  <1>1. CASE Crash(n)
    <2>1. phase' \in [Nodes -> [Starts -> Phases]]
      BY <1>1 DEF Crash, TypeOK, Phases
    <2>2. held' \in [Nodes -> SUBSET Resources] /\ leaked' \in [Nodes -> [Resources -> Nat]]
      BY <1>1 DEF Crash, TypeOK
    <2>3. current' \in [Nodes -> Starts \union {NoStart}] /\ faults' \in 0..MaxFaults
      BY <1>1 DEF Crash, TypeOK
    <2>4. up' \subseteq Nodes /\ consul' \subseteq Nodes
          /\ link' \in [Nodes -> {"none", "partial", "full"}] /\ left' \subseteq Nodes
      BY <1>1 DEF Crash, TypeOK
    <2> QED
      BY <1>1, <2>1, <2>2, <2>3, <2>4 DEF Crash, TypeOK
  <1>2. CASE Boot(n)
    <2>1. CASE Linked(n)
      BY <1>2, <2>1, BeginStartType DEF Boot, TypeOK
    <2>2. CASE ~Linked(n)
      BY <1>2, <2>2 DEF Boot, TypeOK
    <2> QED
      BY <2>1, <2>2
  <1>3. CASE ConsulDies(n)
    <2>1. "failed" \in Phases /\ "hung" \in Phases
      BY DEF Phases, Pending, Awaiting
    <2>2. phase' \in [Nodes -> [Starts -> Phases]]
      BY <1>3, <2>1 DEF ConsulDies, TypeOK
    <2> QED
      BY <1>3, <2>2 DEF ConsulDies, TypeOK
  <1>4. CASE \E s \in Starts : Expire(n, s)
    BY <1>4 DEF Expire, TypeOK
  <1> QED
    BY <1>1, <1>2, <1>3, <1>4

(* Every step does.                                                        *)
LEMMA NextType == TypeOK /\ [Next]_vars => TypeOK'
  <1> SUFFICES ASSUME TypeOK, [Next]_vars PROVE TypeOK'
    OBVIOUS
  <1>1. CASE UNCHANGED vars
    BY <1>1 DEF vars, TypeOK
  <1>2. CASE Next
    BY <1>2, StartStepType, ApiType, OutsideType DEF Next
  <1> QED
    BY <1>1, <1>2

(* What TypeOK says of the state of a node: its link, its starts, what     *)
(* they hold and the session that is renewed stay what the code can store. *)
THEOREM TypeCorrect == Spec => []TypeOK
  BY InitType, NextType, PTL DEF Spec
(***************************************************************************)
(* The link of a node, and what a node without one can do.                 *)
(***************************************************************************)
(* A node that has a cluster key keeps its link, whatever the API is asked *)
(* for and whatever fails: leaving never comes to the settings.            *)
LEMMA LinkStep ==
    ASSUME TypeOK, NEW m \in Nodes, Linked(m), [Next]_vars
    PROVE  link'[m] = link[m]
  <1> USE DEF nodeVars
  <1>1. CASE UNCHANGED vars
    BY <1>1 DEF vars
  <1>2. ASSUME NEW n \in Nodes, NEW s \in Starts, StartStep(n, s) \/ Expire(n, s)
        PROVE  link'[m] = link[m]
    BY <1>2 DEF StartStep, ChainStep, ConsulSyncs, FindConsul, SpawnConsul, CreateSession, Introspect, Register,
                StartWatching, Swallow, RaceForLeader, RequestFails, Expire
  <1>3. ASSUME NEW n \in Nodes, Join(n) \/ JoinThrows(n) \/ Start(n) \/ Stop(n) \/ Leave(n)
        PROVE  link'[m] = link[m]
    BY <1>3 DEF Join, JoinThrows, Start, Stop, Leave, TypeOK
  <1>4. ASSUME NEW n \in Nodes, Crash(n) \/ Boot(n) \/ ConsulDies(n)
        PROVE  link'[m] = link[m]
    BY <1>4 DEF Crash, Boot, ConsulDies, TypeOK
  <1> QED
    BY <1>1, <1>2, <1>3, <1>4 DEF Next

Inactive(m) ==
    /\ \A s \in Starts : phase[m][s] = "none"
    /\ held[m] = {} /\ \A r \in Resources : leaked[m][r] = 0
    /\ sessions[m] = {} /\ m \notin consul /\ leader # m

(* A step of one node leaves the starts and the holdings of the others.    *)
LEMMA OthersStay ==
    ASSUME TypeOK, NEW m \in Nodes, NEW n \in Nodes, n # m, NEW s \in Starts,
           \/ StartStep(n, s) \/ Expire(n, s)
           \/ Join(n) \/ JoinThrows(n) \/ Start(n) \/ Stop(n) \/ Leave(n)
           \/ Crash(n) \/ Boot(n) \/ ConsulDies(n)
    PROVE  /\ phase'[m] = phase[m] /\ held'[m] = held[m] /\ leaked'[m] = leaked[m]
           /\ sessions'[m] = sessions[m] /\ lock'[m] = lock[m] /\ begun'[m] = begun[m]
           /\ m \in consul' <=> m \in consul
           /\ leader' \in {leader, n}
  <1> USE DEF nodeVars, storeVars, TypeOK, Goes
  <1>1. CASE FindConsul(n, s) \/ SpawnConsul(n, s) \/ CreateSession(n, s)
             \/ Introspect(n, s) \/ Register(n, s)
    BY <1>1 DEF FindConsul, SpawnConsul, CreateSession, Introspect, Register
  <1>2. CASE StartWatching(n, s) \/ Swallow(n, s) \/ RaceForLeader(n, s)
    BY <1>2 DEF StartWatching, Swallow, RaceForLeader, Acquire
  <1>3. CASE RequestFails(n, s) \/ ConsulSyncs(n, s) \/ Expire(n, s)
    BY <1>3 DEF RequestFails, ConsulSyncs, GivesUp, Expire
  <1>4. CASE Join(n) \/ JoinThrows(n) \/ Start(n) \/ Stop(n) \/ Leave(n)
    BY <1>4 DEF Join, JoinThrows, Start, Stop, Leave, BeginStart, Release
  <1>5. CASE Crash(n) \/ Boot(n) \/ ConsulDies(n)
    BY <1>5 DEF Crash, Boot, ConsulDies, BeginStart
  <1> QED
    BY <1>1, <1>2, <1>3, <1>4, <1>5 DEF StartStep, ChainStep

(* A node that has no link stays inactive.                                 *)
LEMMA InactiveStep ==
    ASSUME TypeOK, NEW m \in Nodes, ~Linked(m), ~Linked(m)', Inactive(m), [Next]_vars
    PROVE  Inactive(m)'
  <1> USE DEF nodeVars, storeVars
  <1>1. CASE UNCHANGED vars
    BY <1>1 DEF vars, Inactive
  <1>2. ASSUME NEW n \in Nodes, n # m, NEW s \in Starts,
               \/ StartStep(n, s) \/ Expire(n, s)
               \/ Join(n) \/ JoinThrows(n) \/ Start(n) \/ Stop(n) \/ Leave(n)
               \/ Crash(n) \/ Boot(n) \/ ConsulDies(n)
        PROVE  Inactive(m)'
    BY <1>2, OthersStay DEF Inactive
  <1>3. ASSUME NEW s \in Starts, StartStep(m, s) \/ Expire(m, s)
        PROVE  FALSE
    <2>1. phase[m][s] = "none" /\ s \notin sessions[m]
      BY DEF Inactive
    <2> QED
      BY <1>3, <2>1 DEF StartStep, ChainStep, ConsulSyncs, FindConsul, SpawnConsul, CreateSession, Introspect,
                        Register, StartWatching, Swallow, RaceForLeader, RequestFails,
                        GivesUp, Expire
  <1>4. ~Join(m) /\ ~JoinThrows(m) /\ ~Start(m) /\ ~Leave(m) /\ ~ConsulDies(m)
    BY DEF Join, JoinThrows, Start, Leave, ConsulDies, Linked, Inactive, TypeOK
  <1>5. CASE Stop(m)
    BY <1>5 DEF Stop, Release, Inactive, TypeOK
  <1>6. CASE Crash(m)
    BY <1>6 DEF Crash, Inactive, TypeOK
  <1>7. CASE Boot(m)
    BY <1>7 DEF Boot, Inactive
  <1>8. ASSUME NEW n \in Nodes, n # m,
               \/ Join(n) \/ JoinThrows(n) \/ Start(n) \/ Stop(n) \/ Leave(n)
               \/ Crash(n) \/ Boot(n) \/ ConsulDies(n)
        PROVE  Inactive(m)'
    <2>1. CASE Starts = {}
      BY <1>8, <2>1 DEF Inactive, TypeOK, Join, JoinThrows, Start, Stop, Leave, Crash,
                        Boot, ConsulDies, Release, BeginStart
    <2>2. CASE Starts # {}
      BY <1>2, <1>8, <2>2
    <2> QED
      BY <2>1, <2>2
  <1> QED
    BY <1>1, <1>2, <1>3, <1>4, <1>5, <1>6, <1>7, <1>8 DEF Next

(* A node without a cluster key does nothing and holds nothing: what a     *)
(* linked node does cannot be seen on it, whoever calls the API.           *)
THEOREM OnlyLinkedAct == Spec => []OnlyLinkedNodesAct
  <1>1. Init => OnlyLinkedNodesAct
    BY DEF Init, OnlyLinkedNodesAct, NoLeader
  <1>2. TypeOK /\ OnlyLinkedNodesAct /\ [Next]_vars => OnlyLinkedNodesAct'
    <2> SUFFICES ASSUME TypeOK, OnlyLinkedNodesAct, [Next]_vars,
                        NEW m \in Nodes, ~Linked(m)'
                 PROVE  Inactive(m)'
      BY DEF OnlyLinkedNodesAct, Inactive
    <2>1. ~Linked(m)
      BY LinkStep DEF Linked
    <2>2. Inactive(m)
      BY <2>1 DEF OnlyLinkedNodesAct, Inactive
    <2> QED
      BY <2>1, <2>2, InactiveStep
  <1> QED
    BY <1>1, <1>2, TypeCorrect, PTL DEF Spec

(***************************************************************************)
(* Watches and timers against starts.  The numbers agree because a start   *)
(* opens its watches once: its number is new when it begins, and it never  *)
(* comes back from where it is.                                            *)
(***************************************************************************)
NumbersAreNew ==
    \A n \in Nodes : \A s \in Starts : s > begun[n] => phase[n][s] = "none"

At(n, P) == {s \in Starts : phase[n][s] \in P}

(* The starts of a node at some stages are finitely many, and their count  *)
(* is a number.                                                            *)
LEMMA Counting ==
    ASSUME NEW n, NEW P
    PROVE  /\ IsFiniteSet(At(n, P))
           /\ Through(n, P) = Cardinality(At(n, P)) /\ Through(n, P) \in Nat
  <1>1. IsFiniteSet(Starts)
    BY FS_Interval DEF Starts
  <1>2. At(n, P) \in SUBSET Starts
    BY DEF At
  <1>3. IsFiniteSet(At(n, P))
    BY <1>1, <1>2, FS_Subset
  <1> QED
    BY <1>3, FS_CardinalityType DEF Through, At

(* The same in the next state.                                             *)
LEMMA CountingNext ==
    ASSUME NEW n, NEW P
    PROVE  /\ IsFiniteSet(At(n, P)')
           /\ Through(n, P)' = Cardinality(At(n, P)') /\ Through(n, P)' \in Nat
  <1>1. IsFiniteSet(Starts)
    BY FS_Interval DEF Starts
  <1>2. At(n, P)' \in SUBSET Starts
    BY DEF At
  <1>3. IsFiniteSet(At(n, P)')
    BY <1>1, <1>2, FS_Subset
  <1> QED
    BY <1>3, FS_CardinalityType DEF Through, At

(* The count does not fall when no start leaves the stages.                *)
LEMMA CountStays ==
    ASSUME NEW n, NEW P, \A s \in Starts : phase[n][s] \in P => phase'[n][s] \in P
    PROVE  Through(n, P) <= Through(n, P)'
  <1>1. At(n, P) \in SUBSET At(n, P)'
    BY DEF At
  <1> QED
    BY <1>1, Counting, CountingNext, FS_Subset

(* It grows by one when one start enters them.                             *)
LEMMA CountGrows ==
    ASSUME NEW n, NEW P, NEW s \in Starts, phase[n][s] \notin P, phase'[n][s] \in P,
           \A t \in Starts : t # s => phase'[n][t] = phase[n][t]
    PROVE  Through(n, P)' = Through(n, P) + 1
  <1>1. At(n, P)' = At(n, P) \union {s} /\ s \notin At(n, P)
    BY DEF At
  <1> QED
    BY <1>1, Counting, CountingNext, FS_AddElement
Bounded(n) ==
    /\ Open(n, "apps") <= Through(n, {"done"})
    /\ \A r \in {"local", "ticker"} : Open(n, r) <= Through(n, {"race", "done"})

(* What is open is counted by a number, before the step and after it.      *)
LEMMA OpenType ==
    ASSUME TypeOK, NEW n \in Nodes, NEW r \in Resources PROVE Open(n, r) \in Nat
  BY DEF TypeOK, Open
LEMMA OpenTypeNext ==
    ASSUME TypeOK', NEW n \in Nodes, NEW r \in Resources PROVE Open(n, r)' \in Nat
  BY DEF TypeOK, Open

(* A step that opens nothing, and takes no start back.                     *)
LEMMA OpensNothing ==
    ASSUME TypeOK, TypeOK', NEW n \in Nodes, Bounded(n),
           \A r \in Resources : Open(n, r)' <= Open(n, r),
           \A s \in Starts : /\ phase[n][s] = "done" => phase'[n][s] = "done"
                             /\ phase[n][s] = "race" => phase'[n][s] \in {"race", "done"}
    PROVE  Bounded(n)'
  <1>1. Through(n, {"done"}) <= Through(n, {"done"})'
    BY CountStays
  <1>2. Through(n, {"race", "done"}) <= Through(n, {"race", "done"})'
    BY CountStays
  <1>3. /\ Through(n, {"done"}) \in Nat /\ Through(n, {"done"})' \in Nat
        /\ Through(n, {"race", "done"}) \in Nat /\ Through(n, {"race", "done"})' \in Nat
    BY Counting, CountingNext
  <1>4. "apps" \in Resources /\ {"local", "ticker"} \subseteq Resources
    BY DEF Resources
  <1>5. \A r \in Resources : Open(n, r) \in Nat /\ Open(n, r)' \in Nat
    BY OpenType, OpenTypeNext
  <1>6. Open(n, "apps")' <= Through(n, {"done"})'
    BY <1>1, <1>3, <1>4, <1>5 DEF Bounded
  <1>7. \A r \in {"local", "ticker"} : Open(n, r)' <= Through(n, {"race", "done"})'
    BY <1>2, <1>3, <1>4, <1>5 DEF Bounded
  <1> QED
    BY <1>6, <1>7 DEF Bounded

(* Opening some resources adds one to the count of each.                   *)
LEMMA AcquireOpens ==
    ASSUME TypeOK, NEW n \in Nodes, NEW R \in SUBSET Resources, Acquire(n, R)
    PROVE  \A r \in Resources :
              Open(n, r)' = IF r \in R THEN Open(n, r) + 1 ELSE Open(n, r)
  BY DEF TypeOK, Acquire, Open

(* Every step of a start keeps the bound of what its node has open.        *)
LEMMA StartStepBounded ==
    ASSUME TypeOK, TypeOK', NEW n \in Nodes, NEW s \in Starts, StartStep(n, s), Bounded(n)
    PROVE  Bounded(n)'
  <1>1. CASE StartWatching(n, s)
    <2>1. phase[n][s] = "watch" /\ phase'[n][s] = "race"
          /\ \A t \in Starts : t # s => phase'[n][t] = phase[n][t]
      BY <1>1 DEF StartWatching, Goes, TypeOK
    <2>2. Through(n, {"race", "done"})' = Through(n, {"race", "done"}) + 1
      BY <2>1, CountGrows
    <2>3. Through(n, {"done"}) <= Through(n, {"done"})'
      BY <2>1, CountStays
    <2>4. Open(n, "apps")' = Open(n, "apps")
          /\ \A r \in {"local", "ticker"} : Open(n, r)' = Open(n, r) + 1
      <3>1. Acquire(n, {"local", "ticker"}) /\ {"local", "ticker"} \in SUBSET Resources
            /\ "apps" \in Resources
        BY <1>1 DEF StartWatching, Resources
      <3> QED
        BY <3>1, AcquireOpens
    <2>5. Open(n, "apps") \in Nat /\ Open(n, "local") \in Nat /\ Open(n, "ticker") \in Nat
      BY OpenType DEF Resources
    <2>6. /\ Through(n, {"done"}) \in Nat /\ Through(n, {"done"})' \in Nat
          /\ Through(n, {"race", "done"}) \in Nat
      BY Counting, CountingNext
    <2> QED
      BY <2>2, <2>3, <2>4, <2>5, <2>6 DEF Bounded
  <1>2. CASE RaceForLeader(n, s)
    <2>1. phase[n][s] = "race" /\ phase'[n][s] = "done"
          /\ \A t \in Starts : t # s => phase'[n][t] = phase[n][t]
      BY <1>2 DEF RaceForLeader, Goes, TypeOK
    <2>2. Through(n, {"done"})' = Through(n, {"done"}) + 1
      BY <2>1, CountGrows
    <2>3. Through(n, {"race", "done"}) <= Through(n, {"race", "done"})'
      BY <2>1, CountStays
    <2>4. Open(n, "apps")' = Open(n, "apps") + 1
          /\ \A r \in {"local", "ticker"} : Open(n, r)' = Open(n, r)
      <3>1. Acquire(n, {"apps"}) /\ {"apps"} \in SUBSET Resources
            /\ {"local", "ticker"} \subseteq Resources
        BY <1>2 DEF RaceForLeader, Resources
      <3> QED
        BY <3>1, AcquireOpens
    <2>5. Open(n, "apps") \in Nat /\ Open(n, "local") \in Nat /\ Open(n, "ticker") \in Nat
      BY OpenType DEF Resources
    <2>6. /\ Through(n, {"done"}) \in Nat
          /\ Through(n, {"race", "done"}) \in Nat /\ Through(n, {"race", "done"})' \in Nat
      BY Counting, CountingNext
    <2> QED
      BY <2>2, <2>3, <2>4, <2>5, <2>6 DEF Bounded
  <1>3. CASE ~StartWatching(n, s) /\ ~RaceForLeader(n, s)
    <2>1. held' = held /\ leaked' = leaked
      BY <1>3 DEF StartStep, ChainStep, ConsulSyncs, FindConsul, SpawnConsul, CreateSession, Introspect, Register,
                  Swallow, RequestFails
    <2>2. \A r \in Resources : Open(n, r)' <= Open(n, r)
      BY <2>1, OpenType DEF Open
    <2>3. \A t \in Starts :
             /\ phase[n][t] = "done" => phase'[n][t] = "done"
             /\ phase[n][t] = "race" => phase'[n][t] \in {"race", "done"}
      BY <1>3 DEF StartStep, ChainStep, ConsulSyncs, FindConsul, SpawnConsul, CreateSession, Introspect, Register,
                  Swallow, RequestFails, GivesUp, Goes, TypeOK
    <2> QED
      BY <2>2, <2>3, OpensNothing
  <1> QED
    BY <1>1, <1>2, <1>3

(* Every other step of the node does.                                      *)
LEMMA OtherStepBounded ==
    ASSUME TypeOK, TypeOK', NumbersAreNew, NEW n \in Nodes, Bounded(n),
           \/ Join(n) \/ JoinThrows(n) \/ Start(n) \/ Stop(n) \/ Leave(n)
           \/ Boot(n) \/ ConsulDies(n) \/ \E s \in Starts : Expire(n, s)
    PROVE  Bounded(n)'
  <1> USE DEF nodeVars, storeVars
  <1>1. \A r \in Resources : Open(n, r)' <= Open(n, r)
    <2>1. leaked' = leaked /\ held'[n] \subseteq held[n]
      BY DEF Join, JoinThrows, Start, Stop, Leave, Release, Boot, ConsulDies, Expire, TypeOK
    <2> QED
      BY <2>1 DEF Open, TypeOK
  <1>2. CASE BeginStart(n)
    <2>1. begun[n] + 1 \in Starts /\ begun[n] \in Nat
      BY <1>2, BeginStartType DEF TypeOK
    <2>2. phase[n][begun[n] + 1] = "none"
      BY <2>1 DEF NumbersAreNew
    <2>3. \A s \in Starts : /\ phase[n][s] = "done" => phase'[n][s] = "done"
                            /\ phase[n][s] = "race" => phase'[n][s] = "race"
      BY <1>2, <2>1, <2>2 DEF BeginStart, TypeOK
    <2> QED
      BY <1>1, <2>3, OpensNothing
  <1>3. CASE ConsulDies(n)
    <2>1. \A s \in Starts : phase[n][s] \in {"race", "done"} => phase'[n][s] = phase[n][s]
      BY <1>3 DEF ConsulDies, TypeOK
    <2> QED
      BY <1>1, <2>1, OpensNothing
  <1>4. CASE ~BeginStart(n) /\ ~ConsulDies(n)
    <2>1. phase' = phase
      BY <1>4 DEF Join, JoinThrows, Start, Stop, Leave, Boot, Expire
    <2> QED
      BY <1>1, <2>1, OpensNothing
  <1> QED
    BY <1>2, <1>3, <1>4

(* So does a crash, which closes everything.                               *)
LEMMA CrashBounded ==
    ASSUME TypeOK, TypeOK', NEW n \in Nodes, Crash(n)
    PROVE  Bounded(n)'
  <1>1. \A r \in Resources : Open(n, r)' = 0
    BY DEF Crash, Open, TypeOK
  <1>2. Through(n, {"done"})' \in Nat /\ Through(n, {"race", "done"})' \in Nat
    BY CountingNext
  <1> QED
    BY <1>1, <1>2 DEF Bounded, Resources
(* Every step keeps the numbers of the starts to come unused.              *)
LEMMA NumbersStep == TypeOK /\ NumbersAreNew /\ [Next]_vars => NumbersAreNew'
  <1> SUFFICES ASSUME TypeOK, NumbersAreNew, [Next]_vars PROVE NumbersAreNew'
    OBVIOUS
  <1> USE DEF nodeVars, NumbersAreNew
  <1>1. CASE UNCHANGED vars
    BY <1>1 DEF vars
  <1>2. ASSUME NEW n \in Nodes, NEW s \in Starts, StartStep(n, s)
        PROVE  NumbersAreNew'
    <2>1. begun' = begun /\ phase[n][s] # "none"
      BY <1>2 DEF StartStep, ChainStep, ConsulSyncs, FindConsul, SpawnConsul, CreateSession, Introspect, Register,
                  StartWatching, Swallow, RaceForLeader, RequestFails, GivesUp
    <2>2. \E p \in Phases : Goes(n, s, p)
      BY <1>2 DEF StartStep, ChainStep, ConsulSyncs, FindConsul, SpawnConsul, CreateSession, Introspect, Register,
                  StartWatching, Swallow, RaceForLeader, RequestFails, GivesUp, Phases, Pending, Awaiting
    <2> QED
      BY <2>1, <2>2 DEF Goes, TypeOK
  <1>3. ASSUME NEW n \in Nodes, BeginStart(n)
        PROVE  NumbersAreNew'
    <2>1. begun' = [begun EXCEPT ![n] = begun[n] + 1] /\ begun \in [Nodes -> Nat]
      BY <1>3 DEF BeginStart, TypeOK
    <2>2. phase' = [phase EXCEPT ![n][begun[n] + 1] = "pidof"]
      BY <1>3 DEF BeginStart
    <2>3. ASSUME NEW m \in Nodes, NEW s \in Starts, s > begun'[m]
          PROVE  phase'[m][s] = "none"
      <3>1. s \in Nat /\ s > begun[m] /\ (m = n => s # begun[n] + 1)
        BY <2>1, <2>3 DEF Starts
      <3> QED
        BY <3>1, <2>2 DEF TypeOK
    <2> QED
      BY <2>3
  <1>4. ASSUME NEW n \in Nodes, ~BeginStart(n),
               \/ Join(n) \/ JoinThrows(n) \/ Start(n) \/ Stop(n) \/ Leave(n)
               \/ Boot(n) \/ \E s \in Starts : Expire(n, s)
        PROVE  NumbersAreNew'
    BY <1>4 DEF Join, JoinThrows, Start, Stop, Leave, Boot, Expire
  <1>5. ASSUME NEW n \in Nodes, Crash(n)
        PROVE  NumbersAreNew'
    BY <1>5 DEF Crash, TypeOK
  <1>6. ASSUME NEW n \in Nodes, ConsulDies(n)
        PROVE  NumbersAreNew'
    BY <1>6 DEF ConsulDies, TypeOK
  <1> QED
    BY <1>1, <1>2, <1>3, <1>4, <1>5, <1>6 DEF Next

(* Every step keeps the bound of every node.                               *)
LEMMA BoundedStep ==
    ASSUME TypeOK, TypeOK', NumbersAreNew, OpenOncePerStart, [Next]_vars
    PROVE  OpenOncePerStart'
  <1>1. CASE UNCHANGED vars
    BY <1>1 DEF vars, OpenOncePerStart, Open, Through
  <1>2. ASSUME NEW m \in Nodes, NEW n \in Nodes,
               \/ \E s \in Starts : StartStep(n, s) \/ Expire(n, s)
               \/ Join(n) \/ JoinThrows(n) \/ Start(n) \/ Stop(n) \/ Leave(n)
               \/ Crash(n) \/ Boot(n) \/ ConsulDies(n)
        PROVE  Bounded(m)'
    <2>1. Bounded(m)
      BY DEF OpenOncePerStart, Bounded
    <2>2. CASE n = m
      BY <1>2, <2>1, <2>2, StartStepBounded, OtherStepBounded, CrashBounded
    <2>3. CASE n # m /\ Starts # {}
      <3>1. phase'[m] = phase[m] /\ held'[m] = held[m] /\ leaked'[m] = leaked[m]
        BY <1>2, <2>3, OthersStay
      <3>2. \A r \in Resources : Open(m, r)' <= Open(m, r)
        BY <3>1, OpenType DEF Open
      <3> QED
        BY <2>1, <3>1, <3>2, OpensNothing
    <2>4. CASE n # m /\ Starts = {}
      <3>1. \/ Join(n) \/ JoinThrows(n) \/ Start(n) \/ Stop(n) \/ Leave(n)
            \/ Crash(n) \/ Boot(n) \/ ConsulDies(n)
        BY <1>2, <2>4
      <3>2. held'[m] = held[m] /\ leaked'[m] = leaked[m]
        BY <3>1, <2>4 DEF Join, JoinThrows, Start, Stop, Leave, Crash, Boot, ConsulDies,
                          Release, TypeOK
      <3>3. \A r \in Resources : Open(m, r)' <= Open(m, r)
        BY <3>2, OpenType DEF Open
      <3> QED
        BY <2>1, <2>4, <3>3, OpensNothing
    <2> QED
      BY <2>2, <2>3, <2>4
  <1> QED
    BY <1>1, <1>2 DEF Next, OpenOncePerStart, Bounded

(* However starts and stops overlap and whatever of them fails: a process  *)
(* has no more watches and timers, those it has lost sight of included,    *)
(* than starts that came through.                                          *)
THEOREM WatchesAreBounded == Spec => []OpenOncePerStart
  <1>1. Init => NumbersAreNew
    BY DEF Init, NumbersAreNew
  <1>2. Init => OpenOncePerStart
    <2> SUFFICES ASSUME Init PROVE OpenOncePerStart
      OBVIOUS
    <2>1. \A n \in Nodes, r \in Resources : Open(n, r) = 0
      BY DEF Init, Open
    <2>2. \A n \in Nodes : /\ Through(n, {"done"}) \in Nat
                           /\ Through(n, {"race", "done"}) \in Nat
      BY Counting
    <2> QED
      BY <2>1, <2>2 DEF OpenOncePerStart, Resources
  <1>3. TypeOK /\ TypeOK' /\ NumbersAreNew /\ OpenOncePerStart /\ [Next]_vars
          => OpenOncePerStart'
    BY BoundedStep
  <1> QED
    BY <1>1, <1>2, <1>3, NumbersStep, TypeCorrect, PTL DEF Spec
=============================================================================
