--------------------------- MODULE LocalNodeProofs ---------------------------
(***************************************************************************)
(* Proofs about LocalNode, for every set of daemons, resources, templates  *)
(* and deliveries, and every number of faults.                             *)
(***************************************************************************)
EXTENDS LocalNode, TLAPS

USE ThingsAssumption, JobsAssumption
USE DEF Ops, DaemonOps, Working, Ended, Begun, PartPhases, PartWorking

Containers == {"none", "stopped", "running"}

(* A fault is counted within its bound.                                    *)
LEMMA FaultType ==
    ASSUME faults \in 0..MaxFaults, Fault \/ NoFault
    PROVE  faults' \in 0..MaxFaults
  BY DEF Fault, NoFault

(* The moves of a job, of a part of its list, and the end of the process:  *)
(* what they keep of the types and of the fit of the jobs.                 *)
Fit(j) ==
    /\ phase[j] \in {"register", "pull", "exists", "make"} => j.op = "create"
    /\ phase[j] \in {"status", "inspect", "go"} => j.op \in {"start", "stop"}
    /\ phase[j] \in {"list", "parts"} => j.op \in {"cleanup", "provision"}
    /\ \A x \in Members :
          /\ part[j][x] \in {"entry", "check", "destroy"} =>
                j.op = "cleanup" /\ phase[j] \in Begun /\ x \in Daemons
          /\ part[j][x] = "fetch" => j.op = "provision" /\ x \in Files

JobsOK ==
    /\ up \in BOOLEAN
    /\ phase \in [Jobs -> Begun \union {"idle", "unasked"}]
    /\ part \in [Jobs -> [Members -> PartPhases]]
    /\ \A j \in Jobs : Fit(j)

(* The types and the fit of the jobs are what the job lemmas need.         *)
LEMMA JobsOKDef == LocalTypeOK /\ JobsFit => JobsOK
  BY DEF LocalTypeOK, JobsFit, JobsOK, Fit

(* A job that goes to a stage of its own kind stays a fitting job.         *)
LEMMA GoesOK ==
    ASSUME JobsOK, NEW j \in Jobs, NEW p \in Begun, Goes(j, p),
           p \in {"register", "pull", "exists", "make"} => j.op = "create",
           p \in {"status", "inspect", "go"} => j.op \in {"start", "stop"},
           p \in {"list", "parts"} => j.op \in {"cleanup", "provision"}
    PROVE  JobsOK'
  <1>1. phase' \in [Jobs -> Begun \union {"idle", "unasked"}] /\ part' = part /\ up' = up
    BY DEF JobsOK, Goes
  <1>2. \A k \in Jobs : Fit(k)'
    <2> TAKE k \in Jobs
    <2>1. Fit(k)
      BY DEF JobsOK
    <2>2. CASE k = j
      BY <2>1, <2>2, <1>1 DEF Goes, JobsOK, Fit
    <2>3. CASE k # j
      BY <2>1, <2>3, <1>1 DEF Goes, JobsOK, Fit
    <2> QED
      BY <2>2, <2>3
  <1> QED
    BY <1>1, <1>2 DEF JobsOK

(* So does a job whose member goes on.                                     *)
LEMMA PartGoesOK ==
    ASSUME JobsOK, NEW j \in Jobs, NEW x \in Members, NEW p \in PartPhases,
           PartGoes(j, x, p),
           p \in {"entry", "check", "destroy"} =>
               j.op = "cleanup" /\ phase[j] \in Begun /\ x \in Daemons,
           p = "fetch" => j.op = "provision" /\ x \in Files
    PROVE  JobsOK'
  <1>1. part' \in [Jobs -> [Members -> PartPhases]] /\ phase' = phase /\ up' = up
    BY DEF JobsOK, PartGoes
  <1>2. \A k \in Jobs : Fit(k)'
    <2> TAKE k \in Jobs
    <2>1. Fit(k)
      BY DEF JobsOK
    <2>2. \A y \in Members : part'[k][y] = part[k][y] \/ (k = j /\ y = x /\ part'[k][y] = p)
      BY DEF PartGoes, JobsOK
    <2> QED
      BY <2>1, <2>2, <1>1 DEF Fit
  <1> QED
    BY <1>1, <1>2 DEF JobsOK

(* The end of the process drops the jobs, which stay fitting.              *)
LEMMA ExitOK ==
    ASSUME JobsOK, Exit
    PROVE  JobsOK'
  <1>1. /\ up' \in BOOLEAN
        /\ phase' \in [Jobs -> Begun \union {"idle", "unasked"}]
        /\ part' \in [Jobs -> [Members -> PartPhases]]
    BY DEF JobsOK, Exit
  <1>2. \A k \in Jobs : Fit(k)'
    BY DEF JobsOK, Exit, Fit
  <1> QED
    BY <1>1, <1>2 DEF JobsOK

(* A job that begins its list stays fitting.                               *)
LEMMA ListsOK ==
    ASSUME JobsOK, NEW j \in Jobs, NEW X, NEW p \in {"entry", "fetch"}, Lists(j, X),
           part' = [part EXCEPT ![j] =
                      [x \in Members |-> IF x \in X THEN p ELSE "none"]],
           p = "entry" => j.op = "cleanup" /\ X \subseteq Daemons,
           p = "fetch" => j.op = "provision" /\ X \subseteq Files
    PROVE  JobsOK' /\ (Cleaned => Cleaned')
  <1>1. /\ phase' \in [Jobs -> Begun \union {"idle", "unasked"}]
        /\ part' \in [Jobs -> [Members -> PartPhases]]
        /\ up' = up
    BY DEF JobsOK, Lists
  <1>2. phase'[j] \in {"failed", "parts"} /\ \A k \in Jobs \ {j} : phase'[k] = phase[k]
    BY DEF JobsOK, Lists
  <1>3. \A k \in Jobs : Fit(k)'
    <2> TAKE k \in Jobs
    <2>1. Fit(k)
      BY DEF JobsOK
    <2>2. CASE k = j
      <3>1. \A x \in Members : part'[j][x] = IF x \in X THEN p ELSE "none"
        BY DEF JobsOK
      <3> QED
        BY <2>2, <3>1, <1>2 DEF Fit
    <2>3. CASE k # j
      <3>1. part'[k] = part[k]
        BY <2>3 DEF JobsOK
      <3> QED
        BY <2>1, <2>3, <3>1, <1>2 DEF Fit
    <2> QED
      BY <2>2, <2>3
  <1>4. Cleaned => Cleaned'
    BY <1>2, <1>1 DEF Cleaned
  <1> QED
    BY <1>1, <1>3, <1>4 DEF JobsOK

(* A cleanup that has begun stays begun.                                   *)
LEMMA CleanedStays ==
    ASSUME JobsOK,
           \/ \E j \in Jobs, p \in Begun : Goes(j, p)
           \/ \E j \in Jobs, x \in Members, p \in PartPhases : PartGoes(j, x, p)
           \/ Exit
           \/ phase' = phase
    PROVE  Cleaned => Cleaned'
  BY DEF JobsOK, Goes, PartGoes, Exit, Cleaned

(***************************************************************************)
(* The node, and what a job may count on.                                  *)
(***************************************************************************)
NodeOK ==
    /\ container \in [Daemons -> Containers]
    /\ ran \subseteq Daemons /\ registered \subseteq Daemons
    /\ template \subseteq Files
    /\ file \subseteq Resources \X Files
    /\ faults \in 0..MaxFaults
    /\ \A d \in Daemons : /\ container[d] = "running" => d \in ran
                          /\ d \in ran => Exists(d)
                          /\ Exists(d) => d \in registered

Promise(j) ==
    /\ phase[j] \in {"pull", "exists", "make"} => j.on \in registered
    /\ j.op = "create" /\ j.on \in Known /\ phase[j] \in {"ok", "conflict"} =>
          Exists(j.on) \/ Cleaned
    /\ j.op = "start" /\ phase[j] \in {"ok", "conflict"} =>
          j.on \in ran \/ Cleaned
    /\ j.op = "provision" =>
          /\ phase[j] \in {"parts", "ok"} =>
                \E f \in Listed[j.on] : part[j][f] # "none"
          /\ \A f \in Listed[j.on] :
                part[j][f] = "ok" => f \in Blank \/ <<j.on, f>> \in file
          /\ phase[j] = "ok" =>
                \A f \in Listed[j.on] : part[j][f] \in {"none", "ok"}

Promises == \A j \in Jobs : Promise(j)

(* The invariant, split by what a step may disturb.                        *)
LEMMA InvariantParts == LocalInvariant <=> JobsOK /\ NodeOK /\ Promises
  <1>1. LocalInvariant => JobsOK /\ NodeOK
    BY JobsOKDef DEF LocalInvariant, NodeOK, LocalTypeOK, ContainerIsRegistered, Containers
  <1>2. LocalInvariant => Promises
    BY DEF LocalInvariant, Promises, Promise, CreateLeavesContainer, OkStartRan,
           PartsStand, OkResourceIsComplete
  <1>3. JobsOK /\ NodeOK /\ Promises => LocalInvariant
    <2> SUFFICES ASSUME JobsOK, NodeOK, Promises
                 PROVE  LocalInvariant
      OBVIOUS
    <2>1. LocalTypeOK /\ ContainerIsRegistered
      BY DEF LocalTypeOK, JobsOK, NodeOK, Containers, ContainerIsRegistered
    <2>4. JobsFit
      BY DEF JobsFit, JobsOK, Fit
    <2>2. CreateLeavesContainer /\ OkStartRan
      BY DEF Promises, Promise, CreateLeavesContainer, OkStartRan
    <2>3. PartsStand /\ OkResourceIsComplete
      BY DEF Promises, Promise, PartsStand, OkResourceIsComplete
    <2>5. /\ \A j \in Jobs : phase[j] \in {"pull", "exists", "make"} => j.on \in registered
          /\ \A d \in Daemons : /\ container[d] = "running" => d \in ran
                                /\ d \in ran => Exists(d)
      BY DEF NodeOK, Promises, Promise
    <2> QED
      BY <2>1, <2>2, <2>3, <2>4, <2>5 DEF LocalInvariant
  <1> QED
    BY <1>1, <1>2, <1>3

(* What a step may not take from a job that does not move.                 *)
Keeps ==
    /\ registered \subseteq registered'
    /\ file \subseteq file'
    /\ Cleaned => Cleaned'
    /\ \A d \in Daemons : /\ Exists(d) => Exists(d)' \/ Cleaned'
                          /\ d \in ran => d \in ran' \/ Cleaned'

(* A promise outlives every step that leaves its job alone and keeps the   *)
(* node.                                                                   *)
LEMMA PromiseStays ==
    ASSUME NEW k \in Jobs, Promise(k), Keeps, phase'[k] = phase[k], part'[k] = part[k]
    PROVE  Promise(k)'
  <1>1. /\ k.op \in DaemonOps => k.on \in Daemons
        /\ k.op = "provision" => k.on \in Resources
    OBVIOUS
  <1>2. /\ phase'[k] \in {"pull", "exists", "make"} => k.on \in registered'
        /\ k.op = "create" /\ k.on \in Known /\ phase'[k] \in {"ok", "conflict"} =>
              Exists(k.on)' \/ Cleaned'
        /\ k.op = "start" /\ phase'[k] \in {"ok", "conflict"} =>
              k.on \in ran' \/ Cleaned'
    BY <1>1 DEF Promise, Keeps, Exists
  <1>3. k.op = "provision" =>
          /\ phase'[k] \in {"parts", "ok"} =>
                \E f \in Listed[k.on] : part'[k][f] # "none"
          /\ \A f \in Listed[k.on] :
                part'[k][f] = "ok" => f \in Blank \/ <<k.on, f>> \in file'
          /\ phase'[k] = "ok" =>
                \A f \in Listed[k.on] : part'[k][f] \in {"none", "ok"}
    BY DEF Promise, Keeps
  <1> QED
    BY <1>2, <1>3 DEF Promise, Exists

(* A step that leaves the node alone keeps all of it.                      *)
LEMMA NodeStays ==
    ASSUME NodeOK, UNCHANGED <<nodeVars, template>>, Fault \/ NoFault,
           Cleaned => Cleaned'
    PROVE  NodeOK' /\ Keeps
  <1>1. faults' \in 0..MaxFaults
    BY FaultType DEF NodeOK
  <1> QED
    BY <1>1 DEF NodeOK, Keeps, nodeVars, Exists

(* It is enough, then, to look at the job that moves.                      *)
LEMMA GoesPromises ==
    ASSUME JobsOK, Promises, Keeps, NEW j \in Jobs, NEW p \in Begun, Goes(j, p),
           Promise(j)'
    PROVE  Promises'
  <1>1. \A k \in Jobs \ {j} : phase'[k] = phase[k] /\ part'[k] = part[k]
    BY DEF Goes, JobsOK
  <1> QED
    BY <1>1, PromiseStays DEF Promises

(* The same for a step of one member of a job.                             *)
LEMMA PartGoesPromises ==
    ASSUME JobsOK, Promises, Keeps, NEW j \in Jobs, NEW x \in Members,
           NEW p \in PartPhases, PartGoes(j, x, p), Promise(j)'
    PROVE  Promises'
  <1>1. \A k \in Jobs \ {j} : phase'[k] = phase[k] /\ part'[k] = part[k]
    BY DEF PartGoes, JobsOK
  <1> QED
    BY <1>1, PromiseStays DEF Promises

(* The same for the end of the process, which promises nothing more.       *)
LEMMA ExitPromises ==
    ASSUME JobsOK, Promises, Keeps, Exit
    PROVE  Promises'
  <1> SUFFICES ASSUME NEW k \in Jobs
               PROVE  Promise(k)'
    BY DEF Promises
  <1>1. Promise(k)
    BY DEF Promises
  <1>2. phase'[k] = phase[k] \/ phase'[k] = "lost"
    BY DEF Exit
  <1>3. phase'[k] = phase[k] => phase[k] \notin Working
    BY DEF Exit
  <1>4. \A x \in Members : \/ part'[k][x] = part[k][x]
                           \/ part'[k][x] = "none" /\ part[k][x] \in PartWorking
    BY DEF Exit
  <1>5. CASE phase'[k] = phase[k]
    <2>1. phase[k] \notin {"parts", "pull", "exists", "make"}
      BY <1>3, <1>5
    <2>2. /\ k.op = "create" /\ k.on \in Known /\ phase'[k] \in {"ok", "conflict"} =>
                Exists(k.on)' \/ Cleaned'
          /\ k.op = "start" /\ phase'[k] \in {"ok", "conflict"} =>
                k.on \in ran' \/ Cleaned'
      BY <1>1, <1>5 DEF Promise, Keeps, Exists
    <2>3. CASE k.op = "provision"
      <3>1. \A f \in Listed[k.on] : f \in Members
        BY <2>3 DEF Members
      <3>2. \A f \in Listed[k.on] :
              part'[k][f] = "ok" => f \in Blank \/ <<k.on, f>> \in file'
        BY <1>1, <1>4, <2>3, <3>1 DEF Promise, Keeps
      <3>3. phase'[k] = "ok" => \A f \in Listed[k.on] : part'[k][f] = part[k][f]
        BY <1>1, <1>4, <1>5, <2>3, <3>1 DEF Promise
      <3> QED
        BY <1>1, <1>5, <2>1, <2>2, <2>3, <3>2, <3>3 DEF Promise
    <2> QED
      BY <1>5, <2>1, <2>2, <2>3 DEF Promise, Exists
  <1>6. CASE phase'[k] = "lost"
    <2>1. CASE k.op = "provision"
      <3>1. \A f \in Listed[k.on] : f \in Members
        BY <2>1 DEF Members
      <3>2. \A f \in Listed[k.on] :
              part'[k][f] = "ok" => f \in Blank \/ <<k.on, f>> \in file'
        BY <1>1, <1>4, <2>1, <3>1 DEF Promise, Keeps
      <3> QED
        BY <1>6, <2>1, <3>2 DEF Promise
    <2> QED
      BY <1>6, <2>1 DEF Promise
  <1> QED
    BY <1>2, <1>5, <1>6

(***************************************************************************)
(* What the handlers do to the node.                                       *)
(***************************************************************************)
Frame == (Fault \/ NoFault) /\ (Cleaned => Cleaned') /\ UNCHANGED template

(* Registering a service, as a part of a step, keeps the node.             *)
LEMMA RegisterServiceOK ==
    ASSUME NodeOK, Frame, NEW d \in Daemons, RegisterService(d),
           UNCHANGED <<container, ran, file>>
    PROVE  NodeOK' /\ Keeps /\ d \in registered'
  <1>1. faults' \in 0..MaxFaults
    BY FaultType DEF NodeOK, Frame
  <1> QED
    BY <1>1 DEF NodeOK, Keeps, Frame, RegisterService, Exists

(* Creating a container that is missing keeps the node.                    *)
LEMMA CreateContainerOK ==
    ASSUME NodeOK, Frame, NEW d \in Daemons, CreateContainer(d), ~Exists(d),
           d \in registered, UNCHANGED <<registered, file>>
    PROVE  NodeOK' /\ Keeps /\ Exists(d)'
  <1>1. faults' \in 0..MaxFaults
    BY FaultType DEF NodeOK, Frame
  <1>2. /\ container' \in [Daemons -> Containers] /\ container'[d] = "stopped"
        /\ \A c \in Daemons \ {d} : container'[c] = container[c]
        /\ ran' = ran \ {d}
    BY DEF NodeOK, CreateContainer, Containers
  <1> QED
    BY <1>1, <1>2 DEF NodeOK, Keeps, Frame, Exists

(* Starting a stopped container keeps the node.                            *)
LEMMA RunContainerOK ==
    ASSUME NodeOK, Frame, NEW d \in Daemons, RunContainer(d), container[d] = "stopped",
           UNCHANGED <<registered, file>>
    PROVE  NodeOK' /\ Keeps /\ d \in ran'
  <1>1. faults' \in 0..MaxFaults
    BY FaultType DEF NodeOK, Frame
  <1>2. /\ container' \in [Daemons -> Containers] /\ container'[d] = "running"
        /\ \A c \in Daemons \ {d} : container'[c] = container[c]
        /\ ran' = ran \union {d}
    BY DEF NodeOK, RunContainer, Containers
  <1> QED
    BY <1>1, <1>2 DEF NodeOK, Keeps, Frame, Exists

(***************************************************************************)
(* The steps.                                                              *)
(***************************************************************************)
IInv == JobsOK /\ NodeOK /\ Promises

(* A job that goes on, whatever its request did to the node.               *)
LEMMA JobMoves ==
    ASSUME IInv, NodeOK', Keeps, NEW j \in Jobs, NEW p \in Begun, Goes(j, p),
           p \in {"register", "pull", "exists", "make"} => j.op = "create",
           p \in {"status", "inspect", "go"} => j.op \in {"start", "stop"},
           p \in {"list", "parts"} => j.op \in {"cleanup", "provision"},
           p \in {"pull", "exists", "make"} => j.on \in registered',
           j.op = "create" /\ p \in {"ok", "conflict"} => Exists(j.on)' \/ Cleaned',
           j.op = "start" /\ p \in {"ok", "conflict"} =>
               j.on \in ran' \/ Cleaned',
           j.op = "provision" /\ p \in {"parts", "ok"} =>
               phase[j] = "parts" /\ PartsDone(j)
    PROVE  IInv'
  <1>1. JobsOK'
    BY GoesOK DEF IInv
  <1>2. phase'[j] = p /\ part' = part
    BY DEF Goes, IInv, JobsOK
  <1>3. Promise(j)
    BY DEF IInv, Promises
  <1>4. Promise(j)'
    <2>1. CASE j.op = "provision"
      <3>1. \A f \in Listed[j.on] : f \in Members
        BY <2>1 DEF Members
      <3>2. p \in {"parts", "ok"} => \E f \in Listed[j.on] : part'[j][f] # "none"
        BY <1>2, <1>3, <2>1 DEF Promise
      <3>3. \A f \in Listed[j.on] : part'[j][f] = "ok" => f \in Blank \/ <<j.on, f>> \in file'
        BY <1>2, <1>3, <2>1 DEF Promise, Keeps
      <3>4. p = "ok" => \A f \in Listed[j.on] : part'[j][f] \in {"none", "ok"}
        BY <1>2, <2>1, <3>1 DEF PartsDone
      <3>5. p \notin {"pull", "exists", "make"}
        BY <2>1
      <3> QED
        BY <1>2, <2>1, <3>2, <3>3, <3>4, <3>5 DEF Promise
    <2>2. CASE j.op # "provision"
      BY <1>2, <2>2 DEF Promise, Exists
    <2> QED
      BY <2>1, <2>2
  <1>5. Promises'
    BY <1>4, GoesPromises DEF IInv
  <1> QED
    BY <1>1, <1>5 DEF IInv

(* A job that goes on without a change of the node.                        *)
LEMMA JobLooks ==
    ASSUME IInv, NEW j \in Jobs, NEW p \in Begun, Goes(j, p),
           UNCHANGED <<nodeVars, template>>, Fault \/ NoFault,
           p \in {"register", "pull", "exists", "make"} => j.op = "create",
           p \in {"status", "inspect", "go"} => j.op \in {"start", "stop"},
           p \in {"list", "parts"} => j.op \in {"cleanup", "provision"},
           p \in {"pull", "exists", "make"} => j.on \in registered,
           j.op = "create" /\ p \in {"ok", "conflict"} => Exists(j.on),
           j.op = "start" /\ p \in {"ok", "conflict"} => j.on \in ran,
           j.op = "provision" /\ p \in {"parts", "ok"} =>
               phase[j] = "parts" /\ PartsDone(j)
    PROVE  IInv'
  <1>1. Cleaned => Cleaned'
    BY CleanedStays DEF IInv
  <1>2. NodeOK' /\ Keeps
    BY <1>1, NodeStays DEF IInv
  <1>3. /\ p \in {"pull", "exists", "make"} => j.on \in registered'
        /\ j.op = "create" /\ p \in {"ok", "conflict"} => Exists(j.on)'
        /\ j.op = "start" /\ p \in {"ok", "conflict"} => j.on \in ran'
    BY DEF nodeVars, Exists
  <1> QED
    BY <1>2, <1>3, JobMoves

(* A part of a list that goes on.                                          *)
LEMMA PartMoves ==
    ASSUME IInv, NodeOK', Keeps, NEW j \in Jobs, NEW x \in Members,
           NEW p \in {"check", "destroy", "failed", "ok"}, PartGoes(j, x, p),
           part[j][x] \in PartWorking,
           p \in {"check", "destroy"} => part[j][x] \in {"entry", "check"},
           p = "ok" => x \in Blank \/ <<j.on, x>> \in file'
    PROVE  IInv'
  <1>1. Fit(j) /\ Promise(j)
    BY DEF IInv, JobsOK, Promises
  <1>2. JobsOK'
    BY <1>1, PartGoesOK DEF IInv, Fit
  <1>3. phase' = phase /\ part'[j][x] = p
        /\ \A y \in Members \ {x} : part'[j][y] = part[j][y]
    BY DEF PartGoes, IInv, JobsOK
  <1>4. Promise(j)'
    <2>1. CASE j.op = "provision"
      <3>1. \A f \in Listed[j.on] : f \in Members
        BY <2>1 DEF Members
      <3>2. phase[j] \in {"parts", "ok"} => \E f \in Listed[j.on] : part'[j][f] # "none"
        BY <1>1, <1>3, <2>1, <3>1 DEF Promise
      <3>3. \A f \in Listed[j.on] : part'[j][f] = "ok" => f \in Blank \/ <<j.on, f>> \in file'
        BY <1>1, <1>3, <2>1, <3>1 DEF Promise, Keeps
      <3>4. phase[j] = "ok" => \A f \in Listed[j.on] : part'[j][f] \in {"none", "ok"}
        BY <1>1, <1>3, <2>1, <3>1 DEF Promise
      <3>5. phase[j] \notin {"pull", "exists", "make"}
        BY <1>1, <2>1 DEF Fit
      <3> QED
        BY <1>3, <2>1, <3>2, <3>3, <3>4, <3>5 DEF Promise
    <2>2. CASE j.op # "provision"
      <3>1. j.on \in Daemons
        BY <2>2
      <3> QED
        BY <1>1, <1>3, <2>2, <3>1 DEF Promise, Keeps, Exists
    <2> QED
      BY <2>1, <2>2
  <1>5. Promises'
    BY <1>4, PartGoesPromises DEF IInv
  <1> QED
    BY <1>2, <1>5 DEF IInv

(* A process that ends takes its jobs along, and nothing of the node.      *)
LEMMA ProcessEnds ==
    ASSUME IInv, Exit, Fault \/ NoFault, UNCHANGED <<nodeVars, template>>
    PROVE  IInv'
  <1>1. Cleaned => Cleaned'
    BY CleanedStays DEF IInv
  <1>2. NodeOK' /\ Keeps
    BY <1>1, NodeStays DEF IInv
  <1> QED
    BY <1>2, ExitOK, ExitPromises DEF IInv

(* A job that lists what it works on.                                      *)
LEMMA JobLists ==
    ASSUME IInv, NEW j \in Jobs, NEW X, NEW p \in {"entry", "fetch"}, Lists(j, X),
           part' = [part EXCEPT ![j] =
                      [x \in Members |-> IF x \in X THEN p ELSE "none"]],
           p = "entry" => j.op = "cleanup" /\ X \subseteq Daemons,
           p = "fetch" => j.op = "provision" /\ X \subseteq Listed[j.on]
    PROVE  IInv'
  <1>1. p = "fetch" => X \subseteq Files
    OBVIOUS
  <1>2. JobsOK' /\ (Cleaned => Cleaned')
    BY <1>1, ListsOK DEF IInv
  <1>3. NodeOK' /\ Keeps
    BY <1>2, NodeStays DEF IInv, Lists
  <1>4. /\ \A k \in Jobs \ {j} : phase'[k] = phase[k] /\ part'[k] = part[k]
        /\ phase'[j] = IF X = {} THEN "failed" ELSE "parts"
        /\ part'[j] = [x \in Members |-> IF x \in X THEN p ELSE "none"]
    BY DEF IInv, JobsOK, Lists
  <1>5. Promise(j)'
    <2>1. CASE p = "fetch"
      <3>1. Listed[j.on] \subseteq Members
        BY <2>1 DEF Members
      <3>2. phase'[j] = "parts" => \E f \in Listed[j.on] : part'[j][f] # "none"
        BY <1>4, <2>1, <3>1
      <3>3. \A f \in Listed[j.on] : part'[j][f] # "ok"
        BY <1>4, <2>1, <3>1
      <3> QED
        BY <1>4, <2>1, <3>2, <3>3 DEF Promise
    <2>2. CASE p = "entry"
      BY <1>4, <2>2 DEF Promise
    <2> QED
      BY <2>1, <2>2
  <1>6. Promises'
    BY <1>3, <1>4, <1>5, PromiseStays DEF IInv, Promises
  <1> QED
    BY <1>2, <1>3, <1>6 DEF IInv

(* The delivery of a request keeps the invariant.                          *)
LEMMA DeliveryOK ==
    ASSUME IInv, NEW j \in Jobs, Deliver(j) \/ DeliverThrows(j)
    PROVE  IInv'
  <1>1. CASE Deliver(j)
    <2>1. FirstPhase(j) \in {"register", "failed", "status", "list"}
      BY DEF FirstPhase
    <2>2. /\ FirstPhase(j) = "register" => j.op = "create"
          /\ FirstPhase(j) = "status" => j.op \in {"start", "stop"}
          /\ FirstPhase(j) = "list" => j.op \in {"cleanup", "provision"}
      BY <1>1 DEF FirstPhase, Deliver, Throws
    <2> QED
      BY <1>1, <2>1, <2>2, JobLooks DEF Deliver
  <1>2. CASE DeliverThrows(j)
    BY <1>2, ProcessEnds DEF DeliverThrows
  <1> QED
    BY <1>1, <1>2

(* Every step of a creation does.                                          *)
LEMMA CreationOK ==
    ASSUME IInv, NEW j \in Jobs,
           Register(j) \/ Pull(j) \/ LookForContainer(j) \/ MakeContainer(j)
    PROVE  IInv'
  <1>1. Fit(j) /\ Promise(j)
    BY DEF IInv, JobsOK, Promises
  <1>2. CASE Register(j)
    <2>1. j.op = "create" /\ j.on \in Daemons /\ Goes(j, "pull")
      BY <1>1, <1>2 DEF Register, Fit
    <2>2. Frame
      BY <1>2, <2>1, CleanedStays DEF Register, Frame, IInv
    <2>3. NodeOK' /\ Keeps /\ j.on \in registered'
      BY <1>2, <2>1, <2>2, RegisterServiceOK DEF Register, IInv
    <2> QED
      BY <2>1, <2>3, JobMoves
  <1>3. CASE Pull(j)
    <2>1. j.op = "create" /\ j.on \in registered
      BY <1>1, <1>3 DEF Pull, Fit, Promise
    <2> QED
      BY <1>3, <2>1, JobLooks DEF Pull
  <1>4. CASE LookForContainer(j)
    <2>1. j.op = "create" /\ j.on \in registered
      BY <1>1, <1>4 DEF LookForContainer, Fit, Promise
    <2>2. CASE Exists(j.on)
      BY <1>4, <2>1, <2>2, JobLooks DEF LookForContainer
    <2>3. CASE ~Exists(j.on)
      BY <1>4, <2>1, <2>3, JobLooks DEF LookForContainer
    <2> QED
      BY <2>2, <2>3
  <1>5. CASE MakeContainer(j)
    <2>1. j.op = "create" /\ j.on \in Daemons /\ j.on \in registered
      BY <1>1, <1>5 DEF MakeContainer, Fit, Promise
    <2>2. CASE Exists(j.on)
      BY <1>5, <2>1, <2>2, JobLooks DEF MakeContainer, nodeVars
    <2>3. CASE ~Exists(j.on)
      <3>1. Goes(j, "ok") /\ CreateContainer(j.on)
        BY <1>5, <2>3 DEF MakeContainer
      <3>2. Frame
        BY <1>5, <3>1, CleanedStays DEF MakeContainer, Frame, IInv
      <3>3. NodeOK' /\ Keeps /\ Exists(j.on)'
        BY <1>5, <2>1, <2>3, <3>1, <3>2, CreateContainerOK DEF MakeContainer, IInv
      <3> QED
        BY <2>1, <3>1, <3>3, JobMoves
    <2> QED
      BY <2>2, <2>3
  <1> QED
    BY <1>2, <1>3, <1>4, <1>5

(* Every step of a start or a stop does.                                   *)
LEMMA StartOK ==
    ASSUME IInv, NEW j \in Jobs, LookAtStatus(j) \/ Inspect(j) \/ StartContainer(j)
    PROVE  IInv'
  <1>1. j.op \in {"start", "stop"} /\ j.on \in Daemons
    BY DEF IInv, JobsOK, Fit, LookAtStatus, Inspect, StartContainer
  <1>2. /\ container[j.on] = "running" => j.on \in ran
        /\ container[j.on] \in Containers
    BY <1>1 DEF IInv, NodeOK
  <1>3. CASE LookAtStatus(j) \/ Inspect(j)
    <2>1. PICK next \in {"inspect", "go"} : Goes(j, AfterLook(j, next))
      BY <1>3 DEF LookAtStatus, Inspect
    <2>2. /\ AfterLook(j, next) \in {"failed", "ok", "inspect", "go"}
          /\ AfterLook(j, next) = "ok" => j.on \in ran
      BY <1>2 DEF AfterLook
    <2> QED
      BY <1>1, <1>3, <2>1, <2>2, JobLooks DEF LookAtStatus, Inspect
  <1>4. CASE StartContainer(j)
    <2>1. CASE container[j.on] = "stopped"
      <3>1. Goes(j, "ok") /\ RunContainer(j.on)
        BY <1>4, <2>1 DEF StartContainer
      <3>2. Frame
        BY <1>4, <3>1, CleanedStays DEF StartContainer, Frame, IInv
      <3>3. NodeOK' /\ Keeps /\ j.on \in ran'
        BY <1>1, <1>4, <2>1, <3>1, <3>2, RunContainerOK DEF StartContainer, IInv
      <3> QED
        BY <1>1, <3>1, <3>3, JobMoves
    <2>2. CASE container[j.on] # "stopped"
      <3>1. PICK p \in {"conflict", "failed"} :
                Goes(j, p) /\ (p = "conflict" => Exists(j.on))
        BY <1>4, <2>2 DEF StartContainer
      <3>2. p = "conflict" => j.on \in ran
        BY <1>2, <2>2, <3>1 DEF Exists, Containers
      <3> QED
        BY <1>1, <1>4, <2>2, <3>1, <3>2, JobLooks DEF StartContainer, nodeVars
    <2> QED
      BY <2>1, <2>2
  <1> QED
    BY <1>3, <1>4

(* The listings, and the join of their members, do.                        *)
LEMMA ListingOK ==
    ASSUME IInv, NEW j \in Jobs, ListDaemons(j) \/ ListTemplates(j) \/ Join(j)
    PROVE  IInv'
  <1>1. CASE ListDaemons(j)
    <2>1. PICK D \in Keyed :
            /\ Lists(j, D)
            /\ part' = [part EXCEPT ![j] =
                          [x \in Members |-> IF x \in D THEN "entry" ELSE "none"]]
      BY <1>1 DEF ListDaemons
    <2> QED
      BY <1>1, <2>1, JobLists DEF ListDaemons
  <1>2. CASE ListTemplates(j)
    <2> DEFINE F == Listed[j.on] \intersect template
    <2>1. /\ Lists(j, F) /\ j.op = "provision"
          /\ part' = [part EXCEPT ![j] =
                        [x \in Members |-> IF x \in F THEN "fetch" ELSE "none"]]
      BY <1>2 DEF ListTemplates
    <2>2. F \subseteq Listed[j.on]
      OBVIOUS
    <2> HIDE DEF F
    <2> QED
      BY <2>1, <2>2, JobLists
  <1>3. CASE Join(j)
    <2>1. j.op \in {"cleanup", "provision"}
      BY <1>3 DEF Join, IInv, JobsOK, Fit
    <2>2. PICK p \in {"failed", "ok"} : Goes(j, p) /\ (p = "ok" => PartsDone(j))
      BY <1>3 DEF Join
    <2> QED
      BY <1>3, <2>1, <2>2, JobLooks DEF Join
  <1> QED
    BY <1>1, <1>2, <1>3

(* Every step of the cleanup of a daemon does.                             *)
LEMMA CleanupOK ==
    ASSUME IInv, NEW j \in Jobs, NEW d \in Daemons,
           ReadEntry(j, d) \/ LookBeforeDestroy(j, d) \/ DestroyContainer(j, d)
    PROVE  IInv'
  <1>1. d \in Members
    BY DEF Members
  <1>2. CASE ReadEntry(j, d) \/ LookBeforeDestroy(j, d)
    <2>1. PICK p \in {"check", "destroy", "failed"} :
            PartGoes(j, d, p) /\ part[j][d] \in {"entry", "check"}
      BY <1>2 DEF ReadEntry, LookBeforeDestroy
    <2>2. Cleaned => Cleaned'
      BY <1>1, <2>1, CleanedStays DEF IInv
    <2>3. NodeOK' /\ Keeps
      BY <1>2, <2>2, NodeStays DEF IInv, ReadEntry, LookBeforeDestroy
    <2> QED
      BY <1>1, <2>1, <2>3, PartMoves
  <1>3. CASE DestroyContainer(j, d)
    <2>1. Fit(j) /\ PartGoes(j, d, "failed") /\ part[j][d] = "destroy"
      BY <1>3 DEF IInv, JobsOK, DestroyContainer
    <2>2. Cleaned
      BY <1>1, <2>1 DEF Fit, Cleaned
    <2>3. Cleaned'
      BY <1>1, <2>1, <2>2, CleanedStays DEF IInv
    <2>4. faults' \in 0..MaxFaults
      BY <1>3, FaultType DEF DestroyContainer, IInv, NodeOK
    <2>5. /\ container' \in [Daemons -> Containers] /\ container'[d] = "none"
          /\ \A c \in Daemons \ {d} : container'[c] = container[c]
          /\ ran' = ran \ {d}
      BY <1>3 DEF DestroyContainer, IInv, NodeOK, Containers
    <2>6. NodeOK' /\ Keeps
      BY <1>3, <2>3, <2>4, <2>5 DEF DestroyContainer, IInv, NodeOK, Keeps, Exists
    <2> QED
      BY <1>1, <2>1, <2>6, PartMoves
  <1> QED
    BY <1>2, <1>3

(* Every step of the fetch of a resource file does.                        *)
LEMMA ProvisionOK ==
    ASSUME IInv, NEW j \in Jobs, NEW f \in Files, Fetch(j, f) \/ FetchNothing(j, f)
    PROVE  IInv'
  <1>1. f \in Members
    BY DEF Members
  <1>2. CASE Fetch(j, f)
    <2>1. PartGoes(j, f, "ok") /\ part[j][f] = "fetch"
      BY <1>2 DEF Fetch
    <2>2. j.on \in Resources
      BY <1>1, <2>1 DEF IInv, JobsOK, Fit
    <2>3. Cleaned => Cleaned'
      BY <1>1, <2>1, CleanedStays DEF IInv
    <2>4. faults' \in 0..MaxFaults
      BY <1>2, FaultType DEF Fetch, IInv, NodeOK
    <2>5. /\ file \subseteq file' /\ file' \subseteq Resources \X Files
          /\ f \in Blank \/ <<j.on, f>> \in file'
      BY <1>2, <2>2 DEF Fetch, WriteFile, IInv, NodeOK
    <2>6. NodeOK' /\ Keeps
      BY <1>2, <2>3, <2>4, <2>5 DEF Fetch, IInv, NodeOK, Keeps, Exists
    <2> QED
      BY <1>1, <2>1, <2>5, <2>6, PartMoves
  <1>3. CASE FetchNothing(j, f)
    BY <1>3, ProcessEnds DEF FetchNothing
  <1> QED
    BY <1>2, <1>3

(* A call that fails does, whatever the call had done already.             *)
LEMMA FailureOK ==
    ASSUME IInv, NEW j \in Jobs, Fails(j)
    PROVE  IInv'
  <1>1. Goes(j, "failed") /\ Fit(j) /\ Promise(j)
    BY DEF Fails, IInv, JobsOK, Promises
  <1>2. Frame
    BY <1>1, CleanedStays DEF Fails, Frame, IInv
  <1>3. CASE UNCHANGED nodeVars
    BY <1>1, <1>3, JobLooks DEF Fails
  <1>4. CASE /\ phase[j] = "register" /\ RegisterService(j.on)
             /\ UNCHANGED <<container, ran, file>>
    <2>1. j.op = "create" /\ j.on \in Daemons
      BY <1>1, <1>4 DEF Fit
    <2>2. NodeOK' /\ Keeps
      BY <1>2, <1>4, <2>1, RegisterServiceOK DEF IInv
    <2> QED
      BY <1>1, <2>2, JobMoves
  <1>5. CASE /\ phase[j] = "make" /\ ~Exists(j.on) /\ CreateContainer(j.on)
             /\ UNCHANGED <<registered, file>>
    <2>1. j.op = "create" /\ j.on \in Daemons /\ j.on \in registered
      BY <1>1, <1>5 DEF Fit, Promise
    <2>2. NodeOK' /\ Keeps
      BY <1>2, <1>5, <2>1, CreateContainerOK DEF IInv
    <2> QED
      BY <1>1, <2>2, JobMoves
  <1>6. CASE /\ phase[j] = "go" /\ container[j.on] = "stopped" /\ RunContainer(j.on)
             /\ UNCHANGED <<registered, file>>
    <2>1. j.op \in {"start", "stop"} /\ j.on \in Daemons
      BY <1>1, <1>6 DEF Fit
    <2>2. NodeOK' /\ Keeps
      BY <1>2, <1>6, <2>1, RunContainerOK DEF IInv
    <2> QED
      BY <1>1, <2>2, JobMoves
  <1> QED
    BY <1>3, <1>4, <1>5, <1>6 DEF Fails

(* Every disturbance does.                                                 *)
LEMMA DisturbanceOK ==
    ASSUME IInv, Disturbance
    PROVE  IInv'
  <1>1. CASE \E j \in Jobs : PullBreaks(j) \/ Fails(j)
    BY <1>1, ProcessEnds, FailureOK DEF PullBreaks
  <1>2. CASE \E j \in Jobs, x \in Members : PartFails(j, x)
    <2>1. PICK j \in Jobs, x \in Members : PartFails(j, x)
      BY <1>2
    <2>2. Cleaned => Cleaned'
      BY <2>1, CleanedStays DEF PartFails, IInv
    <2>3. NodeOK' /\ Keeps
      BY <2>1, <2>2, NodeStays DEF PartFails, IInv
    <2> QED
      BY <2>1, <2>3, PartMoves DEF PartFails
  <1>3. CASE \E d \in Daemons : ContainerStops(d)
    <2>1. PICK d \in Daemons : ContainerStops(d)
      BY <1>3
    <2>2. Cleaned => Cleaned'
      BY <2>1 DEF ContainerStops, jobVars, Cleaned
    <2>3. faults' \in 0..MaxFaults
      BY <2>1, FaultType DEF ContainerStops, IInv, NodeOK
    <2>4. /\ container' \in [Daemons -> Containers]
          /\ container[d] = "running" /\ container'[d] = "stopped"
          /\ \A c \in Daemons \ {d} : container'[c] = container[c]
      BY <2>1 DEF ContainerStops, IInv, NodeOK, Containers
    <2>5. NodeOK' /\ Keeps
      BY <2>1, <2>2, <2>3, <2>4 DEF ContainerStops, IInv, NodeOK, Keeps, Exists
    <2>6. Promises'
      BY <2>1, <2>5, PromiseStays DEF ContainerStops, jobVars, IInv, Promises
    <2>7. JobsOK'
      BY <2>1 DEF ContainerStops, jobVars, IInv, JobsOK, Fit
    <2> QED
      BY <2>5, <2>6, <2>7 DEF IInv
  <1>4. CASE Crash
    BY <1>4, ProcessEnds DEF Crash
  <1> QED
    BY <1>1, <1>2, <1>3, <1>4 DEF Disturbance

(* A step that moves no job and leaves the node as it is, but for the      *)
(* templates.                                                              *)
LEMMA TemplatesChange ==
    ASSUME IInv, Fault \/ NoFault, UNCHANGED <<phase, part, nodeVars>>,
           up' \in BOOLEAN, template' \subseteq Files
    PROVE  IInv'
  <1>1. faults' \in 0..MaxFaults
    BY FaultType DEF IInv, NodeOK
  <1>2. NodeOK' /\ Keeps
    BY <1>1 DEF IInv, NodeOK, Keeps, Cleaned, Exists, nodeVars
  <1>3. Promises'
    BY <1>2, PromiseStays DEF IInv, Promises
  <1>4. JobsOK'
    BY DEF IInv, JobsOK, Fit
  <1> QED
    BY <1>2, <1>3, <1>4 DEF IInv

(* Every step keeps the invariant.                                         *)
LEMMA StepOK ==
    ASSUME IInv, [LocalNext]_localVars
    PROVE  IInv'
  <1>1. CASE \E j \in Jobs : Deliver(j) \/ DeliverThrows(j) \/ JobStep(j) \/ PartStep(j)
    BY <1>1, DeliveryOK, CreationOK, StartOK, ListingOK, CleanupOK, ProvisionOK
       DEF JobStep, PartStep
  <1>2. CASE Disturbance
    BY <1>2, DisturbanceOK
  <1>3. CASE Respawn
    BY <1>3, TemplatesChange DEF Respawn, IInv, NodeOK
  <1>4. CASE MasterStep
    <2>1. template \subseteq Files /\ up \in BOOLEAN
      BY DEF IInv, NodeOK, JobsOK
    <2> QED
      BY <1>4, <2>1, TemplatesChange DEF MasterStep, Purge, Elsewhere, Upload, jobVars
  <1>5. CASE UNCHANGED localVars
    BY <1>5, TemplatesChange DEF localVars, jobVars, NoFault, IInv, NodeOK, JobsOK
  <1> QED
    BY <1>1, <1>2, <1>3, <1>4, <1>5 DEF LocalNext, NodeStep

(* Every initial state satisfies it.                                       *)
LEMMA InitOK ==
    ASSUME LocalInit
    PROVE  IInv
  <1> PICK J \in SUBSET Jobs, D \in SUBSET Daemons : StartWith(J, D)
    BY DEF LocalInit
  <1>1. \A j \in Jobs : phase[j] \in {"idle", "unasked"} /\ part[j] = NoParts
    BY DEF StartWith
  <1>2. JobsOK
    BY <1>1 DEF StartWith, JobsOK, Fit, NoParts
  <1>3. NodeOK
    BY DEF StartWith, NodeOK, Containers, Exists
  <1>4. Promises
    <2> SUFFICES ASSUME NEW j \in Jobs
                 PROVE  Promise(j)
      BY DEF Promises
    <2>1. j.op = "provision" => \A f \in Listed[j.on] : part[j][f] = "none"
      BY <1>1 DEF NoParts, Members
    <2> QED
      BY <1>1, <2>1 DEF Promise
  <1> QED
    BY <1>2, <1>3, <1>4 DEF IInv

(* So every reachable state does.                                          *)
LEMMA InvariantHolds == LocalSpec => []LocalInvariant
  <1>1. LocalInit => IInv
    BY InitOK
  <1>2. IInv /\ [LocalNext]_localVars => IInv'
    BY StepOK
  <1>3. IInv => LocalInvariant
    BY InvariantParts DEF IInv
  <1> QED
    BY <1>1, <1>2, <1>3, PTL DEF LocalSpec

(* Every step keeps the types, the stages that a job of each kind may be   *)
(* in, and what the members of its list stand for.                         *)
THEOREM InvariantCorrect == LocalSpec => []LocalInvariant
  BY InvariantHolds

(* The types of the node, its jobs and their members.                      *)
THEOREM TypeCorrect == LocalSpec => []LocalTypeOK
  <1>1. LocalInvariant => LocalTypeOK
    BY DEF LocalInvariant
  <1> QED
    BY <1>1, InvariantHolds, PTL

(* Whatever fails, and however often a creation is delivered: the agent    *)
(* watches every container that there is.                                  *)
THEOREM ContainersAreRegistered == LocalSpec => []ContainerIsRegistered
  <1>1. LocalInvariant => ContainerIsRegistered
    BY DEF LocalInvariant
  <1> QED
    BY <1>1, InvariantHolds, PTL

(* The loser of a race between creations leaves a container as well as the *)
(* winner does, unless a cleanup takes it away.                            *)
THEOREM CreationsLeaveContainers == LocalSpec => []CreateLeavesContainer
  <1>1. LocalInvariant => CreateLeavesContainer
    BY DEF LocalInvariant
  <1> QED
    BY <1>1, InvariantHolds, PTL

(* A start that is answered without a failure has its container run.       *)
THEOREM StartsRun == LocalSpec => []OkStartRan
  <1>1. LocalInvariant => OkStartRan
    BY DEF LocalInvariant
  <1> QED
    BY <1>1, InvariantHolds, PTL

(* A resource that is OK has every template that was listed, and one at    *)
(* least.                                                                  *)
THEOREM ResourcesAreComplete == LocalSpec => []OkResourceIsComplete
  <1>1. LocalInvariant => OkResourceIsComplete
    BY DEF LocalInvariant
  <1> QED
    BY <1>1, InvariantHolds, PTL
=============================================================================
