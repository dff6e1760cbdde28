------------------------------ MODULE LocalNode ------------------------------
(***************************************************************************)
(* What a node does with the requests it is given: the reactors of         *)
(* daemons and resources (local/daemon.reactor.js, local/resource.reactor. *)
(* js) over docker, consul's agent and the file system.                    *)
(*                                                                         *)
(* A handler is a chain of requests to docker or consul; between two of    *)
(* them other handlers, the containers themselves and the masters act.     *)
(* The same request may be delivered several times (ScopedStorage): each   *)
(* delivery is a job.                                                      *)
(***************************************************************************)
EXTENDS Naturals, FiniteSets

CONSTANTS
    Daemons,     \* the daemons of this node: the names of their containers
    Known,       \* the daemons whose driver the node has
    Resources,   \* the resources
    Files,       \* the templates in consul
    Listed,      \* Listed[r]: the templates whose key begins with the path of r
    Blank,       \* the templates that render to nothing
    Keyed,       \* what a listing of the daemons' keys may give: sets of them
    Jobs,        \* the deliveries that may come: [op, on, no]
    MaxFaults    \* bound: failures, crashes and acts of others

DaemonOps == {"create", "start", "stop", "remove", "cleanup"}
Ops == DaemonOps \union {"provision"}         \* a resource is provisioned

ASSUME ThingsAssumption ==
    /\ Known \subseteq Daemons
    /\ Listed \in [Resources -> SUBSET Files]
    /\ Blank \subseteq Files
    /\ Keyed \subseteq SUBSET Daemons
    /\ MaxFaults \in Nat
ASSUME JobsAssumption ==
    \A j \in Jobs :
        /\ j.op \in Ops
        /\ j.op # "provision" => j.on \in Daemons
        /\ j.op = "provision" => j.on \in Resources

VARIABLES
    up,          \* the fabric process runs
    phase,       \* the request that each job waits for
    part,        \* the same for the members of a list that a job works on
    container,   \* docker: the state of each daemon's container
    ran,         \* history: the daemons whose present container has been started
    registered,  \* the consul agent: the daemons with a service and a check
    template,    \* consul: the templates that are there
    file,        \* the file system: <<resource, template>> that are written
    faults

jobVars == <<up, phase, part>>
nodeVars == <<container, ran, registered, file>>
localVars == <<jobVars, nodeVars, template, faults>>

Working == {"register", "pull", "exists", "make", "status", "inspect", "go",
            "list", "parts"}
Ended == {"ok", "conflict", "failed", "lost"}  \* conflict: docker has it already
Begun == Working \union Ended
Members == Daemons \union Files
PartPhases == {"none", "entry", "check", "destroy", "fetch", "ok", "failed"}
PartWorking == {"entry", "check", "destroy", "fetch"}
NoParts == [x \in Members |-> "none"]

(* The process finds the node as docker and the agent left it: some of its *)
(* daemons run already.  Which jobs will come is up to the masters.        *)
StartWith(J, D) ==
    /\ up = TRUE
    /\ phase = [j \in Jobs |-> IF j \in J THEN "idle" ELSE "unasked"]
    /\ part = [j \in Jobs |-> NoParts]
    /\ container = [d \in Daemons |-> IF d \in D THEN "running" ELSE "none"]
    /\ ran = D
    /\ registered = D
    /\ template = Files
    /\ file = {}
    /\ faults = 0

LocalInit == \E J \in SUBSET Jobs, D \in SUBSET Daemons : StartWith(J, D)

Fault == faults < MaxFaults /\ faults' = faults + 1
NoFault == UNCHANGED faults

Goes(j, p) ==
    /\ up
    /\ phase' = [phase EXCEPT ![j] = p]
    /\ UNCHANGED <<up, part>>
PartGoes(j, x, p) ==
    /\ up
    /\ part' = [part EXCEPT ![j][x] = p]
    /\ UNCHANGED <<up, phase>>

(* An exception outside a promise ends the process, and with it every job. *)
Exit ==
    /\ up
    /\ up' = FALSE
    /\ phase' = [j \in Jobs |-> IF phase[j] \in Working THEN "lost" ELSE phase[j]]
    /\ part' = [j \in Jobs |-> [x \in Members |->
                  IF part[j][x] \in PartWorking THEN "none" ELSE part[j][x]]]

Exists(d) == container[d] # "none"

(***************************************************************************)
(* Delivery.                                                               *)
(***************************************************************************)
(* The removals parse a key of three levels where it has two: they throw   *)
(* on every key.  start and stop use their driver without looking at it.   *)
Throws(j) ==
    \/ j.op = "remove"
    \/ j.op \in {"start", "stop"} /\ j.on \notin Known

(* Variant of FirstPhase: the service is registered by whoever starts it.  *)
FirstPhaseUnregistered(j) ==
    IF j.op = "create" THEN IF j.on \in Known THEN "pull" ELSE "failed"
    ELSE IF j.op \in {"start", "stop"} THEN "status" ELSE "list"

FirstPhase(j) ==
    IF j.op = "create" THEN IF j.on \in Known THEN "register" ELSE "failed"
    ELSE IF j.op \in {"start", "stop"} THEN "status" ELSE "list"

Deliver(j) ==
    /\ phase[j] = "idle"
    /\ ~Throws(j)
    /\ Goes(j, FirstPhase(j))
    /\ NoFault
    /\ UNCHANGED <<nodeVars, template>>

(* The request stays as it is, and is met again after the restart.         *)
DeliverThrows(j) ==
    /\ phase[j] = "idle"
    /\ Throws(j)
    /\ Exit
    /\ NoFault
    /\ UNCHANGED <<nodeVars, template>>

(***************************************************************************)
(* Creating a daemon.                                                      *)
(***************************************************************************)
RegisterService(d) == registered' = registered \union {d}

(* Variant of Register: a registration that fails does not matter.         *)
RegisterMaybe(j) ==
    /\ phase[j] = "register"
    /\ RegisterService(j.on) \/ UNCHANGED registered
    /\ Goes(j, "pull")
    /\ NoFault
    /\ UNCHANGED <<container, ran, file, template>>

Register(j) ==
    /\ phase[j] = "register"
    /\ RegisterService(j.on)
    /\ Goes(j, "pull")
    /\ NoFault
    /\ UNCHANGED <<container, ran, file, template>>

Pull(j) ==
    /\ phase[j] = "pull"
    /\ Goes(j, "exists")
    /\ NoFault
    /\ UNCHANGED <<nodeVars, template>>

(* A chunk that is not one JSON object, or an error of the stream, which   *)
(* nobody listens to.                                                      *)
PullBreaks(j) ==
    /\ phase[j] = "pull"
    /\ Fault
    /\ Exit
    /\ UNCHANGED <<nodeVars, template>>

(* Variant of LookForContainer: the answer is taken the wrong way round.   *)
LookInverted(j) ==
    /\ phase[j] = "exists"
    /\ Goes(j, IF Exists(j.on) THEN "make" ELSE "ok")
    /\ NoFault
    /\ UNCHANGED <<nodeVars, template>>

LookForContainer(j) ==
    /\ phase[j] = "exists"
    /\ Goes(j, IF Exists(j.on) THEN "ok" ELSE "make")
    /\ NoFault
    /\ UNCHANGED <<nodeVars, template>>

CreateContainer(d) ==
    /\ container' = [container EXCEPT ![d] = "stopped"]
    /\ ran' = ran \ {d}

(* docker refuses a second container of the same name.                     *)
MakeContainer(j) ==
    /\ phase[j] = "make"
    /\ \/ /\ ~Exists(j.on)
          /\ CreateContainer(j.on)
          /\ Goes(j, "ok")
       \/ /\ Exists(j.on)
          /\ Goes(j, "conflict")
          /\ UNCHANGED <<container, ran>>
    /\ NoFault
    /\ UNCHANGED <<registered, file, template>>

(***************************************************************************)
(* Starting a daemon; stop calls the driver's start as well.               *)
(***************************************************************************)
(* Variant of AfterLook: a container that exists is taken to run.          *)
AfterLookExists(j, next) == IF ~Exists(j.on) THEN "failed" ELSE "ok"

AfterLook(j, next) ==
    IF ~Exists(j.on) THEN "failed"
    ELSE IF container[j.on] = "running" THEN "ok" ELSE next

(* The driver asks for the status of the container ...                     *)
LookAtStatus(j) ==
    /\ phase[j] = "status"
    /\ Goes(j, AfterLook(j, "inspect"))
    /\ NoFault
    /\ UNCHANGED <<nodeVars, template>>

(* ... and docker-utils looks again ...                                    *)
Inspect(j) ==
    /\ phase[j] = "inspect"
    /\ Goes(j, AfterLook(j, "go"))
    /\ NoFault
    /\ UNCHANGED <<nodeVars, template>>

RunContainer(d) ==
    /\ container' = [container EXCEPT ![d] = "running"]
    /\ ran' = ran \union {d}

(* ... before it starts it; docker refuses what is gone or runs already.   *)
StartContainer(j) ==
    /\ phase[j] = "go"
    /\ \/ /\ container[j.on] = "stopped"
          /\ RunContainer(j.on)
          /\ Goes(j, "ok")
       \/ /\ container[j.on] # "stopped"
          /\ Goes(j, IF Exists(j.on) THEN "conflict" ELSE "failed")
          /\ UNCHANGED <<container, ran>>
    /\ NoFault
    /\ UNCHANGED <<registered, file, template>>

(***************************************************************************)
(* Cleaning up: every daemon that has a key, side by side.                 *)
(***************************************************************************)
(* consul answers the listing of no keys by an error.                      *)
Lists(j, X) ==
    /\ phase[j] = "list"
    /\ up
    /\ phase' = [phase EXCEPT ![j] = IF X = {} THEN "failed" ELSE "parts"]
    /\ UNCHANGED up
    /\ NoFault
    /\ UNCHANGED <<nodeVars, template>>

ListDaemons(j) ==
    /\ j.op = "cleanup"
    /\ \E D \in Keyed :
          /\ Lists(j, D)
          /\ part' = [part EXCEPT ![j] =
                        [x \in Members |-> IF x \in D THEN "entry" ELSE "none"]]

(* The entry of the daemon names its driver; without either, the handler   *)
(* calls a method of nothing.                                              *)
ReadEntry(j, d) ==
    /\ part[j][d] = "entry"
    /\ \/ PartGoes(j, d, "failed")
       \/ d \in Known /\ PartGoes(j, d, "check")
    /\ NoFault
    /\ UNCHANGED <<nodeVars, template>>

(* The answer of the driver hides the daemon: what should follow, the      *)
(* deregistration and the removal of the key, fails every time.            *)
LookBeforeDestroy(j, d) ==
    /\ part[j][d] = "check"
    /\ PartGoes(j, d, IF Exists(d) THEN "destroy" ELSE "failed")
    /\ NoFault
    /\ UNCHANGED <<nodeVars, template>>

DestroyContainer(j, d) ==
    /\ part[j][d] = "destroy"
    /\ container' = [container EXCEPT ![d] = "none"]
    /\ ran' = ran \ {d}
    /\ PartGoes(j, d, "failed")
    /\ NoFault
    /\ UNCHANGED <<registered, file, template>>

(***************************************************************************)
(* Provisioning a resource: every template below its path, side by side.   *)
(***************************************************************************)
ListTemplates(j) ==
    /\ j.op = "provision"
    /\ LET F == Listed[j.on] \intersect template
       IN /\ Lists(j, F)
          /\ part' = [part EXCEPT ![j] =
                        [x \in Members |-> IF x \in F THEN "fetch" ELSE "none"]]

(* Variant of WriteFile: the parts of the path change places.              *)
WriteFileSwapped(r, f) ==
    file' = IF f \in Blank THEN file ELSE file \union {<<f, r>>}

(* What renders to nothing is not written.                                 *)
WriteFile(r, f) == file' = IF f \in Blank THEN file ELSE file \union {<<r, f>>}

Fetch(j, f) ==
    /\ part[j][f] = "fetch"
    /\ f \in template
    /\ WriteFile(j.on, f)
    /\ PartGoes(j, f, "ok")
    /\ NoFault
    /\ UNCHANGED <<container, ran, registered, template>>

(* The template has gone since it was listed: the callback dereferences    *)
(* the answer without a check.                                             *)
FetchNothing(j, f) ==
    /\ part[j][f] = "fetch"
    /\ f \notin template
    /\ Exit
    /\ NoFault
    /\ UNCHANGED <<nodeVars, template>>

(* Variants of PartsDone and PartsFail: the first success settles the      *)
(* list; a failure is not noticed.                                         *)
PartsDoneFirst(j) == \E x \in Members : part[j][x] = "ok"
PartsFailUnseen(j) == FALSE

(* Q.all: settled by the first failure, while the others go on.            *)
PartsFail(j) == \E x \in Members : part[j][x] = "failed"
PartsDone(j) == \A x \in Members : part[j][x] \in {"none", "ok"}

Join(j) ==
    /\ phase[j] = "parts"
    /\ \/ PartsFail(j) /\ Goes(j, "failed")
       \/ PartsDone(j) /\ Goes(j, "ok")
    /\ NoFault
    /\ UNCHANGED <<nodeVars, template>>

(***************************************************************************)
(* Failures.  A request that fails may have been carried out all the same. *)
(***************************************************************************)
Fails(j) ==
    /\ phase[j] \in Working \ {"parts"}
    /\ Fault
    /\ Goes(j, "failed")
    /\ \/ UNCHANGED nodeVars
       \/ /\ phase[j] = "register" /\ RegisterService(j.on)
          /\ UNCHANGED <<container, ran, file>>
       \/ /\ phase[j] = "make" /\ ~Exists(j.on) /\ CreateContainer(j.on)
          /\ UNCHANGED <<registered, file>>
       \/ /\ phase[j] = "go" /\ container[j.on] = "stopped" /\ RunContainer(j.on)
          /\ UNCHANGED <<registered, file>>
    /\ UNCHANGED template

PartFails(j, x) ==
    /\ part[j][x] \in PartWorking
    /\ Fault
    /\ PartGoes(j, x, "failed")
    /\ UNCHANGED <<nodeVars, template>>

ContainerStops(d) ==
    /\ container[d] = "running"
    /\ container' = [container EXCEPT ![d] = "stopped"]
    /\ Fault
    /\ UNCHANGED <<jobVars, ran, registered, file, template>>

(* The masters remove the templates with the app, and upload them again.   *)
Upload(f) ==
    /\ f \notin template
    /\ template' = template \union {f}
    /\ NoFault
    /\ UNCHANGED <<jobVars, nodeVars>>
Purge ==
    /\ template' = {}
    /\ Fault
    /\ UNCHANGED <<jobVars, nodeVars>>

(* A fault that does not concern the reactors.                             *)
Elsewhere == Fault /\ UNCHANGED <<jobVars, nodeVars, template>>

Crash == Fault /\ Exit /\ UNCHANGED <<nodeVars, template>>

Respawn ==
    /\ ~up
    /\ up' = TRUE
    /\ NoFault
    /\ UNCHANGED <<phase, part, nodeVars, template>>

JobStep(j) ==
    \/ Register(j) \/ Pull(j) \/ LookForContainer(j) \/ MakeContainer(j)
    \/ LookAtStatus(j) \/ Inspect(j) \/ StartContainer(j)
    \/ ListDaemons(j) \/ ListTemplates(j) \/ Join(j)
PartStep(j) ==
    \/ \E d \in Daemons : ReadEntry(j, d) \/ LookBeforeDestroy(j, d) \/ DestroyContainer(j, d)
    \/ \E f \in Files : Fetch(j, f) \/ FetchNothing(j, f)
Disturbance ==
    \/ \E j \in Jobs : PullBreaks(j) \/ Fails(j) \/ \E x \in Members : PartFails(j, x)
    \/ \E d \in Daemons : ContainerStops(d)
    \/ Crash

NodeStep ==
    \/ \E j \in Jobs : Deliver(j) \/ DeliverThrows(j) \/ JobStep(j) \/ PartStep(j)
    \/ Disturbance \/ Respawn
MasterStep == Purge \/ Elsewhere \/ \E f \in Files : Upload(f)
LocalNext == NodeStep \/ MasterStep

LocalSpec == LocalInit /\ [][LocalNext]_localVars

(* docker, the registry and consul answer, one way or the other; upstart   *)
(* restarts the process.  Nobody has to deliver anything.                  *)
LocalFairness ==
    /\ WF_localVars(Respawn)
    /\ WF_localVars(\E j \in Jobs : JobStep(j) \/ PartStep(j))

-----------------------------------------------------------------------------
LocalTypeOK ==
    /\ up \in BOOLEAN
    /\ phase \in [Jobs -> Begun \union {"idle", "unasked"}]
    /\ part \in [Jobs -> [Members -> PartPhases]]
    /\ container \in [Daemons -> {"none", "stopped", "running"}]
    /\ ran \subseteq Daemons /\ registered \subseteq Daemons
    /\ template \subseteq Files
    /\ file \subseteq Resources \X Files
    /\ faults \in 0..MaxFaults

(* No container without a check: whatever fails in between, and however    *)
(* often a creation is delivered, the service of a container is known to   *)
(* the agent, which watches it.                                            *)
ContainerIsRegistered == \A d \in Daemons : Exists(d) => d \in registered

(* The handlers of daemons answer OK whether they succeed or not.  What an *)
(* answer is worth all the same: of creations that race each other the     *)
(* loser, which docker refuses, leaves a container too; a start that       *)
(* succeeds has its container run, though it may be another start that did *)
(* it.  Only a cleanup, whenever it comes, takes that back.                *)
Cleaned == \E j \in Jobs : j.op = "cleanup" /\ phase[j] \in Begun
CreateLeavesContainer ==
    \A j \in Jobs :
        j.op = "create" /\ j.on \in Known /\ phase[j] \in {"ok", "conflict"}
            => Exists(j.on) \/ Cleaned
OkStartRan ==
    \A j \in Jobs :
        j.op = "start" /\ phase[j] \in {"ok", "conflict"}
            => j.on \in ran \/ Cleaned

(* A resource is OK only if every template that was listed is written, and *)
(* never on the strength of a part of them, nor of a deleted one.          *)
OkResourceIsComplete ==
    \A j \in Jobs :
        j.op = "provision" /\ phase[j] = "ok" =>
            /\ \E f \in Listed[j.on] : part[j][f] = "ok"
            /\ \A f \in Listed[j.on] :
                   \/ part[j][f] = "none"
                   \/ part[j][f] = "ok" /\ (f \in Blank \/ <<j.on, f>> \in file)

(* What these rest on: which requests a job of each kind waits for, what   *)
(* it has seen to before, and what the parts of a list stand for.          *)
JobsFit ==
    \A j \in Jobs :
        /\ phase[j] \in {"register", "pull", "exists", "make"} => j.op = "create"
        /\ phase[j] \in {"status", "inspect", "go"} => j.op \in {"start", "stop"}
        /\ phase[j] \in {"list", "parts"} => j.op \in {"cleanup", "provision"}
        /\ \A x \in Members :
              /\ part[j][x] \in {"entry", "check", "destroy"} =>
                    j.op = "cleanup" /\ phase[j] \in Begun /\ x \in Daemons
              /\ part[j][x] = "fetch" => j.op = "provision" /\ x \in Files
PartsStand ==
    \A j \in Jobs : j.op = "provision" =>
        /\ phase[j] \in {"parts", "ok"} =>
              \E f \in Listed[j.on] : part[j][f] # "none"
        /\ \A f \in Listed[j.on] :
              part[j][f] = "ok" => f \in Blank \/ <<j.on, f>> \in file
LocalInvariant ==
    /\ LocalTypeOK /\ JobsFit /\ PartsStand
    /\ ContainerIsRegistered /\ CreateLeavesContainer /\ OkStartRan
    /\ OkResourceIsComplete
    /\ \A j \in Jobs : phase[j] \in {"pull", "exists", "make"} => j.on \in registered
    /\ \A d \in Daemons : /\ container[d] = "running" => d \in ran
                          /\ d \in ran => Exists(d)

(* The node comes to rest: every handler ends, and so does what a handler  *)
(* that failed early left behind.                                          *)
AtRest ==
    \A j \in Jobs :
        /\ phase[j] \notin Working
        /\ \A x \in Members : part[j][x] \notin PartWorking
HandlersEnd == []<>AtRest
=============================================================================
