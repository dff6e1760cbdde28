----------------------------- MODULE FabricNode -----------------------------
(***************************************************************************)
(* One node of the cluster: its reactors at work (LocalNode), and the      *)
(* views that its HTTP API gives while they are (ClusterViews).  The two   *)
(* meet in the process, which ends for both, in the services that the      *)
(* creation of a daemon registers with consul's agent, which passes them   *)
(* on to the servers in its own time, in the checks that it runs on their  *)
(* containers, and in the keys of the apps, which go together with the     *)
(* templates of their resources.                                           *)
(***************************************************************************)
EXTENDS LocalNode, Sequences, SequencesExt

CONSTANTS
    Self,        \* this node
    Apps,
    Under,       \* Under[a]: the apps whose key begins with the key of a
    Home,        \* the app that the resources belong to
    ViewOf, Queries, Contents,
    Scenarios    \* what may come together: sets of jobs, queries and what runs

ASSUME AppsAssumption ==
    /\ Home \in Apps
    /\ Under \in [Apps -> SUBSET Apps]
    /\ \A a \in Apps : a \in Under[a]
    /\ \A a \in Apps : ViewOf[a].one => ViewOf[a].daemon \in Daemons

(* What is read at once is finite: the daemons of a node, and the keys     *)
(* below a prefix.  A node and a daemon are not the same thing.            *)
ASSUME ListsAssumption ==
    /\ IsFiniteSet(Daemons) /\ Self \notin Daemons
    /\ \A E \in Contents : IsFiniteSet(E)

VARIABLES
    apps, known,
    catalog,     \* consul's servers: the check of each service, if they know it
    query, item, kept, seen

clusterVars == <<apps, known, catalog>>
viewVars == <<query, item, kept, seen>>

CheckResults == {"passing", "warning", "critical"}

(* What the views read is what the servers know.                           *)
Shown == {d \in Daemons : catalog[d] # "none"}

(* The checks of a node: that of its agent, and one for each service.      *)
ServiceChecks(D) == LET s == SetToSeq(D) IN [i \in DOMAIN s |-> catalog[s[i]]]
Checks ==
    [x \in {Self} \union Daemons |->
        <<"passing">> \o (IF x = Self THEN ServiceChecks(Shown)
                          ELSE IF x \in Shown THEN <<catalog[x]>> ELSE <<>>)]

Views == INSTANCE ClusterViews WITH
            Nodes <- {Self}, Services <- Daemons, services <- Shown,
            checks <- Checks

vars == <<localVars, clusterVars, viewVars>>

Runs(d) == [runs |-> d]

Init ==
    /\ \E S \in Scenarios :
          /\ StartWith(S \intersect Jobs, {d \in Daemons : Runs(d) \in S})
          /\ Views!StartWith(S \intersect Queries)
    /\ apps = Apps
    /\ known = {Self}
    /\ catalog = [d \in Daemons |-> IF d \in registered THEN "passing" ELSE "none"]

(* The process ends with all it has under way.                             *)
ViewsFollow ==
    /\ IF up /\ ~up' THEN Views!Lose ELSE UNCHANGED viewVars
    /\ UNCHANGED clusterVars
NodeActs == NodeStep /\ ViewsFollow

Answers(q) == Views!QueryStep(q) /\ UNCHANGED <<localVars, clusterVars>>
Asks(q) == Views!Ask(q) /\ UNCHANGED <<localVars, clusterVars>>
QueryFails(q) ==
    /\ Views!QueryFails(q)
    /\ Elsewhere
    /\ UNCHANGED clusterVars

(* The removal of an app deletes every key that begins with its own: the   *)
(* templates of its resources, and the apps whose name extends its name.   *)
RemoveApp(a) ==
    /\ a \in apps
    /\ apps' = apps \ Under[a]
    /\ IF Home \in Under[a] THEN Purge ELSE Elsewhere
    /\ Views!Forget(Under[a])
    /\ UNCHANGED <<known, catalog>>

InstallApp(a) ==
    /\ a \notin apps
    /\ apps' = apps \union {a}
    /\ Elsewhere
    /\ UNCHANGED <<known, catalog, viewVars>>

UploadTemplate(f) ==
    /\ Home \in apps
    /\ Upload(f)
    /\ UNCHANGED <<clusterVars, viewVars>>

(* The session of the node expires and takes its key along.                *)
NodeExpires ==
    /\ known # {}
    /\ known' = {}
    /\ Views!Forget({Self})
    /\ Elsewhere
    /\ UNCHANGED <<apps, catalog>>

CatalogShows(d, s) ==
    /\ catalog' = [catalog EXCEPT ![d] = s]
    /\ UNCHANGED <<localVars, apps, known, viewVars>>

(* The agent passes a service on to the servers, with a check that has not *)
(* run yet, some time after it has accepted its registration.              *)
Sync(d) ==
    /\ d \in registered
    /\ catalog[d] = "none"
    /\ CatalogShows(d, "critical")

(* The agent runs the check of a service every 15 seconds: the script      *)
(* exits with 0 for a running container, or with 1 if docker calls it a    *)
(* ghost, and with 2 or 3 for any other.                                   *)
RunCheck(d) ==
    /\ catalog[d] # "none"
    /\ \E s \in CheckResults :
          /\ (s = "critical") = (container[d] # "running")
          /\ CatalogShows(d, s)

Next ==
    \/ NodeActs
    \/ \E q \in Queries : Asks(q) \/ Answers(q) \/ QueryFails(q)
    \/ \E a \in Apps : RemoveApp(a) \/ InstallApp(a)
    \/ \E f \in Files : UploadTemplate(f)
    \/ \E d \in Daemons : Sync(d) \/ RunCheck(d)
    \/ NodeExpires

Spec == Init /\ [][Next]_vars

(* consul and docker answer, upstart restarts the process.                 *)
Fairness ==
    /\ WF_vars(Respawn /\ ViewsFollow)
    /\ WF_vars((\E j \in Jobs : JobStep(j) \/ PartStep(j)) /\ ViewsFollow)
    /\ WF_vars(\E q \in Queries : Answers(q))
FairSpec == Spec /\ Fairness

-----------------------------------------------------------------------------
(* The types of the node, of the lists asked of it, and of what the store  *)
(* holds.                                                                  *)
TypeOK ==
    /\ LocalTypeOK /\ Views!ViewsTypeOK
    /\ apps \subseteq Apps /\ known \subseteq {Self}
    /\ catalog \in [Daemons -> CheckResults \union {"none"}]
(* A list of apps, nodes or services that answers has all that was there   *)
(* from its listing to its answer, each with what its entry says.          *)
ListsAreComplete == Views!ListsAreComplete
(* The health that a list gives an item is the worst of its checks.        *)
HealthIsWorst == Views!HealthIsWorst
(* The two books of the status agree with its keys and with each other.    *)
StatusAddsUp == Views!StatusAddsUp

(* It has no container, or the agent has still to pass its service on.     *)
ComesUp(d) == ~Exists(d) \/ (d \in registered /\ catalog[d] = "none")

(* The view of one app can break the list of all of them, but only while   *)
(* the app comes up: it has no container, or its service is on the way     *)
(* from the agent to the servers.  No container can be there whose service *)
(* nobody passes on: it is registered before the container is made.        *)
OnlyAppsComingUpBreakLists ==
    [][\A q \in Queries, a \in Apps :
          item'[q][a].at = "broken" /\ item[q][a].at # "broken" =>
              ComesUp(ViewOf[a].daemon)]_vars

(* Handlers and queries all come to an end, whatever happens meanwhile.    *)
EverythingEnds == []<>AtRest /\ []<>Views!Quiet
=============================================================================
