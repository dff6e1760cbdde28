# Verification of bigboards-fabric

Fabric is the daemon that runs on every node of a BigBoards cluster. It joins
its node to the cluster (through a consul agent it spawns), lets the user
install and remove applications, and starts their containers on the nodes. The
fabric processes never talk to each other: they write keys into consul's
key/value store and watch them. This directory holds TLA+ modules of that
system, TLC instances of them and TLAPS proofs about them. Paths below are
relative to `src/`.

## 1. The system

### Components

| Component | Code | State | Operations |
|---|---|---|---|
| storage requests | `code/cluster/storage/index.js` | the promises of the calls under way, their watches and timers | create, update, remove, removeSync, signal |
| storage watcher | `code/cluster/storage/watcher.js`, `code/store/kv.js` | the watch on a prefix, the handlers and flag writes under way | start, stop, delivery to a reactor, `kv.flag` |
| reactors | `code/master/app.reactor.js`, `code/local/{daemon,resource}.reactor.js` | none | processCreate, -Update, -Remove, -Cleanup, -Start, -Stop |
| membership | `code/membership`, `code/local/index.js`, `code/store/session.js`, `code/settings`, `code/server.js` | the link (settings on disk), watches, renewal timer, current session | join, leave, start, stop, boot, race for the leader |
| consul daemon | `code/daemons/consul.js` | the child process | start, exit |
| instances expressions | `code/expression/index.js` | the shared array of node ids | one filter per part |
| app deployment | `code/master`, `code/cluster/cluster-apps.service.js`, `code/cluster/index.js` | an app's install or removal under way | install, uninstall, dispatch to nodes |
| local daemons, resources | `code/local/daemon.js`, `drivers/docker-driver.js`, `resource.js`, `utils/{docker,consul,fs}-utils.js` | containers, services and their checks, files | create, remove, start, stop, clean; provision |
| lists, status, health | `code/cluster/cluster-*.service.js`, `code/store/{catalog,health,services}.js` | the queries under way | list apps, nodes, services; status |
| git provider | `code/master/resources/git.provider.js` | a clone under way | clone, checkout, upload |
| rpc, events | `code/store/{rpc,events}.js` | watches on events | call, handle, fire |
| hive, registry, auth, UI, CLI | the rest | none of the cluster's | proxies, presentation |

How they interact. A user calls the HTTP API of any node. Installing an app
writes `apps/<app>`; the node that won the race for the leader watches `apps`
and dispatches the app: it writes one key per daemon and resource under
`nodes/<node>/daemons` and `nodes/<node>/resources`, and waits for the answer in
the flags of the key. Each node watches its two prefixes and runs its reactor.
Everything between processes is thus a *request* of the storage layer: an
operation and a state (NEW, PENDING, OK, FAILED) in the flags of a key.

### What is hard

- Every access to consul is a request and a callback; between the read and the
  write of a flag anything may happen (`kv.js:102-125`).
- A watch replies with the whole prefix, and misses intermediate states.
- Two callers, or a caller and the owner, write the same key.
- An exception in any callback ends the process (`consul.js:42-45`); upstart
  restarts it, and it starts its watches from what the store holds.
- Calls time out while the owner works on; `remove` forgets its rejection.
- Starts and stops of a node overlap; each start is a chain of steps.
- The handlers of a node check docker, and act on the answer in a later request;
  they are delivered more than once, and report success when they fail.
- A list is a read of names and a read for each of them, while the cluster goes on.

`PROJECT.json` lists each of these hazards at its line, with the properties that
would catch it going wrong.

### What makes each component correct

- Storage: a promise resolves only if the owner did what was asked; no key is
  deleted on a failed remove; data reaches the handler; calls settle; requests
  are picked up after a restart.
- Membership: nothing runs on a node that is not linked; watches and timers
  stay bounded; the sessions of earlier starts expire; a start ends; to leave is to
  unlink; there is one master.
- Expressions: no node is selected that a part of the expression rejects.
- Deployment: daemons are started only after all were created; an app's key
  goes only after the nodes have carried out the removal of what was found on them; an
  installation ends; an undisturbed one starts every daemon; the entry says what
  a run has done.
- Local daemons and resources: no container without its service; what an `OK`
  is worth although errors are swallowed; a resource is complete or not reported.
- Views: a list is complete for what was there all along; the status adds up; the
  health of a node is its worst check; an app breaks the list of apps only while it
  comes up; every query is answered.

## 2. The modules

| Module | Models | Uses |
|---|---|---|
| `RequestContract` | what the storage layer promises its callers | |
| `ScopedStorage` | the request protocol step by step | `RequestContract` (refinement) |
| `MCScopedStorage` | instances for TLC | `ScopedStorage` |
| `ScopedStorageProofs` | theorems | `ScopedStorage`, `RequestContract` |
| `NodeExpression`, `MCNodeExpression`, `NodeExpressionProofs` | the filters of an expression | |
| `Membership`, `MCMembership`, `MembershipProofs` | joining, starting, stopping, the leader | |
| `AppDeployment`, `MCAppDeployment` | installing and removing an app over the nodes | the outcomes `ScopedStorage` allows a call, `NodeExpression` as a constant |
| `AppDeploymentProofs` | theorems | `AppDeployment` |
| `DeploymentRequests`, `MCDeploymentRequests` | the requests of the runs as calls of the storage layer | `AppDeployment` (extended), `RequestContract` (refinement) |
| `DeploymentRequestsProofs` | theorems, the refinement | `DeploymentRequests`, `AppDeploymentProofs` |
| `LocalNode`, `LocalNodeProofs` | what a node does with a request: docker, the agent, files | |
| `ClusterViews` | what the API shows: lists and status | |
| `FabricNode`, `MCFabricNode` | a node with its reactors and its views | `LocalNode` (extended), `ClusterViews` (instance) |
| `FabricNodeProofs` | theorems, the refinement of `LocalNode` | `FabricNode`, `LocalNodeProofs` |
| `ClusterViewsProofs` | theorems about the health and the status | `FabricNode`, `FabricNodeProofs` |

### ScopedStorage

One prefix of the store, its owner and the callers. `store[k]` is the entry of a
key: the operation and its state from the flags, the value as far as it matters
(`"data"`, or `"null"` for an empty one), and the call that asked for it, which the code does not
keep but its properties are about. `phase[c]` follows a call through the code:
`get` and `set` are requests to consul under way, `watch` is `watchAndWait`, `del`
is the deletion after a remove. `CallGet`, `CallSet`, `CallSees`,
`CallSeesNothing`, `CallTimesOut`, `CallDel` and `CallError` are the callbacks of
`index.js`. `read[c]` is what the call will write.

For the owner, `Deliver` is the watch's reply together with the listener it
calls for every NEW entry (one synchronous turn of the event loop): a run of the
handler is added to `handling` and the writer of PENDING to `flag`.
`HandlerSettles` is the promise of the reactor, which starts the writer of the
outcome. `FlagGet` and `FlagSet` are the two halves of `kv.flag`. Runs are
numbered, since the same request may be delivered again and have two handlers.
`Exit` is the end of a process with all it had under way, wherever it comes
from: a crash, a callback that throws (`CallSeesNothing`, the error callbacks of
`remove` that use undefined variables) or a handler that throws
(`DeliverThrows`). `Respawn` is upstart.

Reductions, and why they lose nothing here:

- A read of consul and its callback are one step: the value a callback works on
  may be older than the step, but the code only decides on it and every
  decision on an older value is the decision of an earlier step; the *writes* that
  follow are steps of their own, so that lost updates are all there.
- A blocking query that returns is a step of `CallSees` at any moment the key has
  the state; states may be missed, as with consul's index.
- A crash drops the requests under way. A write that reached consul before the
  crash is the behaviour in which the write comes first.
- The flags of an operation are one value: the bits of two operations are never
  set together by any writer.

The reactor is the constant `Reactor` (the outcomes of a handler, none if
the reactor has no handler) and `Throws` (where it throws synchronously), so that one
module stands for the three watchers of the program and any other.

### RequestContract

The abstract specification: a call is idle, waiting, acknowledged or failed; it
settles once; it is acknowledged only if a request for the same operation on the
same key has been carried out. `ScopedStorage!Contract` instantiates it with the
mapping of phases, and `ImplementsContract` is both checked by TLC and proved.
`DeploymentRequests` instantiates it too, with the calls of the masters' runs. What
has been carried out (`done`) is a set of pairs of a key and an operation, since
neither the code nor the contract tells requests of one kind apart; several calls
are made in one step (`Ask`) where a list of nodes arrives.
The contract does *not* promise that it was the caller's own request: with two
creates of one key the second may be acknowledged by the OK of the first
(`index.js:281` compares operations only).

### NodeExpression

`nodes.splice(nodes.indexOf(node))` inside `nodes.forEach` removes the rest of the
array, not one node. The module keeps the array, forEach's index and the
length it started with. What the code computes is stated by
`SelectsLongestPrefix`: the longest prefix of the list that all parts accept.
That is sound (nobody is selected who is rejected) but drops accepted nodes
that come after a rejected one.

### Membership

A start is a process of its own (`phase[n][s]`): `pidof`, `spawn`, `session`,
`introspect`, `register`, `watch`, `race`, with `failed` for the swallowed error of
`local/index.js:126`. A start that spawns the agent waits for it (`syncing`) until the agent
prints that it is synced (`ConsulSyncs`), and fails if the agent exits by an error; an agent
that finds no cluster prints nothing, and one that exits with 0 rejects nothing (`hung`), so
that this wait may never end (`consul.js:121-144`). `held` and `leaked` count the watches and the timer: opening
one again overwrites its reference (`watcher.js:99`, `local/index.js:87`), which
the process can never end afterwards. `link` is the settings file: `"partial"` is
a join that was interrupted between two of its five writes. `left` is a history variable:
the nodes that were told to leave and not to join again since. `sessions`, `lock`
and `leader` are consul's: sessions expire after their ttl unless the timer
renews the current one, and release the node's key. `Introspect` is the one thing of
`introspecter.js` that a start waits for and that may be refused; the facts it collects, addresses
and the branch of the minion (never reached, since the write of the leader key
without a session always succeeds) are left out.

### AppDeployment

One app, the nodes, and the masters whose watch delivers its entry. `app` is the
entry `apps/<app>`; `cell[<<item, node>>]` is the entry of the app's daemons or
resources on a node. A *run* `r = <<request, delivery>>` is one call of
`processCreate` or `processRemove`: `run[r].phase` is the link of the promise chain
it waits in (`load`, `create`, `start`; `remove`, `purge`), `call[r][c]` the request to a cell, from
the list of nodes (`unlisted`) over the reads and writes to its outcome.
`Load`, `Created`, `Started`, `Removed`, `Purge` are the `then`s of
`app.reactor.js`; `Abort` is `Q.all` rejecting at the first failure, while the
other calls go on; `Rejects` says whose failures reject, since the remote nodes
swallow those of resources and of signals. `Look`, `Set`, `Sees`, `TimesOut`,
`Delete` are the calls of the storage layer as the caller sees them. `Flag` is a
flag written into the app's entry, by the watcher (PENDING, the outcome) or by
`uninstallApp`, whatever became of it: `writers` are the `kv.flag`s under way,
and one that may have read the entry before it was deleted (`held`) brings it back.
`PickUp` and `Answer` are a node serving a key: `serving` has its handlers and the flags
they send (PENDING at once, the outcome in the end), which nobody waits for; `FlagKey` is
one that arrives, over whatever the entry says by then, also over one that was deleted
since it was read (`held`, set by `Erase`). Until PENDING arrives the request is NEW and may be
picked up again. `Exit` ends a process with all
its runs: by a crash, or because a watch was shown a deleted key
(`SeesNothing`). `done` is a history variable: what the nodes carried out.

How it relates to the other modules, and what is coarser:

- A call here has the outcomes that `ScopedStorage` gives it: it resolves on an
  OK of its operation, rejects on a FAILED, on another operation or on a
  timeout, ends the process on a deleted key, and `remove` hangs. `ScopedStorage` checks and proves these;
  this module composes many of them, and `DeploymentRequests` shows that both keep to one contract.
- The write of `kv.flag` does not depend on the value it read, only on whether there
  was one: the step of the writer is the write, and `held` stands for an earlier read.
  This is so for the entry of the app (`Flag`) and for the keys of the nodes (`FlagKey`).
- A call is answered by an error although consul carried its write out, or its deletion
  (`RequestFails`).
- A node keeps one key per kind of item. An app of several daemons has the same
  interleavings among its nodes as among its daemons: `Q.all` is nested.
- `Chosen` stands for an instances expression (`NodeExpression`); the proofs hold for any.
- `Answers` are the outcomes of the nodes' reactors; as the code is, removals
  have none, since the reactors throw. `deploy_remove` gives them all, to see
  what the masters do when the nodes work.
- A repository that cannot be cloned ends the process (`repo` is undefined,
  `git.provider.js:77-80`): it is a `Crash`. A file that cannot be stored leaves
  a run that never settles (`lost`). The files stored under `apps/` are one of the
  reasons a request is delivered twice.
- What becomes of the calls of a settled run is followed, their outcomes are not.

### DeploymentRequests

`AppDeployment` has one picture of a call for each run and key, and forgets it when
the run goes on to its next phase. The contract of the storage layer has one call
for each run, key *and* operation, which is answered once and never again. `told[q]` is a
history variable that follows what the caller of `q` has been told (`Heard`): the call of the
current phase is waiting until it is `ok` or has failed; a removal is acknowledged
when its key is to be deleted, whatever becomes of `removeSync`; a process that ends
fails what it waits for; a call that is forgotten, or whose promise is lost
(`hung`), stays as it is. `Contract` is `RequestContract` with these calls, and
`KeepsToContract` says that all runs together keep to it: the deployment gets from
the storage layer what `ScopedStorage` proves that it gives, and takes no
acknowledgement that the contract does not have.

### LocalNode

A *job* is a delivery of a request to the node's reactors, `phase[j]` the request
to docker or the agent that its chain waits for: `register`, `pull`, `exists`,
`make` for a creation (`docker-driver.js`), `status`, `inspect`, `go` for a start
or a stop (which calls the driver's start), `list` and `parts` for the two that
work on a list, the cleanup of daemons and the provisioning of a resource;
`part[j][x]` follows the members of that list. `Join` is `Q.all`. Between two
requests other jobs act, containers end by themselves, masters delete and upload
templates. `MakeContainer` and `StartContainer` have the answers of docker: a name
that is taken and a container that runs are refused (`conflict`). The reactors
swallow the errors of daemons, so that `failed` and `conflict` are answered OK
too: the properties say what each of them is worth. `Fails` has a request fail
before or after it was carried out. `Exit` ends the process: a broken
pull (`PullBreaks`), a missing template (`FetchNothing`), a removal or a daemon of
an unknown driver (`DeliverThrows`). `ran` is a history variable.

### ClusterViews and FabricNode

`ClusterViews` has the queries of the API. A list is a read of names (`List`)
and one or two reads for each (`item[q][x].at`), joined by `Q.all` (`JoinItems`);
the status is two reads side by side. `kept` is a history variable: the names on
the list that have been there since they were listed. `Worst` and `StatusOf` are the two
folds of the code, over the checks of a node and over the keys below `nodes/`;
the status is computed on every content the constant `Contents` has. A status keyed
by flags that the code does not initialise is `NotANumber`.

`FabricNode` composes them: the process (`up`) ends for the handlers and the
queries at once (`ViewsFollow`). What the creation of a daemon registers is known to the local
agent (`registered`, `services.js:11-21`); the lists of services, the views of the
apps and the checks of the node are read from the servers (`catalog`,
`catalog.js:27-55`, `health.js`), to which the agent passes a service on in its own
time, as critical until its check has run (`Sync`). `RunCheck` is the script of a service's check,
with its three results. `RemoveApp` deletes keys of apps by
prefix, with the templates of the app the resources belong to. `FabricNodeProofs`
shows that it implements `LocalNode`, so that what is proved of the node alone
holds in the composition.

## 3. The runs

| Run | Instance | Question |
|---|---|---|
| `storage_safety` | two creates of one key by two processes, two runs per request; or three of: create and start of a daemon, remove and removeSync of a key that its name extends. A start that throws; one crash, stop or error | is an acknowledgement ever unfounded? Does the data of the create reach the handler of the start? Does a key ever vanish on a failed or unanswered remove? Checks the inductive invariant and the refinement too (888,166 states) |
| `storage_live` | create and update under fairness, one crash or stop | does everything settle, and get picked up if a stopped watcher is started again? |
| `storage_once` | two keys created side by side | *violated*: is a request handled by one handler at a time? |
| `storage_crash_loop` | one remove with the daemon reactor, under fairness | *violated*: is a remove ever picked up? |
| `expression_all` | all expressions of up to two parts, lists of up to three nodes | what does an expression select? |
| `membership_node` | one node, two starts, three faults, under fairness | what does a node own, and does it let go of it? Do its starts end? (29,486 states) |
| `membership_leave` | one node, one start, no fault | *violated*: does leaving unlink the node? |
| `membership_masters` | two nodes, one start each | *violated*: is there one master? |
| `deploy_install` | one node, an installation and another request or a fault, the reactors as they are, up to two flags late at once, under fairness | does an installation end, and does an undisturbed one start the daemons? Do the calls of two runs keep to the contract of the storage layer? Checks the inductive invariant of the calls too (41,337 states) |
| `deploy_remove` | one node with daemons and resources, two requests or one request and one fault, reactors that answer, a flag late | does an installation or a removal go on too early? Does the entry of the app say what a run has done? Checks the inductive invariant too (600,746 states) |
| `deploy_uninstall` | one node, two requests, the reactors as they are, under fairness | *violated*: does uninstalling remove the app? |
| `fabric_node` | ten scenarios of one node: deliveries that race each other, or a query while a daemon comes up; two faults, under fairness | what is an answer of a handler worth, what do the views show, does everything end? (99,261 states) |

Bounds. Two processes are enough to have the caller and the owner apart, and
two callers to have them collide; two keys are needed only where a deletion
or a delivery reaches across keys. `Together` says which calls are made in one
behaviour: in `storage_safety` the two rivals, or all of the other four but one, since
all four at once with a fault are more than TLC checks in minutes. `MaxRuns` bounds the handlers
of a request: two for the rivals, where they show every effect of
a handler that runs twice (a third one writes the same flags), one for the others. One fault
(`MaxFaults`: a crash, a stop of the watcher, an error) at any point covers the single faults;
combinations are covered by the
proofs, which have no bounds. Two overlapping starts of a node show every leak
and every race between them, and three faults let the process, its consul and a
request fail; expressions of two parts show one filter working
on the array another one cut.

In the deployment two requests have two runs write the same keys; two kinds of items
on one node are two calls that `Q.all` joins, and
those of more nodes are joined the same way. `MaxEvents` bounds requests and faults together: two
requests meet, where calls time out and are disturbed but nothing fails, or one request
meets a failure, a crash or a node that comes or goes. `MaxRuns` is the number of deliveries of one
request: one. `MaxFlags` is the number of flags of the nodes' keys that are on their way at
once: in `deploy_install` two while a single request is under way undisturbed, so that PENDING and the
outcome of a creation can both be late, and one from the second event on; in `deploy_remove` one.
`MaxWriters` is the number of flags of the app's entry that are on their way when a run begins:
none, which leaves those that come while it is under way. More of everything, and all of it
together, is in the
proofs, which hold for any bounds. The history `told` multiplies the states, so that `deploy_install` follows it, where
two runs write the same keys; the calls of removals are in the proof.

In `fabric_node` the initial states choose one of the scenarios of `MCFabricNode`,
each a few jobs and queries that meet in what they touch: two creations and a
start of one container, two starts and a stop, a cleanup (which may find any of
`Keyed`: no daemon, one, or one without a driver next to it), daemons without a driver
and removals that throw, two resources of which the path of one extends the
other's, and each kind of query next to a daemon that comes up, the list of nodes also next to a
daemon that runs already (`Runs`), so that a node has up to three checks of different results. Jobs and queries
that share nothing but the process need not be together, and the proofs have no
scenarios: any jobs and queries may come. Two faults let a container end, a
template vanish or a request fail, and the next step fail as well. The contents of
`nodes/` are all subsets of five keys of two nodes, which have every form of key
and flags inside and outside the counters.

Deadlock is not checked: all calls may be settled, and nobody has to make another.

Each property has a mutant in `PROJECT.json`: a variant of one definition, as a
plausible mistake in the code would change it (a flag that is not checked for an entry, a
field written from the wrong variable, a callback that is forgotten), under which the property is violated.
None of them lifts a bound. The variants stand next to the definitions they vary and are used nowhere else.

Fairness. consul answers requests and watches, or refuses them; the timer of
`watchAndWait` fires; handlers finish; upstart restarts a dead process
(`bigboards-fabric.conf:10-11`; the limit of 99 restarts in 5 seconds is not
reached by a process that takes longer than that to start). In `Membership`,
the steps of a start go on and sessions that nobody renews expire; that a consul that was
spawned ever says that it is synced is not assumed, and `StartsEnd` excepts the start that waits for
that. No fairness is assumed of callers, of the
API, of errors or of crashes. A watcher that was stopped is started again only by a user
(`watcher.js:103-105`, `local/index.js:136-152`): that it is, `RequestsArePickedUp` names as its
hypothesis (`WatchedAgain`). In `AppDeployment`
the masters' promises go on and their watches deliver, and flags of the app's entry arrive; nodes need not serve
anything, and their flags need not arrive, since a call times out: `InstallEnds` holds without them, and
`UndisturbedInstallStarts` names their fairness as its hypothesis
(`NodesServe`), and that no flag of the creation is so late that it meets the start
(`LateFlag`): it would be written over the request, which then nobody sees. In `FabricNode` docker, the registry and consul answer every request one way or the
other, upstart restarts the process, and nobody has to deliver, ask or serve
anything else; the agent need not pass anything on, nor run a check. The weakest of these assumptions is
`HandlerSettles`: no timeout guards a handler. Without it a call still settles by its timeout.

## 4. The proofs

TLC checks small instances; the theorems hold for all values of the constants
that satisfy the named assumptions (`KeysAssumption`: every key is under itself;
`CallsAssumption`: calls name keys, operations and processes;
`ReactorAssumption`; `BoundsAssumption`; `PartsAssumption`; in `AppDeployment`, `AppAssumption`: an expression selects
from the nodes it is given; `AnswersAssumption`; `ThingsAssumption`, `JobsAssumption` and `AppsAssumption` say what the jobs and the views
of a node are about, `ListsAssumption` that they are finite; `NodesAssumption`: no node has the name that stands for no leader), which TLC evaluates in every run.

`ScopedStorageProofs`:

- `TypeCorrect`: `Spec => []TypeOK`, with one lemma per shared operator
  (`WriteType`, `DeleteType`, `ExitType`, ...) and one step per action.
- `ProtocolCorrect`: `Spec => []ProtocolInvariant`. `AckIsServed` alone is not
  inductive: a call may have seen an OK that a flag writer is still carrying, so
  the invariant follows an OK back through its whole life: a handler that succeeded,
  the writer of its outcome, the entry, the call. The
  argument is by the kind of step: `StoreSteps` (how entries change),
  `FlagSteps` (how writers change), `HandlingSteps`, `AckSteps`, and
  `HistoryGrows` (what was asked and served stays so), combined in
  `InvariantStep`.
- `AcksAreServed`, `DeletionsAreRequested`: consequences for the callers.
- `HandlersGetData`: by an invariant of its own (`DataInvariant`), which follows an
  empty value through everything that may carry it: an entry, a call that has
  read one, and a flag writer between its two halves. A flag writer never brings
  a NEW back, since it writes PENDING or an outcome.
- `KeepsContract`: every step is a step of the contract or a stutter
  (`MoveRefines`, `AckRefines`, `ExitRefines`, `CallStepRefines`,
  `OwnerStepRefines`).

`NodeExpressionProofs`: `LoopCorrect` proves the loop invariant (the array is a
prefix of the list; what was visited is accepted; what was cut first is
rejected), `LongestPrefix` its consequence, for lists and expressions of any
length.

`AppDeploymentProofs`:

- `DeploymentCorrect`: `Spec => []DeploymentInvariant`, for any set of nodes,
  expression, reactors, number of requests, deliveries and faults. That a run
  starts only what was created is not inductive: the invariant says what an `ok` of a call stands for
  (a handler that succeeded) and which calls may be under way in which phase, and follows an OK
  from the handler over the flag on its way to the entry. Nothing is claimed of the
  key of an acknowledged removal: a late flag may bring it back. The argument
  separates the entries (`CellSteps`) from the runs: a step leaves all runs
  *quiet* but one at most (`QuietSteps`); quiet runs keep their claims
  (`QuietKeeps`), and so does the one that moves (`CallMoveKeeps`, `MovedKeeps`).
- `TypeCorrect` follows; its part of the steps is `CallStepType`, `RunStepType`
  and `OtherStepType`.
- `StartsAreFounded`: only `Created` takes a run to its start, and a creation
  that failed or timed out keeps `AllFulfilled` from holding. `AppLast`: a run that purges has
  only acknowledged calls, and each stands for a removal that a node carried out.

- `OutcomesAreReported`: a run that was begun never turns from an installation into a
  removal, and never runs again once it is over (`RunEffects`), so that what was
  true when a flag was to be written is true when it is (`ReportedStays`).

`DeploymentRequestsProofs`:

- `RequestsCorrect`: `ToldSpec => []RequestsInvariant`. The contract needs to know that a
  call was idle when it is made and waiting when it is answered, which `AppDeployment` does not
  record: the invariant says that the picture of a call in its phase is what its caller
  was told (`CallIsTold`), that nothing was asked before its phase (`TooEarly`), that
  the calls of one list come and go together (`ListedTogether`), and that every
  request on a key, or in the hands of a node, was made by a run. The argument has
  two halves: what a step does to the runs (`Shaped`, for every run, and `Silent`,
  for those whose callers hear nothing: `StepShape`), and what their callers hear
  of it (`SilentTells`, `ToldStays`).
- `CallsKeepToContract`: every step is one of four kinds, each a step of the contract
  or a stutter: a node answers (`AnswerRefines`), a list of calls is made
  (`ListRefines`), a call moves (`CallMoveRefines`), or runs are lost with all they wait
  for (`LossRefines`). That an acknowledged call was carried out comes from
  `DeploymentInvariant` (`AnswersAreCarried`). What `AppDeploymentProofs` shows of
  `Spec` holds of `ToldSpec`, which implies it.

`MembershipProofs`:

- `TypeCorrect` is inductive as it stands. `OnlyLinkedAct`: a node without a link cannot begin to do anything
  (`InactiveStep`), and other nodes do not touch it (`OthersStay`).
- `WatchesAreBounded` counts: a step that opens a watch takes one start past
  `race`. It needs `NumbersAreNew`, that a start which has not begun is nowhere in
  its chain: otherwise a start that begins could take one away that is counted.

`LocalNodeProofs`: `InvariantCorrect`, with `LocalInvariant` = the properties
of the node and what they rest on. `CreateLeavesContainer` is
not inductive without the kinds of jobs in each phase (`JobsFit`), nor
`OkResourceIsComplete` without what the parts of a list stand for (`PartsStand`),
nor `OkStartRan` without knowing that a running container has been started. The proof splits the state into jobs
(`JobsOK`), the node (`NodeOK`) and what each job has been promised
(`Promise`), and has a lemma for each way a step may move them.

`FabricNodeProofs`: `ImplementsLocalNode` (every step is one of `LocalNode`, with
the identity as refinement mapping, or leaves its variables alone), hence `NodeKeepsPromises`.
`ListsComplete` needs `ViewsInv`: while the list is joined every kept name has an
item under way or done, and an item that has read its entry has found it if the
name was kept (`KeysKept`: a kept name is still there, since whatever deletes a key
forgets it). `OnlyComingUpBreaks` puts the sides together: a view breaks
when the servers do not know its service; a container without a registered service does not
exist (`LocalInvariant`), so that if there is one its service is on its way from the agent.

`ClusterViewsProofs` is about the two folds of the views, `Worst` and `StatusOf`, and so
about what a fold computes for sets of any size. The library's induction theorems take an
operator as a parameter, which the provers cannot instantiate; here the inductions are over *sets
of numbers* instead: the steps for which a claim holds are a set, and a set of numbers that has 0 and
with every number the next has them all (`NatSteps`, from the well-foundedness of
the numbers), and so has a set of sets of the first numbers that has every set which it has without
its greatest one (`SetSteps`). The folds of the community modules are recursive functions on
such sets: that there is such a function is proved first (`WorstFoldExists`, `StatusFoldExists`).

- `NodeTypeCorrect`: `TypeOK` of `FabricNode`. The health of an item is one of four states,
  since every step of the fold leaves one.
- `HealthCorrect`: `HealthIsWorst`, by `WorstOK`: the fold over the checks is as bad as each of
  them and is one of them, or passing.
- `StatusCorrect`: `StatusAddsUp`, by `StatusOK`. The keys below `nodes/` come in some
  order (`EnumerationOK`); the invariant of the fold says what the books of the nodes and of the
  daemons hold of the keys read so far (`NodesBook`, `DaemonsBook`), and `AddEntryOK` is its step: one key more is
  counted once, for its flags and no others (`CountOK`), on its node and on its daemon.
  The proof needs `ListsAssumption` of `FabricNode`: the daemons of the
  node and the contents of the store are finite sets, and no daemon has the
  name of the node.

Only model-checked: the liveness properties (`CallsSettle`, `RequestsArePickedUp`,
`StartsEnd`, `StaleSessionsExpire`, `InstallEnds`, `UndisturbedInstallStarts`,
`EverythingEnds`), since fairness and ENABLED are outside the prover's reach. Every
safety property that a passing run checks is the statement of a theorem.

## 5. Where the code and its comments differ

- `watcher.js:56` says PENDING keeps a request from being picked up again;
  the write is not awaited, and any other change under the prefix before it
  lands delivers the request again (`storage_once`).
- `daemon.reactor.js:40-43` parses a key of three levels below `daemons/`; app ids
  have no slash, the match is null, the exception ends the process
  before PENDING is written, and the restarted process meets the request again
  (`storage_crash_loop`). `resource.reactor.js:33-39` does the same.
- `membership.service.js:60` passes no session to the race for the leader:
  every node becomes the master (`membership_masters`).
- `readme.md:77` and `apiary.apib:154` say that leaving removes the node from the cluster, and
  `membership.service.js:28` tells the user to un-link a node first. `stop` throws on an undefined variable after it ended the
  watches (`local/index.js:146`), so that `leave` never removes the settings: the node stays
  linked, its session and consul stay, and a restart takes it back (`membership_leave`).
- `apiary.apib:110` says that uninstalling removes the app. `removeForApp` lists the keys
  of the app on every node, for daemons and for resources; where there are none,
  consul answers 404, the removal rejects, `app.reactor.js:62` logs the error, and the request
  is flagged OK while the app stays (`deploy_uninstall`). An app without
  resources is never removed.

Two more disagreements with documents or messages, which no run checks:

- `apiary.apib:310-313` says of deactivating a node that the daemons that communicate with the cluster
  are stopped, and that it is no longer an active member (`readme.md` likewise). The same exception
  of `stop` leaves consul and the session as they are: `Stop` only ends the watches.
- `daemon.reactor.js:88,91` log that a daemon is stopped, and the handler of stop starts its container
  (`local/daemon.js:88-92`). `LocalNode` models the start; no property claims either, since one that demands a
  stop fails in a single step.

Seen while modelling, part of the models as they are, and not described otherwise by a document:
`remove` reads its key
without the prefix (`index.js:223`) and forgets its rejection (245-256); a failed start is
reported as a success (`local/index.js:126`), and one whose agent never says that it is synced is not reported at
all (`consul.js:121-144`); the lookup of daemons to start at boot goes one level too deep
(`local/index.js:97-121`); the cleanup of a daemon always fails after its container is
gone, since the answer of the driver hides the daemon (`local/daemon.js:68-70`); of the checks of a service
only the last one is shown (`health.js:62-70`, `ReadServiceHealth`); `getStatus` returns `containers`, which no
code sets (the field is `daemons`, `cluster-status.service.js:23`), and fails on an undefined
value where the keys of the nodes cannot be read (69-71); its counters have
the flags 0, 1, 2 and 999, any other becomes NaN, and the key of a resource makes a
node of its own (42-56); `getApp` calls a function that does not exist
(`cluster-apps.service.js:47`); an entry that was deleted between two reads stays
on a list as an empty object (`kv.js:67-70`); an app that was removed may
come back, when a flag that was read before the removal is written after it (`kv.js:102-125`), and so may
the key of a daemon or resource on a node; and a PENDING or an OK of a creation that arrives after the
START was written takes its place, so that the daemon is not started until the call has timed out and somebody asks
again.

## 6. Not modelled

- Presentation and proxies (UI, hive, registry, auth0), and the formatting of
  requests and answers in `code/api`.
- `store/rpc.js` and the watch of `store/events.js`: nothing in the program calls
  them any more, so there is no behaviour of the system to be faithful to. The
  same holds for `kv.on`, `kv.generate` and `kv.multiflag`.
- Handlers that no request of the program reaches: `processUpdate`, the cleanup, start and stop of
  whole apps in `app.reactor.js`, and the cleanup of resources (`resource.reactor.js:46-48`,
  `resource.js:34-36`). The cleanup of daemons is modelled with the other handlers of the node.
- The branch of the minion in `raceForLeader` (`membership.service.js:113-130`),
  which is never taken, and `stop` and `clean` of the consul daemon, which come
  after an exception (`local/index.js:146`).
- The facts of the machine (`sys-utils.js`, `con-utils.js`, the data of the introspection) and the
  shell and file utilities: pure input and output.
- The clone of a repository beyond its outcomes; the rendering of templates
  beyond whether anything is left to write.
- The wording of errors and logs, the ansible roles and packaging, and consul and docker
  themselves beyond what the code sees of them.

`PROJECT.json` gives the reason per component.

## 7. Plan

Done: the storage layer with its contract, expressions, membership, the
deployment of apps, the work of a node, the views of the API, and the proofs of
their safety. What is left would refine what is there:

1. `AppDeployment` with the call of a storage layer replaced by `ScopedStorage`
   itself. Both are now proved to keep to one contract; the composition would be a refinement
   with several keys, beyond what TLC checks in minutes.
2. Several deliveries of a request and several late flags at once in `AppDeployment`, where the
   proofs reach and TLC does not yet.
3. Several nodes in `FabricNode`, when the API of one shows what another does.
4. The safety halves of the liveness properties (what a call, a start or a run that is
   stuck would look like) as invariants with proofs.
