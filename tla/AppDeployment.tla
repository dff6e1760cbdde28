--------------------------- MODULE AppDeployment ---------------------------
(***************************************************************************)
(* The installation and the removal of one application by the masters      *)
(* (master/app.reactor.js, the dispatchers and the remote nodes).          *)
(*                                                                         *)
(* The user writes a request into the entry apps/<app>.  A master whose    *)
(* watch sees it starts a run of the reactor: a chain of promises that     *)
(* makes requests to the keys of the app on the nodes, and waits for them. *)
(* A request to a key is seen as its caller sees it; ScopedStorage has its *)
(* details.  Any number of runs may be under way at once, of one master or *)
(* of several, and the calls of a run that was rejected go on.             *)
(***************************************************************************)
EXTENDS Naturals, FiniteSets

CONSTANTS
    Nodes,        \* the nodes of the cluster
    Masters,      \* the processes that watch apps
    Parts,        \* what the app consists of: daemons, resources or both
    Chosen,       \* the nodes an instances expression selects from a set of nodes
    Answers,      \* Answers[i][op]: the outcomes of the nodes' reactor, {} if it throws
    MaxRequests,  \* bound: requests of the user
    MaxRuns,      \* bound: deliveries of one request
    MaxFaults,    \* bound: crashes, failing requests, nodes that come or go
    MaxEvents,    \* bound: requests and faults together
    MaxWriters,   \* bound: flags of the app's entry on their way when a run begins
    MaxFlags      \* bound: flags of the nodes' keys on their way at once, by events so far

Items == {"daemons", "resources"}
Served == {"create", "start", "remove"}

ASSUME BoundsAssumption ==
    /\ MaxRequests \in Nat /\ MaxRuns \in Nat /\ MaxFaults \in Nat /\ MaxEvents \in Nat
    /\ MaxWriters \in Nat /\ MaxFlags \in [0..MaxEvents -> Nat]
ASSUME AppAssumption ==
    /\ Parts \subseteq Items
    /\ Chosen \in [SUBSET Nodes -> SUBSET Nodes]
    /\ \A N \in SUBSET Nodes : Chosen[N] \subseteq N
ASSUME AnswersAssumption ==
    Answers \in [Items -> [Served -> SUBSET {"OK", "FAILED"}]]

VARIABLES
    nodes,        \* the nodes that have registered: the keys nodes/<node>
    app,          \* the entry apps/<app>
    cell,         \* the entries nodes/<node>/<item>/<app>/<id>, one for each item
    serving,      \* what the nodes are doing for the entries: handlers, flags
    done,         \* history: what the handlers have carried out
    run,          \* the runs of the masters' reactor
    call,         \* the requests of each run
    writers,      \* the writers of flags of the app's entry under way
    requests, faults

vars == <<nodes, app, cell, serving, done, run, call, writers, requests, faults>>

Cells == Items \X Nodes
Runs == (1..MaxRequests) \X (1..MaxRuns)

States == {"NEW", "PENDING", "OK", "FAILED"}
Absent == [op |-> "none", st |-> "none"]
Entry(o, s) == [op |-> o, st |-> s]
Entries == [op : Served, st : States] \union {Absent}

(* A handler under way on a node, or a flag on its way to the entry.       *)
Flags == {"PENDING", "OK", "FAILED"}
Task(c, o, a) == [cell |-> c, op |-> o, at |-> a, held |-> FALSE]
Tasks == [cell : Cells, op : Served, at : Flags \union {"handler"}, held : BOOLEAN]

Requests == [op : {"create", "remove"}, no : 1..MaxRequests, st : States]
NoApp == [op |-> "none", no |-> 0, st |-> "none"]
AppEntry(o, q, s) == [op |-> o, no |-> q, st |-> s]

(* phase: what the chain of promises waits for; state: whether it settled. *)
RunPhases == {"free", "load", "create", "start", "remove", "purge"}
RunStates == {"running", "settled", "lost"}
FreeRun == [phase |-> "free", state |-> "running", by |-> "none"]

(* none: no request to this cell; unlisted: the nodes are still being      *)
(* listed; look, set, wait, del, sync: the request to consul under way.    *)
CallStates == {"none", "unlisted", "look", "set", "wait", "del", "sync", "ok",
               "failed", "late", "hung"}
NoCalls == [c \in Cells |-> "none"]

(* held: the entry may have been read before it was deleted.               *)
Writer(o, q, f, m) == [op |-> o, no |-> q, st |-> f, by |-> m, held |-> FALSE]
Writers == [op : {"create", "remove"}, no : 1..MaxRequests, st : States,
            by : Masters, held : BOOLEAN]

Init ==
    /\ nodes = Nodes
    /\ app = NoApp
    /\ cell = [c \in Cells |-> Absent]
    /\ serving = {}
    /\ done = {}
    /\ run = [r \in Runs |-> FreeRun]
    /\ call = [r \in Runs |-> NoCalls]
    /\ writers = {}
    /\ requests = 0 /\ faults = 0

Events == requests + faults
Fault == faults < MaxFaults /\ Events < MaxEvents /\ faults' = faults + 1
NoFault == UNCHANGED faults
Asks == requests < MaxRequests /\ Events < MaxEvents /\ requests' = requests + 1

(***************************************************************************)
(* The user and the entry of the app.                                      *)
(***************************************************************************)
(* Whatever the entry says already is overwritten.                         *)
InstallApp ==
    /\ Asks
    /\ app' = AppEntry("create", requests + 1, "NEW")
    /\ NoFault
    /\ UNCHANGED <<nodes, cell, serving, done, run, call, writers>>

(* Uninstalling flags the entry, as the outcomes do.                       *)
UninstallApp ==
    /\ Asks
    /\ \E m \in Masters :
          writers' = writers \union {Writer("remove", requests + 1, "NEW", m)}
    /\ NoFault
    /\ UNCHANGED <<nodes, app, cell, serving, done, run, call>>

(* kv.flag reads the entry, and gives up if there is none; what it read it *)
(* writes back with the new flags, whatever became of it in between: an    *)
(* entry that was deleted comes back.                                      *)
Flag(w) ==
    /\ w \in writers
    /\ writers' = writers \ {w}
    /\ \/ /\ app # NoApp \/ w.held
          /\ app' = AppEntry(w.op, w.no, w.st)
       \/ app = NoApp /\ UNCHANGED app
    /\ NoFault
    /\ UNCHANGED <<nodes, cell, serving, done, run, call, requests>>

FlagFails(w) ==
    /\ w \in writers
    /\ writers' = writers \ {w}
    /\ Fault
    /\ UNCHANGED <<nodes, app, cell, serving, done, run, call, requests>>

(***************************************************************************)
(* The runs of the reactor.                                                *)
(***************************************************************************)
Running(r, p) == run[r].phase = p /\ run[r].state = "running"
Alive(r) == run[r].phase # "free" /\ run[r].state # "lost"
Goes(r, p) == run' = [run EXCEPT ![r].phase = p]

(* The outcome of a call is of no interest once the run has settled.       *)
Over == {"ok", "failed", "late", "hung"}
Forgets(C) == [c \in Cells |-> IF C[c] \in Over THEN "none" ELSE C[c]]
CallGoes(r, c, s) ==
    call' = [call EXCEPT ![r][c] =
               IF run[r].state = "settled" /\ s \in Over THEN "none" ELSE s]
Listing(I) == [c \in Cells |-> IF c[1] \in I THEN "unlisted" ELSE "none"]

(* Variant of Begin: the calls are made before the resources are loaded.   *)
BeginUnloaded(m, r, W) ==
    /\ app.st = "NEW" /\ r[1] = app.no
    /\ run[r].phase = "free" /\ Cardinality(writers) <= MaxWriters
    /\ \A q \in Runs : q[1] = r[1] /\ q[2] < r[2] => run[q].phase # "free"
    /\ run' = [run EXCEPT ![r] = [phase |-> IF app.op = "create" THEN "load" ELSE "remove",
                                  state |-> "running", by |-> m]]
    /\ call' = [call EXCEPT ![r] = Listing(Items)]
    /\ writers' = writers \union W
    /\ NoFault
    /\ UNCHANGED <<nodes, app, cell, serving, done, requests>>

(* The watch on apps replies while the request is NEW: again whenever      *)
(* anything else under apps changes, the files of this app included.       *)
Begin(m, r, W) ==
    /\ app.st = "NEW" /\ r[1] = app.no
    /\ run[r].phase = "free" /\ Cardinality(writers) <= MaxWriters
    /\ \A q \in Runs : q[1] = r[1] /\ q[2] < r[2] => run[q].phase # "free"
    /\ run' = [run EXCEPT ![r] = [phase |-> IF app.op = "create" THEN "load" ELSE "remove",
                                  state |-> "running", by |-> m]]
    /\ call' = [call EXCEPT ![r] = IF app.op = "create" THEN NoCalls ELSE Listing(Items)]
    /\ writers' = writers \union W
    /\ NoFault
    /\ UNCHANGED <<nodes, app, cell, serving, done, requests>>

(* Variant of Deliver: the handler does not return its promise, which the  *)
(* watcher takes for the outcome.                                          *)
DeliverUnreturned(m, r) ==
    Begin(m, r, {Writer(app.op, app.no, s, m) : s \in {"PENDING", "OK"}})

Deliver(m, r) == Begin(m, r, {Writer(app.op, app.no, "PENDING", m)})

(* Every error of the chain is logged and forgotten: the watcher flags the *)
(* request as carried out in any case.                                     *)
SettleAmong(r, C, W) ==
    /\ run' = [run EXCEPT ![r].state = "settled"]
    /\ call' = [call EXCEPT ![r] = Forgets(C)]
    /\ writers' = W \union
         {Writer(IF run[r].phase \in {"remove", "purge"} THEN "remove" ELSE "create",
                 r[1], "OK", run[r].by)}
SettleWith(r, C) == SettleAmong(r, C, writers)
Settle(r) == SettleWith(r, call[r])

(* The repositories of the resources have been copied to consul.           *)
Load(r) ==
    /\ Running(r, "load")
    /\ Goes(r, "create")
    /\ call' = [call EXCEPT ![r] = Listing(Parts \union {"resources"})]
    /\ NoFault
    /\ UNCHANGED <<nodes, app, cell, serving, done, writers, requests>>

(* No provider, no url, no branch: the promise is rejected.  A file that   *)
(* cannot be stored leaves a promise that never settles: stuck in load.    *)
(* A repository that cannot be cloned ends the process: see Crash.         *)
LoadFails(r) ==
    /\ Running(r, "load")
    /\ \/ Settle(r)
       \/ run' = [run EXCEPT ![r].state = "lost"] /\ UNCHANGED <<call, writers>>
    /\ Fault
    /\ UNCHANGED <<nodes, app, cell, serving, done, requests>>

(* The nodes a call goes to: those a daemon's expression selects, or all.  *)
Targets(r, i) ==
    IF run[r].phase = "remove" THEN nodes
    ELSE IF i \notin Parts THEN {}
    ELSE IF i = "daemons" THEN Chosen[nodes] ELSE nodes

(* The list of nodes arrives, and a call is made for each of them.  It is  *)
(* empty if no node has registered, but keys below theirs are left, of     *)
(* this app or another.                                                    *)
List(r, i) ==
    /\ Alive(r)
    /\ \E n \in Nodes : call[r][<<i, n>>] = "unlisted"
    /\ call' = [call EXCEPT ![r] = [c \in Cells |->
                  IF c[1] # i THEN @[c]
                  ELSE IF c[2] \notin Targets(r, i) THEN "none"
                  ELSE IF run[r].phase = "create" THEN "set" ELSE "look"]]
    /\ NoFault
    /\ UNCHANGED <<nodes, app, cell, serving, done, run, writers, requests>>

(* The list cannot be had, or there is no key below nodes/: consul answers *)
(* 404.                                                                    *)
ListFails(r, i) ==
    /\ Alive(r)
    /\ \E n \in Nodes : call[r][<<i, n>>] = "unlisted"
    /\ IF nodes = {} /\ \A c \in Cells : cell[c] = Absent THEN NoFault ELSE Fault
    /\ LET rest == [c \in Cells |-> IF c[1] = i THEN "none" ELSE call[r][c]]
       IN  \/ run[r].state = "running" /\ SettleWith(r, rest)
           \/ /\ run[r].state = "settled"
              /\ call' = [call EXCEPT ![r] = rest]
              /\ UNCHANGED <<run, writers>>
    /\ UNCHANGED <<nodes, app, cell, serving, done, requests>>

(* A signal reads the entry first; a removal looks for the keys of the app *)
(* on the node, and 404 is an error.                                       *)
Look(r, c) ==
    /\ Alive(r) /\ call[r][c] = "look"
    /\ CallGoes(r, c, IF cell[c] = Absent THEN "failed" ELSE "set")
    /\ NoFault
    /\ UNCHANGED <<nodes, app, cell, serving, done, run, writers, requests>>

Write(c, o) ==
    /\ cell' = [cell EXCEPT ![c] = Entry(o, "NEW")]
    /\ UNCHANGED serving

(* A flag that has read the entry by now will bring it back.               *)
Erase(c) ==
    /\ cell' = [cell EXCEPT ![c] = Absent]
    /\ serving' = {IF t.cell = c /\ t.at \in Flags THEN [t EXCEPT !.held = TRUE] ELSE t :
                     t \in serving}

(* Variant of Set: the request is written without the flag of its kind.    *)
SetUnflagged(r, c) ==
    /\ Alive(r) /\ call[r][c] = "set"
    /\ Write(c, "none")
    /\ CallGoes(r, c, "wait")
    /\ NoFault
    /\ UNCHANGED <<nodes, app, done, run, writers, requests>>

(* The request is written: storage.create, signal or remove.               *)
Set(r, c) ==
    /\ Alive(r) /\ call[r][c] = "set"
    /\ Write(c, run[r].phase)
    /\ CallGoes(r, c, "wait")
    /\ NoFault
    /\ UNCHANGED <<nodes, app, done, run, writers, requests>>

(* What becomes of a call that is refused: the rejection of a removal that *)
(* waits gets lost in storage.remove.                                      *)
Refused(r) == IF run[r].phase = "remove" THEN "hung" ELSE "failed"
Accepted(r) == IF run[r].phase = "remove" THEN "del" ELSE "ok"

(* Variant of Sees: the operation of the outcome is not looked at.         *)
SeesAnyOperation(r, c) ==
    /\ Alive(r) /\ call[r][c] = "wait"
    /\ \/ cell[c].st = "OK" /\ CallGoes(r, c, Accepted(r))
       \/ cell[c].st = "FAILED" /\ CallGoes(r, c, Refused(r))
    /\ NoFault
    /\ UNCHANGED <<nodes, app, cell, serving, done, run, writers, requests>>

(* The watch on the key shows the outcome, or a request of another kind.   *)
Sees(r, c) ==
    /\ Alive(r) /\ call[r][c] = "wait"
    /\ \/ cell[c].op = run[r].phase /\ cell[c].st = "OK" /\ CallGoes(r, c, Accepted(r))
       \/ cell[c].op = run[r].phase /\ cell[c].st = "FAILED" /\ CallGoes(r, c, Refused(r))
       \/ cell[c].op \notin {run[r].phase, "none"} /\ CallGoes(r, c, Refused(r))
    /\ NoFault
    /\ UNCHANGED <<nodes, app, cell, serving, done, run, writers, requests>>

(* Variant of TimesOut: the timer ends the watch and says nothing.         *)
TimesOutSilently(r, c) ==
    /\ Alive(r) /\ call[r][c] = "wait"
    /\ CallGoes(r, c, "hung")
    /\ NoFault
    /\ UNCHANGED <<nodes, app, cell, serving, done, run, writers, requests>>

(* The timer fires, or the watch reports an error: the same rejection.     *)
TimesOut(r, c) ==
    /\ Alive(r) /\ call[r][c] = "wait"
    /\ CallGoes(r, c, IF run[r].phase = "remove" THEN "hung" ELSE "late")
    /\ NoFault
    /\ UNCHANGED <<nodes, app, cell, serving, done, run, writers, requests>>

(* consul answers by an error: it may have written or deleted all the same.*)
RequestFails(r, c) ==
    /\ Alive(r) /\ call[r][c] \in {"look", "set", "sync"}
    /\ CallGoes(r, c, "failed")
    /\ \/ UNCHANGED <<cell, serving>>
       \/ call[r][c] = "set" /\ Write(c, run[r].phase)
       \/ call[r][c] = "sync" /\ Erase(c)
    /\ Fault
    /\ UNCHANGED <<nodes, app, done, run, writers, requests>>

(* An acknowledged removal deletes the key, and then, by removeSync, the   *)
(* folder of the app on the node.                                          *)
Delete(r, c) ==
    /\ Alive(r) /\ call[r][c] \in {"del", "sync"}
    /\ Erase(c)
    /\ CallGoes(r, c, IF call[r][c] = "del" THEN "sync" ELSE "ok")
    /\ NoFault
    /\ UNCHANGED <<nodes, app, done, run, writers, requests>>

(* Variant of Rejects: the errors of daemons are swallowed as well.        *)
RejectsRemovals(r, c) ==
    call[r][c] \in {"failed", "late"} /\ run[r].phase = "remove"

(* Q.all rejects at the first call that fails, and leaves the others to    *)
(* themselves.  The errors of resources and of signals are swallowed.      *)
Rejects(r, c) ==
    /\ call[r][c] \in {"failed", "late"}
    /\ \/ run[r].phase = "create" /\ c[1] = "daemons"
       \/ run[r].phase = "remove"

Abort(r) ==
    /\ run[r].state = "running"
    /\ \E c \in Cells : Rejects(r, c)
    /\ Settle(r)
    /\ NoFault
    /\ UNCHANGED <<nodes, app, cell, serving, done, requests>>

(* Variant of Fulfilled: a removal without an answer counts.               *)
FulfilledUnanswered(r, c) ==
    \/ call[r][c] \in {"none", "ok", "hung"}
    \/ call[r][c] \in {"failed", "late"} /\ ~Rejects(r, c)

(* A call that its Q.all need not wait for any more.                       *)
Fulfilled(r, c) ==
    \/ call[r][c] \in {"none", "ok"}
    \/ call[r][c] \in {"failed", "late"} /\ ~Rejects(r, c)
AllFulfilled(r) == \A c \in Cells : Fulfilled(r, c)

(* Variant of Created: the chain does not wait for the calls.              *)
CreatedTooEarly(r) ==
    /\ Running(r, "create")
    /\ Goes(r, "start")
    /\ call' = [call EXCEPT ![r] = Listing(Parts \ {"resources"})]
    /\ NoFault
    /\ UNCHANGED <<nodes, app, cell, serving, done, writers, requests>>

(* The resources and the daemons are created: start the daemons.  The      *)
(* nodes are listed anew.                                                  *)
Created(r) ==
    /\ Running(r, "create") /\ AllFulfilled(r)
    /\ Goes(r, "start")
    /\ call' = [call EXCEPT ![r] = Listing(Parts \ {"resources"})]
    /\ NoFault
    /\ UNCHANGED <<nodes, app, cell, serving, done, writers, requests>>

Started(r) ==
    /\ Running(r, "start") /\ AllFulfilled(r)
    /\ Settle(r)
    /\ NoFault
    /\ UNCHANGED <<nodes, app, cell, serving, done, requests>>

Removed(r) ==
    /\ Running(r, "remove") /\ AllFulfilled(r)
    /\ Goes(r, "purge")
    /\ NoFault
    /\ UNCHANGED <<nodes, app, cell, serving, done, call, writers, requests>>

(* kv.remove.prefix: the entry of the app and all below it.                *)
Purge(r) ==
    /\ Running(r, "purge")
    /\ \/ /\ app' = NoApp
          /\ SettleAmong(r, call[r], {[w EXCEPT !.held = TRUE] : w \in writers})
          /\ NoFault
       \/ Fault /\ UNCHANGED app /\ Settle(r)
    /\ UNCHANGED <<nodes, cell, serving, done, requests>>

(***************************************************************************)
(* The nodes.                                                              *)
(***************************************************************************)
OnTheirWay == {t \in serving : t.at \in Flags}
RoomForFlag == Cardinality(OnTheirWay) < MaxFlags[Events]

(* The owner of the key starts a handler, unless it throws at once, and    *)
(* sends the flag PENDING, which nobody waits for: until it arrives the    *)
(* entry is NEW, and may be picked up again.                               *)
PickUp(c) ==
    /\ cell[c].st = "NEW"
    /\ Answers[c[1]][cell[c].op] # {}
    /\ RoomForFlag
    /\ serving' = serving \union {Task(c, cell[c].op, a) : a \in {"handler", "PENDING"}}
    /\ NoFault
    /\ UNCHANGED <<nodes, app, cell, done, run, call, writers, requests>>

(* The handler ends, and its outcome is flagged.                           *)
Answer(c, o) ==
    /\ Task(c, o, "handler") \in serving
    /\ RoomForFlag
    /\ \E s \in Answers[c[1]][o] :
         /\ serving' = (serving \ {Task(c, o, "handler")}) \union {Task(c, o, s)}
         /\ done' = IF s = "OK" THEN done \union {<<c, o>>} ELSE done
    /\ NoFault
    /\ UNCHANGED <<nodes, app, cell, run, call, writers, requests>>

(* kv.flag, as for the entry of the app: the flag is written over whatever *)
(* the entry says by now, a newer request too, and over one that is gone   *)
(* if it was read before that.                                             *)
FlagKey(t) ==
    /\ t \in OnTheirWay
    /\ serving' = serving \ {t}
    /\ \/ /\ cell[t.cell] # Absent \/ t.held
          /\ cell' = [cell EXCEPT ![t.cell] = Entry(t.op, t.at)]
       \/ cell[t.cell] = Absent /\ UNCHANGED cell
    /\ NoFault
    /\ UNCHANGED <<nodes, app, done, run, call, writers, requests>>

FlagKeyFails(t) ==
    /\ t \in OnTheirWay
    /\ serving' = serving \ {t}
    /\ Fault
    /\ UNCHANGED <<nodes, app, cell, done, run, call, writers, requests>>

(* A node's key goes with its session, and comes back with a new one.      *)
NodeComesOrGoes(n) ==
    /\ Fault
    /\ nodes' = IF n \in nodes THEN nodes \ {n} ELSE nodes \union {n}
    /\ UNCHANGED <<app, cell, serving, done, run, call, writers, requests>>

(***************************************************************************)
(* The end of a master's process takes all its runs along.  It is started  *)
(* again, and finds requests that are NEW, but none that are PENDING.      *)
(***************************************************************************)
Exit(m) ==
    /\ run' = [r \in Runs |-> IF run[r].by = m THEN [run[r] EXCEPT !.state = "lost"]
                              ELSE run[r]]
    /\ call' = [r \in Runs |-> IF run[r].by = m THEN NoCalls ELSE call[r]]
    /\ writers' = {w \in writers : w.by # m}

Crash(m) ==
    /\ Exit(m)
    /\ Fault
    /\ UNCHANGED <<nodes, app, cell, serving, done, requests>>

(* The watch on a key that was deleted meanwhile throws in its callback.   *)
SeesNothing(r, c) ==
    /\ Alive(r) /\ call[r][c] = "wait"
    /\ cell[c] = Absent
    /\ Exit(run[r].by)
    /\ NoFault
    /\ UNCHANGED <<nodes, app, cell, serving, done, requests>>

RunStep(r) ==
    \/ Load(r) \/ Abort(r) \/ Created(r) \/ Started(r) \/ Removed(r) \/ Purge(r)
    \/ \E i \in Items : List(r, i) \/ ListFails(r, i)
CallStep(r, c) ==
    \/ Look(r, c) \/ Set(r, c) \/ Sees(r, c) \/ TimesOut(r, c) \/ Delete(r, c)
    \/ SeesNothing(r, c)

Next ==
    \/ InstallApp \/ UninstallApp
    \/ \E w \in writers : Flag(w) \/ FlagFails(w)
    \/ \E r \in Runs : \/ RunStep(r) \/ LoadFails(r)
                       \/ \E m \in Masters : Deliver(m, r)
                       \/ \E c \in Cells : CallStep(r, c) \/ RequestFails(r, c)
    \/ \E c \in Cells : PickUp(c) \/ \E o \in Served : Answer(c, o)
    \/ \E t \in serving : FlagKey(t) \/ FlagKeyFails(t)
    \/ \E n \in Nodes : NodeComesOrGoes(n)
    \/ \E m \in Masters : Crash(m)

Spec == Init /\ [][Next]_vars

(* Promises go on, consul answers, the timers of calls fire and the        *)
(* masters watch apps.  A node need not serve its keys: it may be down.    *)
Fairness ==
    /\ \A r \in Runs : /\ WF_vars(RunStep(r))
                       /\ \A m \in Masters : WF_vars(Deliver(m, r))
                       /\ \A c \in Cells : WF_vars(CallStep(r, c))
    /\ WF_vars(\E w \in writers : Flag(w))
FairSpec == Spec /\ Fairness

-----------------------------------------------------------------------------
(* The types of the apps, the entries of the nodes and the runs of the     *)
(* masters.                                                                *)
TypeOK ==
    /\ nodes \subseteq Nodes
    /\ app \in Requests \union {NoApp}
    /\ cell \in [Cells -> Entries]
    /\ serving \subseteq Tasks /\ done \subseteq Cells \X Served
    /\ run \in [Runs -> [phase : RunPhases, state : RunStates, by : Masters \union {"none"}]]
    /\ call \in [Runs -> [Cells -> CallStates]]
    /\ writers \subseteq Writers
    /\ requests \in 0..MaxRequests /\ faults \in 0..MaxFaults

(* The inductive invariant.  An OK, in an entry or on its way there,       *)
(* stands for a handler that succeeded; and what a call took for its       *)
(* answer was one, of the operation it asked for.                          *)
OutcomesAreServed ==
    /\ \A c \in Cells : cell[c].st = "OK" => <<c, cell[c].op>> \in done
    /\ \A t \in serving : t.at = "OK" => <<t.cell, t.op>> \in done
RunsAreFounded ==
    \A r \in Runs :
        /\ run[r].phase # "free" => run[r].by \in Masters
        /\ run[r].phase = "purge" => \A c \in Cells : call[r][c] \in {"none", "ok"}
        /\ \A c \in Cells :
             call[r][c] \notin Over \union {"none"} => run[r].phase \in Served
CallsAreFounded ==
    \A r \in Runs, c \in Cells :
        /\ run[r].phase = "create" /\ call[r][c] = "ok" => <<c, "create">> \in done
        /\ call[r][c] \in {"del", "sync"} => run[r].phase = "remove"
        /\ run[r].phase \in {"remove", "purge"} /\ call[r][c] \in {"del", "sync", "ok"} =>
             <<c, "remove">> \in done
DeploymentInvariant ==
    TypeOK /\ OutcomesAreServed /\ RunsAreFounded /\ CallsAreFounded

(* What the entry of the app says is so: an outcome is that of a run of    *)
(* the request it names that has come to its end, and PENDING that of a    *)
(* run that was begun, although the flags of several requests overwrite    *)
(* one another, and bring back an entry that was deleted.                  *)
Ran(r, o, q) ==
    /\ r[1] = q /\ run[r].phase # "free"
    /\ o = "remove" <=> run[r].phase \in {"remove", "purge"}
Reported(o, q, s) ==
    /\ s = "PENDING" => \E r \in Runs : Ran(r, o, q)
    /\ s = "OK" => \E r \in Runs : Ran(r, o, q) /\ run[r].state # "running"
    /\ s # "FAILED"
OutcomesAreOfRuns ==
    /\ Reported(app.op, app.no, app.st)
    /\ \A w \in writers : Reported(w.op, w.no, w.st)

(* A run goes on to start the daemons only when a node has carried out the *)
(* creation of each daemon it asked for, whoever else writes to the same   *)
(* keys, and whatever times out (processCreate, app.reactor.js:34-44).     *)
StartsWhenCreated ==
    [][\A r \in Runs : run[r].phase = "create" /\ run'[r].phase = "start" =>
         \A n \in Nodes : call[r][<<"daemons", n>>] # "none" =>
            <<<<"daemons", n>>, "create">> \in done]_vars

(* The app's entry goes last: when a run deletes it, the nodes have        *)
(* carried out the removal of everything the run found on them             *)
(* (processRemove, 53-59).  Their keys need not be gone: a flag of the     *)
(* removal that arrives late brings one back.                              *)
AppGoesLast ==
    [][\A r \in Runs : run[r].phase = "purge" /\ app # NoApp /\ app' = NoApp
                       /\ run[r].state = "running" /\ run'[r].state = "settled" =>
         \A c \in Cells : call[r][c] # "none" => <<c, "remove">> \in done]_vars

(* An installation that is picked up ends, although its calls may fail,    *)
(* time out or be disturbed: unless it is lost with its process, or stuck  *)
(* on a file, the watcher gets its outcome.                                *)
InstallEnds ==
    \A r \in Runs :
        run[r].state = "running" /\ run[r].phase \in {"load", "create", "start"}
            ~> run[r].state # "running"

(* What installing is for: if the user asks once, a single run serves the  *)
(* request, nothing fails, times out, comes or goes, and no flag of the    *)
(* creation is so late that it meets the START that follows, then every    *)
(* daemon is started on every node its expression selects, if the nodes    *)
(* serve their keys.  A flag that late is written over the START, which    *)
(* then nobody sees.                                                       *)
LateFlag(t) == t.at \in Flags /\ cell[t.cell].op \notin {t.op, "none"}
Undisturbed ==
    /\ faults = 0 /\ requests <= 1
    /\ \A r \in Runs : /\ run[r].state # "lost"
                       /\ r[2] > 1 => run[r].phase = "free"
                       /\ \A c \in Cells : call[r][c] # "late"
    /\ \A t \in serving : ~LateFlag(t)
StartedOn(n) == <<<<"daemons", n>>, "start">> \in done
FlagsArrive(c) == \E t \in serving : t.cell = c /\ FlagKey(t)
NodesServe ==
    \A c \in Cells : /\ WF_vars(PickUp(c)) /\ WF_vars(FlagsArrive(c))
                     /\ \A o \in Served : WF_vars(Answer(c, o))
UndisturbedInstallStarts ==
    NodesServe /\ []Undisturbed => (app.op = "create" ~> \A n \in Chosen[Nodes] : StartedOn(n))

-----------------------------------------------------------------------------
(***************************************************************************)
(* What the documentation of the API says, and the code does not do.       *)
(***************************************************************************)

(* apiary.apib: uninstalling is to "remove the app from the cluster".      *)
UninstallRemoves == \A r \in Runs : Running(r, "remove") ~> app = NoApp

=============================================================================
