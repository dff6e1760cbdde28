----------------------------- MODULE Membership -----------------------------
(***************************************************************************)
(* A node's membership of the cluster: joining and leaving, starting and   *)
(* stopping the link, and the race for the leader                          *)
(* (membership/membership.service.js, local/index.js, daemons/consul.js).  *)
(*                                                                         *)
(* A start is a chain of asynchronous steps; any number of starts of the   *)
(* same process may be under way at once, and a stop may fall in between.  *)
(***************************************************************************)
EXTENDS Naturals, FiniteSets

CONSTANTS
    Nodes,        \* the nodes; each runs one fabric process
    MaxStarts,    \* bound: starts of one node, over all its lives
    MaxFaults     \* bound: crashes, interrupted joins and failing requests

ASSUME BoundsAssumption == MaxStarts \in Nat /\ MaxFaults \in Nat
ASSUME NodesAssumption == "none" \notin Nodes     \* the value of no leader

Starts == 1..MaxStarts
NoStart == 0

(* What a start acquires once it is through: the watch on apps (being the  *)
(* master), the two watches on the node's own keys, the renewal timer.     *)
Resources == {"apps", "local", "ticker"}

VARIABLES
    up,           \* the nodes whose process runs
    link,         \* the cluster_* settings, in memory and on disk
    consul,       \* the nodes whose consul agent runs
    left,         \* history: told to leave, and not to join again since
    begun,        \* the number of starts of each node so far
    phase,        \* how far each start is
    held,         \* the resources the process can still stop
    leaked,       \* how many of each resource it has lost sight of
    sessions,     \* the consul sessions of each node that are alive
    current,      \* fabricSessionId: the start whose session is renewed
    lock,         \* the session that holds nodes/<id>
    leader,       \* the leader key, which no session holds
    faults

vars == <<up, link, consul, left, begun, phase, held, leaked, sessions, current,
          lock, leader, faults>>
nodeVars == <<up, link, consul, left>>
storeVars == <<sessions, lock, leader>>

NoLeader == "none"
Pending == {"pidof", "spawn", "session", "introspect", "register", "watch", "race",
            "failed"}
Awaiting == {"syncing", "hung"}    \* waits for its consul, perhaps for ever
Phases == Pending \union Awaiting \union {"none", "done"}

Linked(n) == link[n] # "none"               \* settings.has('cluster_key')

Init ==
    /\ up = Nodes
    /\ link = [n \in Nodes |-> "none"]
    /\ consul = {} /\ left = {}
    /\ begun = [n \in Nodes |-> 0]
    /\ phase = [n \in Nodes |-> [s \in Starts |-> "none"]]
    /\ held = [n \in Nodes |-> {}]
    /\ leaked = [n \in Nodes |-> [r \in Resources |-> 0]]
    /\ sessions = [n \in Nodes |-> {}]
    /\ current = [n \in Nodes |-> NoStart]
    /\ lock = [n \in Nodes |-> NoStart]
    /\ leader = NoLeader
    /\ faults = 0

(***************************************************************************)
(* The steps of a start.                                                   *)
(***************************************************************************)
BeginStart(n) ==
    /\ begun[n] < MaxStarts
    /\ begun' = [begun EXCEPT ![n] = @ + 1]
    /\ phase' = [phase EXCEPT ![n][begun[n] + 1] = "pidof"]

Goes(n, s, p) == phase' = [phase EXCEPT ![n][s] = p]

(* Opening a watch or a timer overwrites the reference to the former one,  *)
(* which goes on.                                                          *)
Acquire(n, R) ==
    /\ held' = [held EXCEPT ![n] = @ \union R]
    /\ leaked' = [leaked EXCEPT ![n] =
                    [r \in Resources |-> IF r \in R /\ r \in held[n]
                                         THEN @[r] + 1 ELSE @[r]]]

Release(n, R) == held' = [held EXCEPT ![n] = @ \ R]

(* consulDaemon.start first looks for a running consul ...                 *)
FindConsul(n, s) ==
    /\ phase[n][s] = "pidof"
    /\ Goes(n, s, IF n \in consul THEN "session" ELSE "spawn")
    /\ UNCHANGED <<nodeVars, begun, held, leaked, storeVars, current, faults>>

(* ... and spawns one if it found none.  The new consul exits at once when *)
(* another one runs by now, or when cluster_servers is missing.            *)
SpawnConsul(n, s) ==
    /\ phase[n][s] = "spawn"
    /\ \/ /\ n \notin consul /\ link[n] = "full"
          /\ consul' = consul \union {n}
          /\ Goes(n, s, "syncing")
       \/ /\ n \in consul \/ link[n] # "full"
          /\ Goes(n, s, "failed")
          /\ UNCHANGED consul
    /\ UNCHANGED <<up, link, left, begun, held, leaked, storeVars, current, faults>>

(* The promise of the spawn resolves when consul prints that it is synced, *)
(* which an agent that finds no cluster never does.  A start that finds    *)
(* the agent running meanwhile does not wait for that.                     *)
ConsulSyncs(n, s) ==
    /\ phase[n][s] = "syncing"
    /\ Goes(n, s, "session")
    /\ UNCHANGED <<nodeVars, begun, held, leaked, storeVars, current, faults>>

CreateSession(n, s) ==
    /\ phase[n][s] = "session"
    /\ n \in consul
    /\ sessions' = [sessions EXCEPT ![n] = @ \union {s}]
    /\ current' = [current EXCEPT ![n] = s]
    /\ Goes(n, s, "introspect")
    /\ UNCHANGED <<nodeVars, begun, held, leaked, lock, leader, faults>>

(* The facts of the machine; only the size of its disk is waited for, and  *)
(* may be refused.                                                         *)
Introspect(n, s) ==
    /\ phase[n][s] = "introspect"
    /\ \/ Goes(n, s, "register") /\ UNCHANGED faults
       \/ Goes(n, s, "failed") /\ faults < MaxFaults /\ faults' = faults + 1
    /\ UNCHANGED <<nodeVars, begun, held, leaked, storeVars, current>>

(* The node's key is written only if no other session holds it, and not    *)
(* during the delay after a lock was lost; whether it was is not looked    *)
(* at.  A session that has expired by now is refused.                      *)
Register(n, s) ==
    /\ phase[n][s] = "register"
    /\ n \in consul
    /\ \/ /\ current[n] \in sessions[n]
          /\ \E holder \in IF lock[n] = NoStart THEN {NoStart, current[n]} ELSE {lock[n]} :
               lock' = [lock EXCEPT ![n] = holder]
          /\ Goes(n, s, "watch")
       \/ /\ current[n] \notin sessions[n]
          /\ Goes(n, s, "failed")
          /\ UNCHANGED lock
    /\ UNCHANGED <<nodeVars, begun, held, leaked, sessions, leader, current, faults>>

(* Variant of StartWatching: the node watches the apps without the race.   *)
StartWatchingApps(n, s) ==
    /\ phase[n][s] = "watch"
    /\ Acquire(n, Resources)
    /\ Goes(n, s, "race")
    /\ UNCHANGED <<nodeVars, begun, storeVars, current, faults>>

(* The watches and the timer.  The START signals to the node's daemons     *)
(* that should follow are never sent: the chain looks for the keys one     *)
(* level too deep (an app id has no slash), finds none, and the error of   *)
(* that lookup ends the chain, whose last handler swallows it.             *)
StartWatching(n, s) ==
    /\ phase[n][s] = "watch"
    /\ Acquire(n, {"local", "ticker"})
    /\ Goes(n, s, "race")
    /\ UNCHANGED <<nodeVars, begun, storeVars, current, faults>>

(* An error of any step is logged and forgotten: the start goes on to the  *)
(* race as if nothing had happened.                                        *)
Swallow(n, s) ==
    /\ phase[n][s] = "failed"
    /\ Goes(n, s, "race")
    /\ UNCHANGED <<nodeVars, begun, held, leaked, storeVars, current, faults>>

(* Variant of RaceForLeader: the leader is written with a name not set.    *)
RaceUnnamed(n, s) ==
    /\ phase[n][s] = "race"
    /\ Goes(n, s, "done")
    /\ n \in consul
    /\ leader' = "undefined"
    /\ Acquire(n, {"apps"})
    /\ UNCHANGED <<nodeVars, begun, sessions, lock, current, faults>>

(* The leader key is written without a session: the write succeeds         *)
(* whoever wrote it before, and the branch of the minion is never taken.   *)
RaceForLeader(n, s) ==
    /\ phase[n][s] = "race"
    /\ Goes(n, s, "done")
    /\ n \in consul
    /\ leader' = n
    /\ Acquire(n, {"apps"})
    /\ UNCHANGED <<nodeVars, begun, sessions, lock, current, faults>>

(* The step of a start whose request fails: the race itself logs the error *)
(* and is over, an earlier step ends the chain.                            *)
GivesUp(n, s) ==
    \/ phase[n][s] = "race" /\ Goes(n, s, "done")
    \/ phase[n][s] \in {"spawn", "session", "register"} /\ Goes(n, s, "failed")

(* Variant of RequestFails: a request without an agent is never answered.  *)
RequestHangs(n, s) ==
    /\ n \in consul
    /\ faults < MaxFaults
    /\ faults' = faults + 1
    /\ GivesUp(n, s)
    /\ UNCHANGED <<nodeVars, begun, held, leaked, storeVars, current>>

(* A spawn or a request to consul fails: no quorum, or no agent any more.  *)
RequestFails(n, s) ==
    /\ \/ n \in consul /\ faults < MaxFaults /\ faults' = faults + 1
       \/ n \notin consul /\ UNCHANGED faults
    /\ GivesUp(n, s)
    /\ UNCHANGED <<nodeVars, begun, held, leaked, storeVars, current>>

(***************************************************************************)
(* The API.                                                                *)
(***************************************************************************)
Join(n) ==
    /\ n \in up
    /\ ~Linked(n)
    /\ BeginStart(n)
    /\ link' = [link EXCEPT ![n] = "full"]
    /\ left' = left \ {n}
    /\ UNCHANGED <<up, consul, held, leaked, storeVars, current, faults>>

(* The settings are written one by one, the key first: a setting that is   *)
(* missing from the request makes the write throw after the key is set.    *)
JoinThrows(n) ==
    /\ n \in up
    /\ ~Linked(n)
    /\ faults < MaxFaults
    /\ faults' = faults + 1
    /\ link' = [link EXCEPT ![n] = "partial"]
    /\ left' = left \ {n}
    /\ UNCHANGED <<up, consul, begun, phase, held, leaked, storeVars, current>>

Start(n) ==
    /\ n \in up
    /\ Linked(n)
    /\ BeginStart(n)
    /\ UNCHANGED <<nodeVars, held, leaked, storeVars, current, faults>>

(* Stopping ends the watches and the timer, and then throws on a variable  *)
(* that does not exist: the session stays and consul goes on.  Of a node   *)
(* that is not linked only the watch on apps is ended.                     *)
Stop(n) ==
    /\ n \in up
    /\ Release(n, IF Linked(n) THEN Resources ELSE {"apps"})
    /\ UNCHANGED <<nodeVars, begun, phase, leaked, storeVars, current, faults>>

(* Variant of Leave: the settings are removed, as the code after the stop  *)
(* would do.                                                               *)
LeaveUnlinking(n) ==
    /\ n \in up
    /\ Linked(n)
    /\ Release(n, Resources)
    /\ link' = [link EXCEPT ![n] = "none"]
    /\ left' = left \union {n}
    /\ UNCHANGED <<up, consul, begun, phase, leaked, storeVars, current, faults>>

(* Leaving stops the node first; the exception skips the removal of the    *)
(* settings.                                                               *)
Leave(n) ==
    /\ n \in up
    /\ Linked(n)
    /\ Release(n, Resources)
    /\ left' = left \union {n}
    /\ UNCHANGED <<up, link, consul, begun, phase, leaked, storeVars, current, faults>>

(***************************************************************************)
(* Crashes, restarts and the passing of time.                              *)
(***************************************************************************)
(* The process dies, with its consul or without; a join may be caught      *)
(* between two writes of the settings.                                     *)
Crash(n) ==
    /\ n \in up
    /\ faults < MaxFaults
    /\ faults' = faults + 1
    /\ up' = up \ {n}
    /\ consul' \in {consul, consul \ {n}}
    /\ \/ UNCHANGED <<link, left>>
       \/ ~Linked(n) /\ link' = [link EXCEPT ![n] = "partial"] /\ left' = left \ {n}
    /\ phase' = [phase EXCEPT ![n] = [s \in Starts |-> "none"]]
    /\ held' = [held EXCEPT ![n] = {}]
    /\ leaked' = [leaked EXCEPT ![n] = [r \in Resources |-> 0]]
    /\ current' = [current EXCEPT ![n] = NoStart]
    /\ UNCHANGED <<begun, storeVars>>

(* server.js starts the link again when the settings hold a key.           *)
Boot(n) ==
    /\ n \notin up
    /\ up' = up \union {n}
    /\ IF Linked(n) THEN BeginStart(n) ELSE UNCHANGED <<begun, phase>>
    /\ UNCHANGED <<link, consul, left, held, leaked, storeVars, current, faults>>

(* A start that waits for the agent fails when it exits by an error; by    *)
(* any other exit its promise is never settled.                            *)
ConsulDies(n) ==
    /\ n \in consul
    /\ faults < MaxFaults
    /\ faults' = faults + 1
    /\ consul' = consul \ {n}
    /\ \E p \in {"failed", "hung"} :
          phase' = [phase EXCEPT ![n] =
                      [s \in Starts |-> IF @[s] = "syncing" THEN p ELSE @[s]]]
    /\ UNCHANGED <<up, link, left, begun, held, leaked, storeVars, current>>

Ticking(n) == "ticker" \in held[n] \/ leaked[n]["ticker"] > 0

(* Variant of Renewed: every timer renews the session it was started with. *)
RenewedForEver(n, s) == n \in consul /\ Ticking(n)

Renewed(n, s) == n \in consul /\ Ticking(n) /\ s = current[n]

(* consul lets a session nobody renews expire, and releases its lock.      *)
Expire(n, s) ==
    /\ s \in sessions[n]
    /\ ~Renewed(n, s)
    /\ sessions' = [sessions EXCEPT ![n] = @ \ {s}]
    /\ lock' = [lock EXCEPT ![n] = IF @ = s THEN NoStart ELSE @]
    /\ UNCHANGED <<nodeVars, begun, phase, held, leaked, current, leader, faults>>

ChainStep(n, s) ==
    \/ FindConsul(n, s) \/ SpawnConsul(n, s) \/ CreateSession(n, s)
    \/ Introspect(n, s) \/ Register(n, s) \/ StartWatching(n, s) \/ Swallow(n, s)
    \/ RaceForLeader(n, s) \/ RequestFails(n, s)
StartStep(n, s) == ChainStep(n, s) \/ ConsulSyncs(n, s)

Next ==
    \E n \in Nodes :
        \/ Join(n) \/ JoinThrows(n) \/ Start(n) \/ Stop(n) \/ Leave(n)
        \/ Crash(n) \/ Boot(n) \/ ConsulDies(n)
        \/ \E s \in Starts : StartStep(n, s) \/ Expire(n, s)

Spec == Init /\ [][Next]_vars

(* A start that is under way goes on, an expired session goes away, a dead *)
(* process is restarted by upstart.  Nobody has to call the API, and       *)
(* consul need not ever be synced.                                         *)
Fairness ==
    \A n \in Nodes :
        /\ WF_vars(Boot(n))
        /\ \A s \in Starts : WF_vars(ChainStep(n, s)) /\ WF_vars(Expire(n, s))
FairSpec == Spec /\ Fairness

-----------------------------------------------------------------------------
(* The types of the processes, their starts, the sessions and the lock of  *)
(* the store.                                                              *)
TypeOK ==
    /\ up \subseteq Nodes /\ consul \subseteq Nodes /\ left \subseteq Nodes
    /\ link \in [Nodes -> {"none", "partial", "full"}]
    /\ begun \in [Nodes -> 0..MaxStarts]
    /\ phase \in [Nodes -> [Starts -> Phases]]
    /\ held \in [Nodes -> SUBSET Resources]
    /\ leaked \in [Nodes -> [Resources -> Nat]]
    /\ sessions \in [Nodes -> SUBSET Starts]
    /\ current \in [Nodes -> Starts \union {NoStart}]
    /\ lock \in [Nodes -> Starts \union {NoStart}]
    /\ leader \in Nodes \union {NoLeader}
    /\ faults \in 0..MaxFaults

(* Only a linked node takes part: no start under way, no watch, timer or   *)
(* session, held or leaked, and no leadership without a cluster key.       *)
OnlyLinkedNodesAct ==
    \A n \in Nodes : ~Linked(n) =>
        /\ \A s \in Starts : phase[n][s] = "none"
        /\ held[n] = {} /\ \A r \in Resources : leaked[n][r] = 0
        /\ sessions[n] = {} /\ n \notin consul /\ leader # n

(* Watches and timers are bounded by the starts: a process has no more of  *)
(* them, leaked ones included, than starts of its that came through.       *)
Open(n, r) == leaked[n][r] + (IF r \in held[n] THEN 1 ELSE 0)
Through(n, P) == Cardinality({s \in Starts : phase[n][s] \in P})
OpenOncePerStart ==
    \A n \in Nodes :
        /\ Open(n, "apps") <= Through(n, {"done"})
        /\ \A r \in {"local", "ticker"} : Open(n, r) <= Through(n, {"race", "done"})

(* Every start comes to an end, though its steps fail and consul dies; the *)
(* one thing it may wait for in vain is the agent it spawned.              *)
StartsEnd ==
    \A n \in Nodes, s \in Starts :
        phase[n][s] \in Pending ~> phase[n][s] \notin Pending

(* A session that is not the current one of a running process expires.     *)
StaleSessionsExpire ==
    \A n \in Nodes, s \in Starts :
        s \in sessions[n] /\ s # current[n] ~> s \notin sessions[n] \/ s = current[n]

-----------------------------------------------------------------------------
(***************************************************************************)
(* What the documentation of the API says, and the code does not do.       *)
(***************************************************************************)

(* apiary.apib: the changes to the cluster are up to "the current master". *)
AtMostOneMaster ==
    \A m, n \in Nodes : "apps" \in held[m] /\ "apps" \in held[n] => m = n

(* readme.md: to leave is to "remove this node from the cluster".  A node  *)
(* that was told to leave, and not to join again since, has no key of the  *)
(* cluster that a restart would take it back with.                         *)
LeaveUnlinks == \A n \in left : ~Linked(n)

=============================================================================
