---------------------------- MODULE ClusterViews ----------------------------
(***************************************************************************)
(* What the HTTP API shows of the cluster: the lists of apps, nodes and    *)
(* services, and the status (cluster/cluster-*.service.js over             *)
(* store/catalog.js, store/health.js and store/services.js).               *)
(*                                                                         *)
(* A list is one read that gives names, followed by reads for each name    *)
(* side by side, which Q.all joins.  Nothing keeps the cluster from        *)
(* changing in between.  The module reads the variables of the cluster and *)
(* changes only its own.                                                   *)
(***************************************************************************)
EXTENDS Integers, FiniteSets, SequencesExt

CONSTANTS
    Apps,        \* the applications
    ViewOf,      \* ViewOf[a]: the view of an app: [daemon, one], or NoView
    Services,    \* the services of the catalogue
    Nodes,       \* the nodes of the catalogue
    Queries,     \* the queries that may come: [kind, no]
    Contents     \* what the prefix nodes/ may hold: sets of [node, item, id, flags]

VARIABLES
    up,          \* the process that answers runs
    apps,        \* the keys apps/<app>
    known,       \* the keys nodes/<node>
    services,    \* the services that the catalogue knows
    checks,      \* checks[x]: the statuses of the checks of a node or a service
    query,       \* what each query waits for
    item,        \* the same for each name on its list
    kept,        \* history: the names that are there ever since they were listed
    seen         \* the content of nodes/ that a status query has read

viewVars == <<query, item, kept, seen>>

NoView == [daemon |-> "none", one |-> FALSE]
Names == Apps \union Nodes \union Services
Pending == {"list", "items", "both", "nodes", "apps"}

(* both: two requests are under way; broken: the handler itself threw.     *)
Unread == [at |-> "none", real |-> FALSE, health |-> "none"]
ItemsBusy == {"both", "key", "view", "health"}

StartWith(Q) ==
    /\ query = [q \in Queries |-> IF q \in Q THEN "idle" ELSE "unasked"]
    /\ item = [q \in Queries |-> [x \in Names |-> Unread]]
    /\ kept = [q \in Queries |-> {}]
    /\ seen = [q \in Queries |-> {}]

Goes(q, p) == up /\ query' = [query EXCEPT ![q] = p]
ItemGoes(q, x, i) ==
    /\ up
    /\ item' = [item EXCEPT ![q][x] = i]
    /\ UNCHANGED <<query, kept, seen>>

(* What is deleted is no longer kept; a process that ends answers nothing. *)
Forget(X) ==
    /\ kept' = [q \in Queries |-> kept[q] \ X]
    /\ UNCHANGED <<query, item, seen>>
Lose ==
    /\ query' = [q \in Queries |-> IF query[q] \in Pending THEN "lost" ELSE query[q]]
    /\ item' = [q \in Queries |-> [x \in Names |->
                  IF item[q][x].at \in ItemsBusy THEN Unread ELSE item[q][x]]]
    /\ UNCHANGED <<kept, seen>>

(***************************************************************************)
(* The lists.                                                              *)
(***************************************************************************)
Ask(q) ==
    /\ query[q] = "idle"
    /\ Goes(q, IF q.kind = "status" THEN "both" ELSE "list")
    /\ UNCHANGED <<item, kept, seen>>

FirstRead(q) ==
    IF q.kind = "apps" THEN "key" ELSE IF q.kind = "nodes" THEN "both" ELSE "health"

(* The keys that the items of a list are the entries of.                   *)
Keys(q) ==
    IF q.kind = "apps" THEN apps ELSE IF q.kind = "nodes" THEN known ELSE services

(* No apps at all is answered by consul with a 404, and the empty list.    *)
List(q, X) ==
    /\ query[q] = "list"
    /\ Goes(q, "items")
    /\ item' = [item EXCEPT ![q] = [x \in Names |->
                  IF x \in X THEN [Unread EXCEPT !.at = FirstRead(q)] ELSE Unread]]
    /\ kept' = [kept EXCEPT ![q] = X \intersect Keys(q)]
    /\ UNCHANGED seen

ListApps(q) == q.kind = "apps" /\ List(q, apps)
ListNodes(q) == q.kind = "nodes" /\ List(q, Nodes)
ListServices(q) == q.kind = "services" /\ List(q, services)

(* The entry of an app: a key that has gone is the empty object.  The view *)
(* of the app, if the entry has one, is looked up next.                    *)
ReadApp(q, a) ==
    /\ q.kind = "apps" /\ item[q][a].at = "key"
    /\ ItemGoes(q, a,
         [item[q][a] EXCEPT !.real = a \in apps,
                            !.at = IF a \in apps /\ ViewOf[a] # NoView
                                   THEN "view" ELSE "done"])

(* A view of multiplicity one shows the first of the nodes that have its   *)
(* service, without asking whether there is one.                           *)
ReadView(q, a) ==
    /\ item[q][a].at = "view"
    /\ ItemGoes(q, a,
         [item[q][a] EXCEPT !.at =
            IF ViewOf[a].one /\ ViewOf[a].daemon \notin services
            THEN "broken" ELSE "done"])

(* The key and the health of a node are read side by side.                 *)
ReadNodeKey(q, n) ==
    /\ q.kind = "nodes" /\ item[q][n].at \in {"both", "key"}
    /\ ItemGoes(q, n, [item[q][n] EXCEPT !.real = n \in known,
                         !.at = IF @ = "both" THEN "health" ELSE "done"])

CheckStates == <<"passing", "warning", "critical", "unknown">>
Severity(s) ==
    IF \E i \in 1..4 : CheckStates[i] = s
    THEN (CHOOSE i \in 1..4 : CheckStates[i] = s) - 1 ELSE -1

(* Variant of Worst: each check is compared with nothing but the best.     *)
LatestCheck(cs) ==
    CheckStates[1 + FoldLeft(LAMBDA w, s : IF Severity(s) > 0 THEN Severity(s) ELSE w,
                             0, cs)]

Worst(cs) ==
    CheckStates[1 + FoldLeft(LAMBDA w, s : IF Severity(s) > w THEN Severity(s) ELSE w,
                             0, cs)]

ReadNodeHealth(q, n) ==
    /\ q.kind = "nodes" /\ item[q][n].at \in {"both", "health"}
    /\ ItemGoes(q, n, [item[q][n] EXCEPT !.health = Worst(checks[n]),
                         !.at = IF @ = "both" THEN "key" ELSE "done"])

(* Of the checks of a service on a node each overwrites the one before: it *)
(* is consul's order that decides which one is shown.                      *)
ReadServiceHealth(q, s) ==
    /\ q.kind = "services" /\ item[q][s].at = "health"
    /\ \E i \in DOMAIN checks[s] :
          ItemGoes(q, s, [at |-> "done", real |-> s \in services,
                          health |-> checks[s][i]])

(* Variant of JoinItems: a list is answered while items are missing.       *)
JoinAny(q) ==
    /\ query[q] = "items"
    /\ Goes(q, "answered")
    /\ UNCHANGED <<item, kept, seen>>

(* Q.all: one failure is the failure of the list.                          *)
JoinItems(q) ==
    /\ query[q] = "items"
    /\ \/ \E x \in Names : item[q][x].at = "broken" /\ Goes(q, "broken")
       \/ \E x \in Names : item[q][x].at = "failed" /\ Goes(q, "failed")
       \/ (\A x \in Names : item[q][x].at \in {"none", "done"}) /\ Goes(q, "answered")
    /\ UNCHANGED <<item, kept, seen>>

(***************************************************************************)
(* The status: every key below nodes/ is read at once.                     *)
(***************************************************************************)
(* The name of a node runs up to /daemons/, and to the end of the key if   *)
(* there is none: the key of a resource makes a node of its own.           *)
NodeName(e) == IF e.item = "resources" THEN <<e.node, e.id>> ELSE <<e.node>>

NotANumber == -1
Counted == {0, 1, 2, 999}    \* the flags that have a counter from the start
NoTally == [total |-> 0, of |-> {}, stats |-> [f \in Counted |-> 0]]

(* m, with y for x, which may be new to it.                                *)
With(m, x, y) == [z \in DOMAIN m \union {x} |-> IF z = x THEN y ELSE m[z]]
Named(m, x) == IF x \in DOMAIN m THEN m ELSE With(m, x, NoTally)

(* A counter that was not there at the start never becomes a number.       *)
Count(t, x, f) ==
    [total |-> t.total + 1,
     of |-> t.of \union {<<x, f>>},
     stats |-> With(t.stats, f,
                    IF f \in DOMAIN t.stats /\ t.stats[f] # NotANumber
                    THEN t.stats[f] + 1 ELSE NotANumber)]

(* Variant of AddEntry: a node starts anew with every key of its.          *)
AddEntryAnew(r, e) ==
    LET ns == With(r.nodes, NodeName(e), NoTally)
        ds == Named(r.daemons, e.id)
    IN  IF e.item # "daemons" THEN [r EXCEPT !.nodes = ns]
        ELSE [nodes |-> [ns EXCEPT ![NodeName(e)] = Count(@, e.id, e.flags)],
              daemons |-> [ds EXCEPT ![e.id] = Count(@, e.node, e.flags)]]

AddEntry(r, e) ==
    LET ns == Named(r.nodes, NodeName(e))
        ds == Named(r.daemons, e.id)
    IN  IF e.item # "daemons" THEN [r EXCEPT !.nodes = ns]
        ELSE [nodes |-> [ns EXCEPT ![NodeName(e)] = Count(@, e.id, e.flags)],
              daemons |-> [ds EXCEPT ![e.id] = Count(@, e.node, e.flags)]]

StatusOf(E) == FoldLeft(AddEntry, [nodes |-> <<>>, daemons |-> <<>>], SetToSeq(E))

(* An empty prefix is no list, and the handler throws on it.               *)
ReadNodesStatus(q) ==
    /\ query[q] \in {"both", "nodes"}
    /\ \E E \in Contents :
          /\ seen' = [seen EXCEPT ![q] = E]
          /\ Goes(q, IF E = {} THEN "broken"
                     ELSE IF query[q] = "both" THEN "apps" ELSE "answered")
    /\ UNCHANGED <<item, kept>>

ReadAppsStatus(q) ==
    /\ query[q] \in {"both", "apps"}
    /\ Goes(q, IF query[q] = "both" THEN "nodes" ELSE "answered")
    /\ UNCHANGED <<item, kept, seen>>

(* consul answers a request of a query by an error.                        *)
QueryFails(q) ==
    \/ query[q] \in Pending \ {"items"} /\ Goes(q, "failed") /\ UNCHANGED <<item, kept, seen>>
    \/ \E x \in Names : /\ item[q][x].at \in ItemsBusy
                        /\ ItemGoes(q, x, [Unread EXCEPT !.at = "failed"])

QueryStep(q) ==
    \/ ListApps(q) \/ ListNodes(q) \/ ListServices(q)
    \/ JoinItems(q) \/ ReadNodesStatus(q) \/ ReadAppsStatus(q)
    \/ \E a \in Apps : ReadApp(q, a) \/ ReadView(q, a)
    \/ \E n \in Nodes : ReadNodeKey(q, n) \/ ReadNodeHealth(q, n)
    \/ \E s \in Services : ReadServiceHealth(q, s)

-----------------------------------------------------------------------------
ViewsTypeOK ==
    /\ query \in [Queries -> Pending \union {"unasked", "idle", "answered",
                                            "broken", "failed", "lost"}]
    /\ item \in [Queries -> [Names ->
          [at : ItemsBusy \union {"none", "done", "broken", "failed"},
           real : BOOLEAN,
           health : {"none"} \union {CheckStates[i] : i \in 1..4}]]]
    /\ kept \in [Queries -> SUBSET Names]
    /\ seen \in [Queries -> Contents \union {{}}]

(* What is there from the moment the names are read until the answer is    *)
(* given is on the list, with what its entry says; an empty object can     *)
(* only stand for what has been deleted meanwhile.                         *)
ListsAreComplete ==
    \A q \in Queries :
        query[q] = "answered" =>
            \A x \in kept[q] : item[q][x].at = "done" /\ item[q][x].real

(* The health of a node is that of its worst check, in whatever order its  *)
(* checks are listed.                                                      *)
HealthIsWorst ==
    [][\A q \in Queries, n \in Nodes :
          item'[q][n].health \notin {"none", item[q][n].health} =>
              LET worst == Severity(item'[q][n].health)
                  levels == {Severity(checks[n][i]) : i \in DOMAIN checks[n]}
              IN  /\ \A l \in levels : l <= worst
                  /\ worst \in levels \union {0}]_viewVars

(* The two books of the status agree with the keys, and so with each       *)
(* other: every node that has a key is in it; what it counts of a node or  *)
(* of a daemon, in total and for each state the code knows, is the number  *)
(* of its keys, although other flags make counters that are no numbers;    *)
(* and what is a node only by the name of a resource's key has no daemons. *)
Tallies(t, D, O) ==
    /\ t.total = Cardinality(D) /\ t.of = O
    /\ \A f \in Counted : t.stats[f] = Cardinality({e \in D : e.flags = f})
Books(r, E) ==
    LET daemons == {e \in E : e.item = "daemons"}
    IN  /\ DOMAIN r.nodes = {NodeName(e) : e \in E}
        /\ DOMAIN r.daemons = {e.id : e \in daemons}
        /\ \A n \in DOMAIN r.nodes :
              LET D == {e \in daemons : NodeName(e) = n}
              IN  Tallies(r.nodes[n], D, {<<e.id, e.flags>> : e \in D})
        /\ \A d \in DOMAIN r.daemons :
              LET D == {e \in daemons : e.id = d}
              IN  Tallies(r.daemons[d], D, {<<e.node, e.flags>> : e \in D})
StatusAddsUp ==
    \A q \in Queries :
        query[q] = "answered" /\ q.kind = "status" => Books(StatusOf(seen[q]), seen[q])

(* Every query is answered, or refused, or lost with the process.          *)
Quiet ==
    \A q \in Queries :
        /\ query[q] \notin Pending
        /\ \A x \in Names : item[q][x].at \notin ItemsBusy
QueriesEnd == []<>Quiet
=============================================================================
