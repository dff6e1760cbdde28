-------------------------- MODULE FabricNodeProofs --------------------------
(***************************************************************************)
(* Proofs about FabricNode: the node with its views is a LocalNode, so     *)
(* that what is proved of that one holds of it; and what the answers of    *)
(* the lists are worth, for any apps, daemons, templates, deliveries and   *)
(* queries.                                                                *)
(***************************************************************************)
EXTENDS FabricNode, LocalNodeProofs

(* Every step of the node with the views is a step of the node, or leaves  *)
(* it alone.                                                               *)
LEMMA StepImplements == Next => [LocalNext]_localVars
  <1> SUFFICES ASSUME Next
               PROVE  [LocalNext]_localVars
    OBVIOUS
  <1>1. CASE NodeActs
    BY <1>1 DEF NodeActs, LocalNext
  <1>2. CASE \E q \in Queries : Asks(q) \/ Answers(q) \/ QueryFails(q)
    BY <1>2 DEF Asks, Answers, QueryFails, LocalNext, MasterStep
  <1>3. CASE \E a \in Apps : RemoveApp(a) \/ InstallApp(a)
    BY <1>3 DEF RemoveApp, InstallApp, LocalNext, MasterStep
  <1>4. CASE \E f \in Files : UploadTemplate(f)
    BY <1>4 DEF UploadTemplate, LocalNext, MasterStep
  <1>5. CASE \E d \in Daemons : Sync(d) \/ RunCheck(d)
    BY <1>5 DEF Sync, RunCheck, CatalogShows
  <1>6. CASE NodeExpires
    BY <1>6 DEF NodeExpires, LocalNext, MasterStep
  <1> QED
    BY <1>1, <1>2, <1>3, <1>4, <1>5, <1>6 DEF Next

(* Whatever the views, the keys and the checks do besides: the node works  *)
(* as LocalNode says.                                                      *)
THEOREM ImplementsLocalNode == Spec => LocalSpec
  <1>1. Init => LocalInit
    <2> SUFFICES ASSUME Init
                 PROVE  LocalInit
      OBVIOUS
    <2>1. PICK S \in Scenarios :
            StartWith(S \intersect Jobs, {d \in Daemons : Runs(d) \in S})
      BY DEF Init
    <2>2. /\ S \intersect Jobs \in SUBSET Jobs
          /\ {d \in Daemons : Runs(d) \in S} \in SUBSET Daemons
      OBVIOUS
    <2> QED
      BY <2>1, <2>2 DEF LocalInit
  <1>2. [Next]_vars => [LocalNext]_localVars
    BY StepImplements DEF vars
  <1> QED
    BY <1>1, <1>2, PTL DEF Spec, LocalSpec

(* The promises of the handlers hold with the views beside them.           *)
THEOREM NodeKeepsPromises == Spec => []LocalInvariant
  BY ImplementsLocalNode, InvariantHolds, PTL

(* Nothing leaves the catalogue.                                           *)
LEMMA CatalogStays ==
    ASSUME [Next]_vars, DOMAIN catalog = Daemons
    PROVE  DOMAIN catalog' = Daemons /\ Shown \subseteq Shown'
  <1>1. CASE UNCHANGED catalog
    BY <1>1 DEF Shown
  <1>2. ASSUME NEW d \in Daemons, NEW s, s # "none", CatalogShows(d, s)
        PROVE  DOMAIN catalog' = Daemons /\ Shown \subseteq Shown'
    BY <1>2 DEF CatalogShows, Shown
  <1>3. CASE \E d \in Daemons : Sync(d) \/ RunCheck(d)
    BY <1>2, <1>3 DEF Sync, RunCheck, CheckResults
  <1>4. CASE ~\E d \in Daemons : Sync(d) \/ RunCheck(d)
    BY <1>1, <1>4 DEF Next, NodeActs, ViewsFollow, Asks, Answers, QueryFails,
         RemoveApp, InstallApp, UploadTemplate, NodeExpires, vars, clusterVars
  <1> QED
    BY <1>3, <1>4

(***************************************************************************)
(* The lists.                                                              *)
(***************************************************************************)
Fields == {"at", "real", "health"}
Stages == {"list", "items", "both", "nodes", "apps",
           "unasked", "idle", "answered", "broken", "failed", "lost"}

Shape ==
    /\ query \in [Queries -> Stages]
    /\ kept \in [Queries -> SUBSET Views!Names]
    /\ DOMAIN item = Queries
    /\ \A q \in Queries : /\ DOMAIN item[q] = Views!Names
                          /\ \A x \in Views!Names : DOMAIN item[q][x] = Fields
    /\ apps \subseteq Apps /\ known \subseteq {Self} /\ DOMAIN catalog = Daemons

(* What is kept is still there, and once its entry has been read it is     *)
(* known to be; before a query has listed anything it keeps nothing.       *)
QueryFits(q) ==
    query[q] \in {"unasked", "idle", "list", "both", "nodes", "apps"} => kept[q] = {}

ItemFits(q, x) ==
    x \in kept[q] =>
        /\ x \in Views!Keys(q)
        /\ query[q] = "items" => item[q][x].at # "none"
        /\ query[q] = "answered" => item[q][x].at = "done"
        /\ item[q][x].at \in {"view", "done"} => item[q][x].real
        /\ item[q][x].at = "health" /\ q.kind = "nodes" => item[q][x].real

ViewsInv ==
    /\ Shape
    /\ \A q \in Queries : QueryFits(q) /\ \A x \in Views!Names : ItemFits(q, x)

(* The keys stay, but for those that are forgotten.                        *)
KeysKept ==
    \A q \in Queries : \A x \in kept'[q] : x \in Views!Keys(q) => x \in Views!Keys(q)'

(* An entry of a list that moves on keeps what is known of the lists.      *)
LEMMA ItemMoves ==
    ASSUME ViewsInv, UNCHANGED <<apps, known, catalog>>,
           NEW q \in Queries, NEW x \in Views!Names, NEW i,
           Views!ItemGoes(q, x, i), DOMAIN i = Fields,
           item[q][x].at \in Views!ItemsBusy, i.at # "none",
           x \in Views!Keys(q) /\ (i.at \in {"view", "done"}
                                     \/ (i.at = "health" /\ q.kind = "nodes")) =>
               \/ i.real
               \/ i.real = item[q][x].real /\ item[q][x].at = "view"
               \/ i.real = item[q][x].real /\ item[q][x].at = "health" /\ q.kind = "nodes"
    PROVE  ViewsInv'
  <1>1. /\ item'[q][x] = i /\ query' = query /\ kept' = kept
        /\ DOMAIN item' = Queries
        /\ \A p \in Queries : DOMAIN item'[p] = Views!Names
        /\ \A p \in Queries, y \in Views!Names :
              (p # q \/ y # x) => item'[p][y] = item[p][y]
    BY DEF ViewsInv, Shape, Views!ItemGoes
  <1>2. Shape'
    BY <1>1 DEF ViewsInv, Shape
  <1>3. \A p \in Queries : QueryFits(p)'
    BY <1>1 DEF ViewsInv, QueryFits
  <1>4. ASSUME NEW p \in Queries, NEW y \in Views!Names
        PROVE  ItemFits(p, y)'
    <2>1. Views!Keys(p)' = Views!Keys(p)
      BY DEF Views!Keys, Shown
    <2>2. ItemFits(p, y)
      BY DEF ViewsInv
    <2>3. CASE p = q /\ y = x
      BY <1>1, <2>1, <2>2, <2>3 DEF ItemFits, Views!ItemsBusy
    <2>4. CASE p # q \/ y # x
      BY <1>1, <2>1, <2>2, <2>4 DEF ItemFits
    <2> QED
      BY <2>3, <2>4
  <1> QED
    BY <1>2, <1>3, <1>4 DEF ViewsInv

(* So does a query that moves on.                                          *)
LEMMA QueryMoves ==
    ASSUME ViewsInv, UNCHANGED <<apps, known, catalog, item, kept>>,
           NEW q \in Queries, NEW p \in Stages, Views!Goes(q, p),
           p # "items",
           p = "answered" => \A x \in kept[q] : item[q][x].at = "done",
           p \in {"unasked", "idle", "list", "both", "nodes", "apps"} => kept[q] = {}
    PROVE  ViewsInv'
  <1>1. /\ query' \in [Queries -> Stages] /\ query'[q] = p
        /\ \A r \in Queries \ {q} : query'[r] = query[r]
    BY DEF ViewsInv, Shape, Views!Goes
  <1>2. Shape'
    BY <1>1 DEF ViewsInv, Shape
  <1>3. \A r \in Queries : QueryFits(r)'
    BY <1>1 DEF ViewsInv, QueryFits
  <1>4. ASSUME NEW r \in Queries, NEW y \in Views!Names
        PROVE  ItemFits(r, y)'
    <2>1. Views!Keys(r)' = Views!Keys(r)
      BY DEF Views!Keys, Shown
    <2>2. ItemFits(r, y)
      BY DEF ViewsInv
    <2>3. CASE r = q
      BY <1>1, <2>1, <2>2, <2>3 DEF ItemFits
    <2>4. CASE r # q
      BY <1>1, <2>1, <2>2, <2>4 DEF ItemFits
    <2> QED
      BY <2>3, <2>4
  <1> QED
    BY <1>2, <1>3, <1>4 DEF ViewsInv

(* A step of something else: keys may come, and go with what was kept.     *)
LEMMA KeysMove ==
    ASSUME ViewsInv, UNCHANGED <<query, item>>, KeysKept,
           kept' \in [Queries -> SUBSET Views!Names],
           \A q \in Queries : kept'[q] \subseteq kept[q],
           apps' \subseteq Apps, known' \subseteq {Self}, DOMAIN catalog' = Daemons
    PROVE  ViewsInv'
  <1>1. Shape'
    BY DEF ViewsInv, Shape
  <1>2. \A r \in Queries : QueryFits(r)'
    BY DEF ViewsInv, QueryFits
  <1>3. ASSUME NEW r \in Queries, NEW y \in Views!Names
        PROVE  ItemFits(r, y)'
    <2>1. ItemFits(r, y)
      BY DEF ViewsInv
    <2>2. y \in kept'[r] => y \in kept[r] /\ (y \in Views!Keys(r) => y \in Views!Keys(r)')
      BY DEF KeysKept
    <2> QED
      BY <2>1, <2>2 DEF ItemFits
  <1> QED
    BY <1>1, <1>2, <1>3 DEF ViewsInv

(* So does the listing of the keys.                                        *)
LEMMA Lists_OK ==
    ASSUME ViewsInv, UNCHANGED <<apps, known, catalog>>,
           NEW q \in Queries, NEW X, X \subseteq Views!Names, Views!List(q, X),
           q.kind \in {"apps", "nodes", "services"}
    PROVE  ViewsInv'
  <1>1. /\ query' \in [Queries -> Stages] /\ query'[q] = "items"
        /\ kept'[q] = X \intersect Views!Keys(q)
        /\ \A r \in Queries \ {q} : /\ query'[r] = query[r] /\ kept'[r] = kept[r]
                                    /\ item'[r] = item[r]
    BY DEF ViewsInv, Shape, Views!List, Views!Goes, Stages
  <1>2. /\ DOMAIN item' = Queries
        /\ item'[q] = [x \in Views!Names |->
              IF x \in X THEN [Views!Unread EXCEPT !.at = Views!FirstRead(q)]
              ELSE Views!Unread]
    BY DEF ViewsInv, Shape, Views!List
  <1>3. \A x \in Views!Names :
          /\ DOMAIN item'[q][x] = Fields
          /\ x \in X => item'[q][x].at = Views!FirstRead(q)
    BY <1>2 DEF Views!Unread, Fields
  <1>4. Shape'
    <2>1. kept' \in [Queries -> SUBSET Views!Names]
      BY <1>1 DEF ViewsInv, Shape, Views!List
    <2>2. \A r \in Queries : /\ DOMAIN item'[r] = Views!Names
                             /\ \A x \in Views!Names : DOMAIN item'[r][x] = Fields
      <3> TAKE r \in Queries
      <3>1. CASE r = q
        BY <1>2, <1>3, <3>1
      <3>2. CASE r # q
        BY <1>1, <3>2 DEF ViewsInv, Shape
      <3> QED
        BY <3>1, <3>2
    <2> QED
      BY <1>1, <1>2, <2>1, <2>2 DEF ViewsInv, Shape
  <1>5. \A r \in Queries : QueryFits(r)'
    BY <1>1 DEF ViewsInv, QueryFits
  <1>6. ASSUME NEW r \in Queries, NEW y \in Views!Names
        PROVE  ItemFits(r, y)'
    <2>1. Views!Keys(r)' = Views!Keys(r)
      BY DEF Views!Keys, Shown
    <2>2. ItemFits(r, y)
      BY DEF ViewsInv
    <2>3. CASE r = q
      <3>1. y \in kept'[q] => y \in X /\ y \in Views!Keys(q)
        BY <1>1
      <3>2. /\ Views!FirstRead(q) \in {"key", "both", "health"}
            /\ q.kind = "nodes" => Views!FirstRead(q) = "both"
        BY DEF Views!FirstRead
      <3> QED
        BY <1>1, <1>3, <2>1, <2>3, <3>1, <3>2 DEF ItemFits
    <2>4. CASE r # q
      BY <1>1, <2>1, <2>2, <2>4 DEF ItemFits
    <2> QED
      BY <2>3, <2>4
  <1> QED
    BY <1>4, <1>5, <1>6 DEF ViewsInv

(* So does the end of the process, which loses the pending queries.        *)
LEMMA LoseOK ==
    ASSUME ViewsInv, Views!Lose, UNCHANGED <<apps, known, catalog>>
    PROVE  ViewsInv'
  <1>1. /\ query' \in [Queries -> Stages] /\ kept' = kept
        /\ \A r \in Queries : \/ query'[r] = "lost" /\ query[r] \in Views!Pending
                              \/ query'[r] = query[r] /\ query[r] \notin Views!Pending
    BY DEF ViewsInv, Shape, Views!Lose, Stages, Views!Pending
  <1>2. /\ DOMAIN item' = Queries
        /\ \A r \in Queries : DOMAIN item'[r] = Views!Names
        /\ \A r \in Queries, y \in Views!Names :
              \/ item'[r][y] = Views!Unread /\ item[r][y].at \in Views!ItemsBusy
              \/ item'[r][y] = item[r][y] /\ item[r][y].at \notin Views!ItemsBusy
    BY DEF Views!Lose
  <1>3. /\ DOMAIN Views!Unread = Fields /\ Views!Unread.at = "none"
    BY DEF Views!Unread, Fields
  <1>4. Shape'
    BY <1>1, <1>2, <1>3 DEF ViewsInv, Shape
  <1>5. \A r \in Queries : QueryFits(r)'
    BY <1>1 DEF ViewsInv, QueryFits
  <1>6. ASSUME NEW r \in Queries, NEW y \in Views!Names
        PROVE  ItemFits(r, y)'
    <2>1. Views!Keys(r)' = Views!Keys(r)
      BY DEF Views!Keys, Shown
    <2>2. ItemFits(r, y)
      BY DEF ViewsInv
    <2>3. query'[r] \notin Views!Pending
      BY <1>1 DEF Views!Pending
    <2> QED
      BY <1>1, <1>2, <1>3, <2>1, <2>2, <2>3 DEF ItemFits, Views!Pending, Views!ItemsBusy
  <1> QED
    BY <1>4, <1>5, <1>6 DEF ViewsInv

(* What the store holds is named.                                          *)
LEMMA NamesOK ==
    ASSUME Shape
    PROVE  /\ apps \subseteq Views!Names /\ {Self} \subseteq Views!Names
           /\ Shown \subseteq Views!Names
           /\ Apps \subseteq Views!Names /\ Daemons \subseteq Views!Names
  BY DEF Shape, Shown, Views!Names

(* Every step of a query keeps what is known of the lists.                 *)
LEMMA AnswersOK ==
    ASSUME ViewsInv, NEW q \in Queries, Answers(q)
    PROVE  ViewsInv'
  <1>1. UNCHANGED <<apps, known, catalog>> /\ Views!QueryStep(q)
    BY DEF Answers, localVars, nodeVars, clusterVars
  <1>2. CASE Views!ListApps(q) \/ Views!ListNodes(q) \/ Views!ListServices(q)
    <2>1. Shape
      BY DEF ViewsInv
    <2> QED
      BY <1>1, <1>2, <2>1, NamesOK, Lists_OK
         DEF Views!ListApps, Views!ListNodes, Views!ListServices
  <1>3. CASE Views!JoinItems(q)
    <2>1. PICK p \in {"broken", "failed", "answered"} :
            /\ Views!Goes(q, p)
            /\ p = "answered" => \A x \in Views!Names : item[q][x].at \in {"none", "done"}
      BY <1>3 DEF Views!JoinItems
    <2>2. query[q] = "items" /\ UNCHANGED <<item, kept>>
      BY <1>3 DEF Views!JoinItems
    <2>3. p = "answered" => \A x \in kept[q] : item[q][x].at = "done"
      BY <2>1, <2>2 DEF ViewsInv, Shape, ItemFits
    <2> QED
      BY <1>1, <2>1, <2>2, <2>3, QueryMoves DEF Stages
  <1>4. CASE Views!ReadNodesStatus(q) \/ Views!ReadAppsStatus(q)
    <2>1. PICK p \in {"broken", "apps", "nodes", "answered"} : Views!Goes(q, p)
      BY <1>4 DEF Views!ReadNodesStatus, Views!ReadAppsStatus
    <2>2. query[q] \in {"both", "nodes", "apps"} /\ UNCHANGED <<item, kept>>
      BY <1>4 DEF Views!ReadNodesStatus, Views!ReadAppsStatus
    <2>3. kept[q] = {}
      BY <2>2 DEF ViewsInv, QueryFits
    <2> QED
      BY <1>1, <2>1, <2>2, <2>3, QueryMoves DEF Stages
  <1>5. CASE \E a \in Apps : Views!ReadApp(q, a) \/ Views!ReadView(q, a)
    <2> PICK a \in Apps : Views!ReadApp(q, a) \/ Views!ReadView(q, a)
      BY <1>5
    <2>1. a \in Views!Names /\ DOMAIN item[q][a] = Fields
      BY DEF ViewsInv, Shape, Views!Names
    <2>2. CASE Views!ReadApp(q, a)
      <3> DEFINE i == [item[q][a] EXCEPT !.real = a \in apps,
                                         !.at = IF a \in apps /\ ViewOf[a] # Views!NoView
                                                THEN "view" ELSE "done"]
      <3>1. Views!ItemGoes(q, a, i) /\ q.kind = "apps" /\ item[q][a].at = "key"
        BY <2>2 DEF Views!ReadApp
      <3>2. DOMAIN i = Fields /\ i.at \in {"view", "done"} /\ i.real = (a \in apps)
        BY <2>1 DEF Fields
      <3>3. a \in Views!Keys(q) => i.real
        BY <3>1, <3>2 DEF Views!Keys
      <3> HIDE DEF i
      <3> QED
        BY <1>1, <2>1, <3>1, <3>2, <3>3, ItemMoves DEF Views!ItemsBusy
    <2>3. CASE Views!ReadView(q, a)
      <3> DEFINE i == [item[q][a] EXCEPT !.at =
                          IF ViewOf[a].one /\ ViewOf[a].daemon \notin Shown
                          THEN "broken" ELSE "done"]
      <3>1. Views!ItemGoes(q, a, i) /\ item[q][a].at = "view"
        BY <2>3 DEF Views!ReadView
      <3>2. DOMAIN i = Fields /\ i.at \in {"broken", "done"} /\ i.real = item[q][a].real
        BY <2>1 DEF Fields
      <3> HIDE DEF i
      <3> QED
        BY <1>1, <2>1, <3>1, <3>2, ItemMoves DEF Views!ItemsBusy
    <2> QED
      BY <2>2, <2>3
  <1>6. CASE \E n \in {Self} : Views!ReadNodeKey(q, n) \/ Views!ReadNodeHealth(q, n)
    <2> PICK n \in {Self} : Views!ReadNodeKey(q, n) \/ Views!ReadNodeHealth(q, n)
      BY <1>6
    <2>1. n \in Views!Names /\ DOMAIN item[q][n] = Fields
      BY DEF ViewsInv, Shape, Views!Names
    <2>2. CASE Views!ReadNodeKey(q, n)
      <3> DEFINE i == [item[q][n] EXCEPT !.real = n \in known,
                         !.at = IF @ = "both" THEN "health" ELSE "done"]
      <3>1. /\ Views!ItemGoes(q, n, i) /\ q.kind = "nodes"
            /\ item[q][n].at \in {"both", "key"}
        BY <2>2 DEF Views!ReadNodeKey
      <3>2. DOMAIN i = Fields /\ i.at \in {"health", "done"} /\ i.real = (n \in known)
        BY <2>1 DEF Fields
      <3>3. n \in Views!Keys(q) => i.real
        BY <3>1, <3>2 DEF Views!Keys
      <3> HIDE DEF i
      <3> QED
        BY <1>1, <2>1, <3>1, <3>2, <3>3, ItemMoves DEF Views!ItemsBusy
    <2>3. CASE Views!ReadNodeHealth(q, n)
      <3> DEFINE i == [item[q][n] EXCEPT !.health = Views!Worst(Checks[n]),
                         !.at = IF @ = "both" THEN "key" ELSE "done"]
      <3>1. /\ Views!ItemGoes(q, n, i) /\ q.kind = "nodes"
            /\ item[q][n].at \in {"both", "health"}
        BY <2>3 DEF Views!ReadNodeHealth
      <3>2. /\ DOMAIN i = Fields /\ i.at \in {"key", "done"} /\ i.real = item[q][n].real
            /\ i.at = "done" => item[q][n].at = "health"
        BY <2>1, <3>1 DEF Fields
      <3> HIDE DEF i
      <3> QED
        BY <1>1, <2>1, <3>1, <3>2, ItemMoves DEF Views!ItemsBusy
    <2> QED
      BY <2>2, <2>3
  <1>7. CASE \E s \in Daemons : Views!ReadServiceHealth(q, s)
    <2> PICK s \in Daemons : Views!ReadServiceHealth(q, s)
      BY <1>7
    <2>1. s \in Views!Names
      BY DEF Views!Names
    <2>2. PICK k \in DOMAIN Checks[s] :
            Views!ItemGoes(q, s, [at |-> "done", real |-> s \in Shown,
                                  health |-> Checks[s][k]])
      BY DEF Views!ReadServiceHealth
    <2>3. q.kind = "services" /\ item[q][s].at = "health"
      BY DEF Views!ReadServiceHealth
    <2>4. s \in Views!Keys(q) => s \in Shown
      BY <2>3 DEF Views!Keys
    <2> DEFINE i == [at |-> "done", real |-> s \in Shown, health |-> Checks[s][k]]
    <2>5. /\ DOMAIN i = Fields /\ i.at = "done" /\ i.real = (s \in Shown)
          /\ Views!ItemGoes(q, s, i)
      BY <2>2 DEF Fields
    <2> HIDE DEF i
    <2> QED
      BY <1>1, <2>1, <2>3, <2>4, <2>5, ItemMoves DEF Views!ItemsBusy
  <1> QED
    BY <1>1, <1>2, <1>3, <1>4, <1>5, <1>6, <1>7 DEF Views!QueryStep

(* So does the failure of a read.                                          *)
LEMMA QueryFailsOK ==
    ASSUME ViewsInv, NEW q \in Queries, QueryFails(q)
    PROVE  ViewsInv'
  <1>1. UNCHANGED <<apps, known, catalog>>
    BY DEF QueryFails, clusterVars
  <1>2. CASE /\ query[q] \in Views!Pending \ {"items"} /\ Views!Goes(q, "failed")
             /\ UNCHANGED <<item, kept, seen>>
    BY <1>1, <1>2, QueryMoves DEF Stages
  <1>3. CASE \E x \in Views!Names : /\ item[q][x].at \in Views!ItemsBusy
                                    /\ Views!ItemGoes(q, x, [Views!Unread EXCEPT !.at = "failed"])
    <2> DEFINE i == [Views!Unread EXCEPT !.at = "failed"]
    <2>1. PICK x \in Views!Names : /\ item[q][x].at \in Views!ItemsBusy
                                   /\ Views!ItemGoes(q, x, i)
      BY <1>3
    <2>2. DOMAIN i = Fields /\ i.at = "failed"
      BY DEF Views!Unread, Fields
    <2> HIDE DEF i
    <2> QED
      BY <1>1, <2>1, <2>2, ItemMoves
  <1> QED
    BY <1>2, <1>3 DEF QueryFails, Views!QueryFails

(* So does every step of the node.                                         *)
LEMMA ViewsStepOK ==
    ASSUME ViewsInv, [Next]_vars
    PROVE  ViewsInv'
  <1>1. DOMAIN catalog' = Daemons /\ Shown \subseteq Shown'
    BY CatalogStays DEF ViewsInv, Shape
  <1>2. /\ kept \in [Queries -> SUBSET Views!Names]
        /\ apps \subseteq Apps /\ known \subseteq {Self} /\ DOMAIN catalog = Daemons
    BY DEF ViewsInv, Shape
  <1>3. ASSUME UNCHANGED <<query, item, kept>>, apps \subseteq apps', apps' \subseteq Apps,
               UNCHANGED known
        PROVE  ViewsInv'
    <2>1. KeysKept
      BY <1>1, <1>3 DEF KeysKept, Views!Keys
    <2> QED
      BY <1>1, <1>2, <1>3, <2>1, KeysMove
  <1>4. CASE NodeActs
    <2>1. CASE Views!Lose /\ UNCHANGED clusterVars
      BY <1>1, <2>1, LoseOK DEF clusterVars
    <2>2. CASE UNCHANGED viewVars /\ UNCHANGED clusterVars
      BY <1>2, <1>3, <2>2 DEF viewVars, clusterVars
    <2> QED
      BY <1>4, <2>1, <2>2 DEF NodeActs, ViewsFollow
  <1>5. CASE \E q \in Queries : Asks(q)
    <2> PICK q \in Queries : Asks(q)
      BY <1>5
    <2>1. PICK p \in {"both", "list"} : Views!Goes(q, p)
      BY DEF Asks, Views!Ask
    <2>2. UNCHANGED <<apps, known, catalog, item, kept>> /\ kept[q] = {}
      BY DEF Asks, Views!Ask, localVars, nodeVars, clusterVars, ViewsInv, QueryFits
    <2> QED
      BY <2>1, <2>2, QueryMoves DEF Stages
  <1>6. CASE \E q \in Queries : Answers(q) \/ QueryFails(q)
    BY <1>6, AnswersOK, QueryFailsOK
  <1>7. CASE \E a \in Apps : RemoveApp(a)
    <2> PICK a \in Apps : RemoveApp(a)
      BY <1>7
    <2>1. /\ apps' = apps \ Under[a] /\ UNCHANGED <<known, query, item, catalog>>
          /\ kept' = [q \in Queries |-> kept[q] \ Under[a]]
      BY DEF RemoveApp, Views!Forget, Purge, Elsewhere, nodeVars
    <2>2. KeysKept
      BY <2>1 DEF KeysKept, Views!Keys, Shown
    <2> QED
      BY <1>1, <1>2, <2>1, <2>2, KeysMove
  <1>8. CASE \E a \in Apps : InstallApp(a)
    BY <1>2, <1>3, <1>8 DEF InstallApp, viewVars
  <1>9. CASE \E f \in Files : UploadTemplate(f)
    BY <1>2, <1>3, <1>9 DEF UploadTemplate, viewVars, clusterVars
  <1>10. CASE \E d \in Daemons : Sync(d) \/ RunCheck(d)
    BY <1>2, <1>3, <1>10 DEF Sync, RunCheck, CatalogShows, viewVars
  <1>11. CASE NodeExpires
    <2>1. /\ known' = {} /\ UNCHANGED <<apps, query, item, catalog>>
          /\ kept' = [q \in Queries |-> kept[q] \ {Self}]
      BY <1>11 DEF NodeExpires, Views!Forget, Elsewhere, nodeVars
    <2>2. KeysKept
      BY <1>2, <2>1 DEF KeysKept, Views!Keys, Shown
    <2> QED
      BY <1>1, <1>2, <2>1, <2>2, KeysMove
  <1>12. CASE UNCHANGED vars
    BY <1>2, <1>3, <1>12 DEF vars, viewVars, clusterVars
  <1> QED
    BY <1>4, <1>5, <1>6, <1>7, <1>8, <1>9, <1>10, <1>11, <1>12 DEF Next

(* What is known of the lists holds in every state.                        *)
LEMMA ViewsHold == Spec => []ViewsInv
  <1>1. Init => ViewsInv
    <2> SUFFICES ASSUME Init
                 PROVE  ViewsInv
      OBVIOUS
    <2>1. PICK S \in Scenarios : Views!StartWith(S \intersect Queries)
      BY DEF Init
    <2>2. /\ query \in [Queries -> Stages] /\ kept = [q \in Queries |-> {}]
          /\ item = [q \in Queries |-> [x \in Views!Names |-> Views!Unread]]
      BY <2>1 DEF Views!StartWith, Stages
    <2>3. DOMAIN Views!Unread = Fields
      BY DEF Views!Unread, Fields
    <2>4. Shape
      BY <2>2, <2>3 DEF Shape, Init
    <2> QED
      BY <2>2, <2>4 DEF ViewsInv, QueryFits, ItemFits
  <1>2. ViewsInv /\ [Next]_vars => ViewsInv'
    BY ViewsStepOK
  <1> QED
    BY <1>1, <1>2, PTL DEF Spec

(* Whatever happens between the listing of the names and the reading of    *)
(* the entries, what is there all the while is on the list with its entry. *)
THEOREM ListsComplete == Spec => []ListsAreComplete
  <1>1. ViewsInv => ListsAreComplete
    <2> SUFFICES ASSUME ViewsInv, NEW q \in Queries, query[q] = "answered",
                        NEW x \in kept[q]
                 PROVE  item[q][x].at = "done" /\ item[q][x].real
      BY DEF ListsAreComplete, Views!ListsAreComplete
    <2>1. ItemFits(q, x)
      BY DEF ViewsInv, Shape
    <2> QED
      BY <2>1 DEF ItemFits
  <1> QED
    BY <1>1, ViewsHold, PTL

(* An entry is broken only by the look at its view, when the servers know  *)
(* no service of its daemon; and then it has no container, or the agent    *)
(* has still to pass its service on.                                       *)
THEOREM OnlyComingUpBreaks == Spec => OnlyAppsComingUpBreakLists
  <1> DEFINE Breaks(q, a) == item'[q][a].at = "broken" /\ item[q][a].at # "broken"
             Rightly == \A q \in Queries, a \in Apps :
                           Breaks(q, a) => ComesUp(ViewOf[a].daemon)
  <1>1. ASSUME ViewsInv, LocalInvariant, [Next]_vars
        PROVE  [Rightly]_vars
    <2> SUFFICES ASSUME Next
                 PROVE  Rightly
      BY <1>1
    <2>1. ASSUME NEW p \in Queries, NEW x \in Views!Names, NEW i,
                 Views!ItemGoes(p, x, i), i.at # "broken"
          PROVE  Rightly
      <3>1. \A q \in Queries, a \in Views!Names :
              item'[q][a] = item[q][a] \/ item'[q][a] = i
        BY <1>1, <2>1 DEF Views!ItemGoes, ViewsInv, Shape
      <3> QED
        BY <2>1, <3>1 DEF Views!Names
    <2>2. ASSUME UNCHANGED item
          PROVE  Rightly
      BY <2>2
    <2>3. CASE NodeActs
      <3>1. CASE Views!Lose
        <4>1. \A q \in Queries, a \in Views!Names :
                item'[q][a] = item[q][a] \/ item'[q][a] = Views!Unread
          BY <3>1 DEF Views!Lose
        <4>2. Views!Unread.at # "broken"
          BY DEF Views!Unread
        <4> QED
          BY <4>1, <4>2 DEF Views!Names
      <3> QED
        BY <2>2, <2>3, <3>1 DEF NodeActs, ViewsFollow, viewVars
    <2>4. CASE \E q \in Queries : QueryFails(q)
      <3> PICK p \in Queries : QueryFails(p)
        BY <2>4
      <3>1. [Views!Unread EXCEPT !.at = "failed"].at # "broken"
        BY DEF Views!Unread
      <3> QED
        BY <2>1, <2>2, <3>1 DEF QueryFails, Views!QueryFails
    <2>5. CASE \E q \in Queries : Answers(q)
      <3> PICK p \in Queries : Answers(p)
        BY <2>5
      <3>1. Views!QueryStep(p)
        BY DEF Answers
      <3>2. CASE Views!ListApps(p) \/ Views!ListNodes(p) \/ Views!ListServices(p)
        <4>1. PICK X : Views!List(p, X)
          BY <3>2 DEF Views!ListApps, Views!ListNodes, Views!ListServices
        <4>2. \A q \in Queries, a \in Views!Names :
                \/ item'[q][a] = item[q][a] \/ item'[q][a] = Views!Unread
                \/ item'[q][a] = [Views!Unread EXCEPT !.at = Views!FirstRead(p)]
          BY <1>1, <4>1 DEF Views!List, ViewsInv, Shape
        <4>3. /\ Views!Unread.at # "broken"
              /\ [Views!Unread EXCEPT !.at = Views!FirstRead(p)].at # "broken"
          BY DEF Views!Unread, Views!FirstRead
        <4> QED
          BY <4>2, <4>3 DEF Views!Names
      <3>3. CASE Views!JoinItems(p) \/ Views!ReadNodesStatus(p) \/ Views!ReadAppsStatus(p)
        BY <2>2, <3>3 DEF Views!JoinItems, Views!ReadNodesStatus, Views!ReadAppsStatus
      <3>4. ASSUME NEW a \in Apps, Views!ReadView(p, a)
            PROVE  Rightly
        <4> DEFINE i == [item[p][a] EXCEPT !.at =
                            IF ViewOf[a].one /\ ViewOf[a].daemon \notin Shown
                            THEN "broken" ELSE "done"]
        <4>1. Views!ItemGoes(p, a, i) /\ a \in Views!Names
          BY <3>4 DEF Views!ReadView, Views!Names
        <4>2. DOMAIN item[p][a] = Fields
          BY <1>1, <4>1 DEF ViewsInv, Shape
        <4>3. CASE ViewOf[a].one /\ ViewOf[a].daemon \notin Shown
          <5>1. ViewOf[a].daemon \in Daemons
            BY <4>3, AppsAssumption
          <5>2. /\ catalog[ViewOf[a].daemon] = "none"
                /\ Exists(ViewOf[a].daemon) => ViewOf[a].daemon \in registered
            BY <1>1, <4>3, <5>1 DEF LocalInvariant, ContainerIsRegistered, Shown
          <5>4. ComesUp(ViewOf[a].daemon)
            BY <5>2 DEF ComesUp
          <5>3. \A q \in Queries, b \in Views!Names :
                  item'[q][b] = item[q][b] \/ (q = p /\ b = a)
            BY <1>1, <4>1 DEF Views!ItemGoes, ViewsInv, Shape
          <5> QED
            BY <5>3, <5>4 DEF Views!Names
        <4>4. CASE ~(ViewOf[a].one /\ ViewOf[a].daemon \notin Shown)
          <5>1. i.at # "broken"
            BY <4>2, <4>4 DEF Fields
          <5> HIDE DEF i
          <5> QED
            BY <2>1, <4>1, <5>1
        <4> QED
          BY <4>3, <4>4
      <3>5. CASE \E a \in Apps : Views!ReadApp(p, a)
        <4> PICK a \in Apps : Views!ReadApp(p, a)
          BY <3>5
        <4> DEFINE i == [item[p][a] EXCEPT !.real = a \in apps,
                                           !.at = IF a \in apps /\ ViewOf[a] # Views!NoView
                                                  THEN "view" ELSE "done"]
        <4>1. Views!ItemGoes(p, a, i) /\ a \in Views!Names
          BY DEF Views!ReadApp, Views!Names
        <4>2. DOMAIN item[p][a] = Fields
          BY <1>1, <4>1 DEF ViewsInv, Shape
        <4>3. i.at # "broken"
          BY <4>2 DEF Fields
        <4> HIDE DEF i
        <4> QED
          BY <2>1, <4>1, <4>3
      <3>6. CASE \E n \in {Self} : Views!ReadNodeKey(p, n)
        <4> DEFINE i == [item[p][Self] EXCEPT !.real = Self \in known,
                           !.at = IF @ = "both" THEN "health" ELSE "done"]
        <4>1. Views!ItemGoes(p, Self, i) /\ Self \in Views!Names
          BY <3>6 DEF Views!ReadNodeKey, Views!Names
        <4>2. DOMAIN item[p][Self] = Fields
          BY <1>1, <4>1 DEF ViewsInv, Shape
        <4>3. i.at # "broken"
          BY <4>2 DEF Fields
        <4> HIDE DEF i
        <4> QED
          BY <2>1, <4>1, <4>3
      <3>7. CASE \E n \in {Self} : Views!ReadNodeHealth(p, n)
        <4> DEFINE i == [item[p][Self] EXCEPT !.health = Views!Worst(Checks[Self]),
                           !.at = IF @ = "both" THEN "key" ELSE "done"]
        <4>1. Views!ItemGoes(p, Self, i) /\ Self \in Views!Names
          BY <3>7 DEF Views!ReadNodeHealth, Views!Names
        <4>2. DOMAIN item[p][Self] = Fields
          BY <1>1, <4>1 DEF ViewsInv, Shape
        <4>3. i.at # "broken"
          BY <4>2 DEF Fields
        <4> HIDE DEF i
        <4> QED
          BY <2>1, <4>1, <4>3
      <3>8. CASE \E s \in Daemons : Views!ReadServiceHealth(p, s)
        <4> PICK s \in Daemons : Views!ReadServiceHealth(p, s)
          BY <3>8
        <4>1. PICK h : Views!ItemGoes(p, s, [at |-> "done", real |-> s \in Shown,
                                             health |-> h])
          BY DEF Views!ReadServiceHealth
        <4> DEFINE i == [at |-> "done", real |-> s \in Shown, health |-> h]
        <4>2. Views!ItemGoes(p, s, i) /\ s \in Views!Names /\ i.at # "broken"
          BY <4>1 DEF Views!Names
        <4> HIDE DEF i
        <4> QED
          BY <2>1, <4>2
      <3> QED
        BY <3>1, <3>2, <3>3, <3>4, <3>5, <3>6, <3>7, <3>8 DEF Views!QueryStep
    <2>6. CASE \/ \E q \in Queries : Asks(q)
               \/ \E a \in Apps : RemoveApp(a) \/ InstallApp(a)
               \/ \E f \in Files : UploadTemplate(f)
               \/ \E d \in Daemons : Sync(d) \/ RunCheck(d)
               \/ NodeExpires
      BY <2>2, <2>6 DEF Asks, Views!Ask, RemoveApp, InstallApp, UploadTemplate,
           Sync, RunCheck, CatalogShows, NodeExpires, Views!Forget, viewVars
    <2> QED
      BY <2>3, <2>4, <2>5, <2>6 DEF Next
  <1> QED
    BY <1>1, ViewsHold, NodeKeepsPromises, PTL DEF Spec, OnlyAppsComingUpBreakLists
=============================================================================
