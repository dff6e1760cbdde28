------------------------- MODULE ClusterViewsProofs -------------------------
(***************************************************************************)
(* Proofs about what FabricNode computes for its views: the health of a    *)
(* node, which is a fold over its checks, and the status, which is a fold  *)
(* over the keys of the store.                                             *)
(*                                                                         *)
(* An induction theorem takes a predicate as its parameter, and so none is *)
(* used here: the inductions are over a set of numbers, or of sets of      *)
(* numbers, which is a value.                                              *)
(***************************************************************************)
EXTENDS FabricNodeProofs, Integers, FiniteSetTheorems

(***************************************************************************)
(* Numbers, and sets of the first numbers.                                 *)
(***************************************************************************)
(* A set of numbers has a least one.                                       *)
LEMMA NatLeast ==
    ASSUME NEW T \in SUBSET Nat, T # {}
    PROVE  \E m \in T : \A n \in T : m <= n
  <1> DEFINE R == {ss \in Nat \X Nat : ss[1] < ss[2]}
  <1>1. IsWellFoundedOn(R, Nat)
    BY NatLessThanWellFounded DEF OpToRel
  <1>2. \E x \in T : \A y \in T : ~ (<<y, x>> \in R)
    <2> HIDE DEF R
    <2> QED
      BY <1>1, WFMin
  <1>3. \A x, y \in T : <<y, x>> \notin R => x <= y
    BY DEF R
  <1> QED
    BY <1>2, <1>3

(* What holds of zero, and of a number with the one before, holds of all.  *)
LEMMA NatSteps ==
    ASSUME NEW P \in SUBSET Nat, 0 \in P, \A n \in P : n + 1 \in P
    PROVE  P = Nat
  <1> DEFINE T == Nat \ P
  <1> SUFFICES ASSUME T # {}
               PROVE  FALSE
    OBVIOUS
  <1>1. PICK m \in T : \A n \in T : m <= n
    BY NatLeast
  <1>2. m \in Nat /\ m # 0 /\ m - 1 \in Nat /\ m - 1 \in P
    BY <1>1
  <1>3. (m - 1) + 1 = m
    BY <1>2
  <1> QED
    BY <1>1, <1>2, <1>3

(* A set of the first numbers has a greatest one.                          *)
LEMMA MaxOK ==
    ASSUME NEW n \in Nat, NEW s \in SUBSET (1..n), s # {}
    PROVE  Max(s) \in s /\ \A x \in s : x <= Max(s)
  <1> DEFINE T == {n - x : x \in s}
  <1>1. T \in SUBSET Nat /\ T # {}
    <2>1. \A x \in s : n - x \in Nat
      OBVIOUS
    <2> QED
      BY <2>1
  <1>2. PICK m \in T : \A k \in T : m <= k
    BY <1>1, NatLeast
  <1>3. PICK x \in s : m = n - x
    BY <1>2
  <1>4. \A y \in s : x >= y
    <2> TAKE y \in s
    <2>1. m <= n - y
      BY <1>2
    <2> QED
      BY <1>3, <2>1
  <1>5. \A y \in s : Max(s) >= y
    BY <1>4 DEF Max
  <1>6. Max(s) \in s
    BY <1>4 DEF Max
  <1> QED
    BY <1>5, <1>6

(* Without it, it is a set of the numbers before.                          *)
LEMMA RestOK ==
    ASSUME NEW m \in Nat, NEW s \in SUBSET (1..(m + 1)), s # {}
    PROVE  /\ Max(s) \in s /\ s \ {Max(s)} \in SUBSET (1..m)
           /\ s \ {Max(s)} \in SUBSET (1..(m + 1))
  <1> DEFINE top == Max(s)
  <1>1. top \in s /\ \A x \in s : x <= top
    <2>1. m + 1 \in Nat
      OBVIOUS
    <2> QED
      BY <2>1, MaxOK
  <1>2. top \in 1..(m + 1)
    BY <1>1
  <1>3. ASSUME NEW x \in s \ {top}
        PROVE  x \in 1..m
    <2>1. x \in 1..(m + 1) /\ x <= top /\ x # top
      BY <1>1
    <2> HIDE DEF top
    <2> QED
      BY <1>2, <2>1
  <1> QED
    BY <1>1, <1>3

(* What holds of no number, and of a set when it does without the greatest *)
(* one, holds of every set of the first numbers.                           *)
LEMMA SetSteps ==
    ASSUME NEW n \in Nat, NEW P \in SUBSET (SUBSET (1..n)), {} \in P,
           \A s \in SUBSET (1..n) : s # {} /\ s \ {Max(s)} \in P => s \in P
    PROVE  P = SUBSET (1..n)
  <1> DEFINE Q == {m \in Nat : \A s \in SUBSET (1..n) : s \subseteq 1..m => s \in P}
  <1>1. 0 \in Q
    <2>1. 1..0 = {}
      OBVIOUS
    <2>2. \A s : s \subseteq {} => s = {}
      OBVIOUS
    <2> QED
      BY <2>1, <2>2
  <1>2. ASSUME NEW m \in Q
        PROVE  m + 1 \in Q
    <2> SUFFICES ASSUME NEW s \in SUBSET (1..n), s \subseteq 1..(m + 1), s # {}
                 PROVE  s \in P
      BY <1>1
    <2>1. s \ {Max(s)} \in SUBSET (1..n) /\ s \ {Max(s)} \subseteq 1..m
      BY RestOK
    <2>2. s \ {Max(s)} \in P
      BY <2>1
    <2> QED
      BY <2>2
  <1>3. Q = Nat
    <2> HIDE DEF Q
    <2>1. Q \in SUBSET Nat
      BY DEF Q
    <2> QED
      BY <1>1, <1>2, <2>1, NatSteps
  <1> QED
    BY <1>3

(***************************************************************************)
(* The health of a node.                                                   *)
(***************************************************************************)
WorseOf(w, c) == IF Views!Severity(c) > w THEN Views!Severity(c) ELSE w

(* The fold over the first checks, as a function of their set.             *)
WorstFold(h, cs, m) ==
    h = [s \in SUBSET (1..m) |->
            IF s = {} THEN 0 ELSE WorseOf(h[s \ {Max(s)}], cs[Max(s)])]

(* There is such a function.                                               *)
LEMMA WorstFoldExists ==
    ASSUME NEW cs, NEW n \in Nat
    PROVE  \E h : WorstFold(h, cs, n)
  <1> DEFINE P == {m \in Nat : \E h : WorstFold(h, cs, m)}
  <1>1. 0 \in P
    <2> DEFINE h == [s \in SUBSET (1..0) |-> 0]
    <2>1. \A s \in SUBSET (1..0) : s = {}
      <3>1. 1..0 = {}
        OBVIOUS
      <3> QED
        BY <3>1
    <2>2. h = [s \in SUBSET (1..0) |->
            IF s = {} THEN 0 ELSE WorseOf(h[s \ {Max(s)}], cs[Max(s)])]
      BY <2>1
    <2>3. WorstFold(h, cs, 0)
      BY <2>2, Zenon DEF WorstFold
    <2> QED
      BY <2>3
  <1>2. ASSUME NEW m \in P
        PROVE  m + 1 \in P
    <2>1. PICK g : WorstFold(g, cs, m)
      OBVIOUS
    <2> DEFINE h == [s \in SUBSET (1..(m + 1)) |->
                       IF s \subseteq 1..m THEN g[s]
                       ELSE WorseOf(g[s \ {Max(s)}], cs[Max(s)])]
    <2>2. ASSUME NEW s \in SUBSET (1..(m + 1)), s # {}
          PROVE  h[s] = WorseOf(h[s \ {Max(s)}], cs[Max(s)])
      <3> DEFINE top == Max(s)
                 rest == s \ {top}
      <3>1. rest \in SUBSET (1..m) /\ rest \in SUBSET (1..(m + 1))
        BY <2>2, RestOK
      <3>2. h[rest] = g[rest]
        BY <3>1
      <3>3. CASE s \subseteq 1..m
        <4>1. g[s] = WorseOf(g[rest], cs[top])
          BY <2>1, <2>2, <3>3 DEF WorstFold
        <4>2. h[s] = g[s]
          BY <3>3
        <4> QED
          BY <3>2, <4>1, <4>2, Zenon
      <3>4. CASE ~(s \subseteq 1..m)
        <4>1. h[s] = WorseOf(g[rest], cs[top])
          BY <3>4
        <4> QED
          BY <3>2, <4>1, Zenon
      <3> QED
        BY <3>3, <3>4
    <2>3. h[{}] = 0
      <3>1. g[{}] = 0
        BY <2>1 DEF WorstFold
      <3> QED
        BY <3>1
    <2>4. h = [s \in SUBSET (1..(m + 1)) |-> h[s]]
      OBVIOUS
    <2>5. h = [s \in SUBSET (1..(m + 1)) |->
                 IF s = {} THEN 0 ELSE WorseOf(h[s \ {Max(s)}], cs[Max(s)])]
      <3> HIDE DEF h
      <3> QED
        BY <2>2, <2>3, <2>4
    <2>6. WorstFold(h, cs, m + 1)
      BY <2>5, Zenon DEF WorstFold
    <2>7. m + 1 \in Nat
      OBVIOUS
    <2> QED
      BY <2>6, <2>7
  <1>3. P \in SUBSET Nat
    OBVIOUS
  <1>4. P = Nat
    <2> HIDE DEF P
    <2> QED
      BY <1>1, <1>2, <1>3, NatSteps
  <1> QED
    BY <1>4

(* The health is read off the fold over all the checks.                    *)
LEMMA WorstIsFold ==
    ASSUME NEW cs, NEW n \in Nat, DOMAIN cs = 1..n
    PROVE  \E h : /\ WorstFold(h, cs, n)
                  /\ Views!Worst(cs) = Views!CheckStates[1 + h[1..n]]
  <1> DEFINE g == CHOOSE h : WorstFold(h, cs, n)
  <1>1. WorstFold(g, cs, n)
    BY WorstFoldExists
  <1>2. g = CHOOSE h : h = [s \in SUBSET DOMAIN cs |->
              IF s = {} THEN 0
              ELSE IF Views!Severity(cs[Views!Max(s)]) > h[s \ {Views!Max(s)}]
                   THEN Views!Severity(cs[Views!Max(s)])
                   ELSE h[s \ {Views!Max(s)}]]
    BY DEF WorstFold, WorseOf, Max, Views!Max
  <1>3. Views!Worst(cs) = Views!CheckStates[1 + g[DOMAIN cs]]
    BY <1>2 DEF Views!Worst, Views!FoldLeft, Views!MapThenFoldSet
  <1> QED
    BY <1>1, <1>3

(* What is not one of the four states counts as less than the least.       *)
LEMMA SeverityOK ==
    ASSUME NEW c
    PROVE  /\ Views!Severity(c) \in -1..3
           /\ Views!Severity(c) # -1 => c = Views!CheckStates[1 + Views!Severity(c)]
  <1> DEFINE i == CHOOSE i \in 1..4 : Views!CheckStates[i] = c
  <1>1. CASE \E k \in 1..4 : Views!CheckStates[k] = c
    <2>1. i \in 1..4 /\ Views!CheckStates[i] = c
      BY <1>1
    <2>2. Views!Severity(c) = i - 1
      BY <1>1 DEF Views!Severity
    <2> HIDE DEF i
    <2>3. 1 + (i - 1) = i
      BY <2>1
    <2> QED
      BY <2>1, <2>2, <2>3
  <1>2. CASE ~ \E k \in 1..4 : Views!CheckStates[k] = c
    BY <1>2 DEF Views!Severity
  <1> QED
    BY <1>1, <1>2

(* The four states have the severity of their place.                       *)
LEMMA StateSeverity ==
    ASSUME NEW w \in 0..3
    PROVE  Views!Severity(Views!CheckStates[1 + w]) = w
  <1> DEFINE c == Views!CheckStates[1 + w]
             i == CHOOSE k \in 1..4 : Views!CheckStates[k] = c
  <1>1. \A k \in 1..4 : Views!CheckStates[k] = c => k = 1 + w
    BY DEF Views!CheckStates
  <1>2. 1 + w \in 1..4
    OBVIOUS
  <1>3. \E k \in 1..4 : Views!CheckStates[k] = c
    BY <1>2
  <1> HIDE DEF c
  <1>4. i \in 1..4 /\ Views!CheckStates[i] = c
    BY <1>3
  <1>5. Views!Severity(c) = i - 1
    BY <1>3 DEF Views!Severity
  <1> HIDE DEF i
  <1>6. Views!Severity(c) = w
    BY <1>1, <1>4, <1>5
  <1> QED
    BY <1>6 DEF c

(* The health is one of the four states; its severity is that of the worst *)
(* of the checks, or nothing.                                              *)
LEMMA WorstOK ==
    ASSUME NEW cs, NEW n \in Nat, DOMAIN cs = 1..n
    PROVE  /\ Views!Worst(cs) \in {Views!CheckStates[i] : i \in 1..4}
           /\ Views!Severity(Views!Worst(cs)) \in {Views!Severity(cs[i]) : i \in 1..n} \union {0}
           /\ \A i \in 1..n : Views!Severity(cs[i]) <= Views!Severity(Views!Worst(cs))
  <1> DEFINE sev(i) == Views!Severity(cs[i])
  <1>1. PICK h : /\ WorstFold(h, cs, n)
                 /\ Views!Worst(cs) = Views!CheckStates[1 + h[1..n]]
    BY WorstIsFold
  <1>2. \A i \in 1..n : sev(i) \in -1..3
    BY SeverityOK
  <1> HIDE DEF sev
  <1> DEFINE Right(s) == /\ h[s] \in 0..3
                         /\ h[s] \in {sev(i) : i \in s} \union {0}
                         /\ \A i \in s : sev(i) <= h[s]
             P == {s \in SUBSET (1..n) : Right(s)}
  <1>3. {} \in P
    <2>1. h[{}] = 0
      BY <1>1 DEF WorstFold
    <2> QED
      BY <2>1
  <1>4. ASSUME NEW s \in SUBSET (1..n), s # {}, s \ {Max(s)} \in P
        PROVE  s \in P
    <2> DEFINE top == Max(s)
               rest == s \ {top}
    <2>1. top \in s
      BY <1>4, MaxOK
    <2>2. h[s] = IF sev(top) > h[rest] THEN sev(top) ELSE h[rest]
      BY <1>1, <1>4 DEF WorstFold, WorseOf, sev
    <2> HIDE DEF top
    <2>3. /\ h[rest] \in 0..3 /\ h[rest] \in {sev(i) : i \in rest} \union {0}
          /\ \A i \in rest : sev(i) <= h[rest]
      BY <1>4 DEF top
    <2>4. sev(top) \in -1..3
      BY <1>2, <2>1
    <2>5. h[s] \in 0..3 /\ h[rest] <= h[s] /\ sev(top) <= h[s]
      BY <2>2, <2>3, <2>4
    <2>6. h[s] \in {sev(i) : i \in s} \union {0}
      BY <2>1, <2>2, <2>3
    <2>7. ASSUME NEW i \in s
          PROVE  sev(i) <= h[s]
      <3>1. CASE i = top
        BY <2>5, <3>1
      <3>2. CASE i # top
        <4>1. sev(i) <= h[rest] /\ sev(i) \in -1..3
          BY <1>2, <2>3, <3>2
        <4> QED
          BY <2>3, <2>5, <4>1
      <3> QED
        BY <3>1, <3>2
    <2> QED
      BY <2>5, <2>6, <2>7
  <1>5. P = SUBSET (1..n)
    <2>1. P \in SUBSET (SUBSET (1..n))
      OBVIOUS
    <2> HIDE DEF P
    <2> QED
      BY <1>3, <1>4, <2>1, SetSteps
  <1>6. Right(1..n)
    <2>1. 1..n \in P
      BY <1>5
    <2> QED
      BY <2>1
  <1>7. Views!Severity(Views!Worst(cs)) = h[1..n]
    BY <1>1, <1>6, StateSeverity
  <1>8. 1 + h[1..n] \in 1..4
    BY <1>6
  <1> QED
    BY <1>1, <1>6, <1>7, <1>8 DEF sev

(***************************************************************************)
(* What a set is read as.                                                  *)
(***************************************************************************)
(* The two modules count alike.                                            *)
LEMMA SameCount == \A S : Views!Cardinality(S) = Cardinality(S)
  BY DEF Views!Cardinality, Cardinality

(* A finite set has a listing, and the listing meets each element once.    *)
LEMMA EnumerationOK ==
    ASSUME NEW S, IsFiniteSet(S)
    PROVE  /\ Cardinality(S) \in Nat
           /\ Views!SetToSeq(S) = SetToSeq(S)
           /\ SetToSeq(S) \in [1..Cardinality(S) -> S]
           /\ \A i, j \in 1..Cardinality(S) : SetToSeq(S)[i] = SetToSeq(S)[j] => i = j
           /\ \A e \in S : \E i \in 1..Cardinality(S) : SetToSeq(S)[i] = e
  <1> DEFINE n == Cardinality(S)
             f == SetToSeq(S)
  <1>1. n \in Nat /\ ExistsBijection(1..n, S)
    BY FS_CardinalityType
  <1>2. \E g \in [1..n -> S] : IsInjective(g)
    BY <1>1 DEF ExistsBijection, Bijection, Injection
  <1>3. f \in [1..n -> S] /\ IsInjective(f)
    BY <1>2 DEF SetToSeq
  <1>4. Views!SetToSeq(S) = f
    BY SameCount DEF Views!SetToSeq, SetToSeq, Views!IsInjective, IsInjective
  <1> HIDE DEF f
  <1>5. f \in Surjection(1..n, S)
    <2>1. f \in Injection(1..n, S)
      BY <1>3 DEF Injection
    <2>2. Cardinality(1..n) = n
      BY <1>1, FS_Interval
    <2> QED
      BY <2>1, <2>2, FS_Injection
  <1>6. \A e \in S : \E i \in 1..n : f[i] = e
    BY <1>5 DEF Surjection
  <1>7. \A i, j \in 1..n : f[i] = f[j] => i = j
    BY <1>3 DEF IsInjective
  <1> QED
    BY <1>1, <1>3, <1>4, <1>6, <1>7 DEF f

(* The checks of the node are a list: its own, and those of its services.  *)
LEMMA ChecksOK ==
    ASSUME catalog \in [Daemons -> CheckResults \union {"none"}]
    PROVE  /\ \E n \in Nat : DOMAIN Checks[Self] = 1..n
           /\ \A d \in Daemons : \A k \in DOMAIN Checks[d] :
                 Checks[d][k] \in CheckResults
  <1>1. IsFiniteSet(Shown)
    BY ListsAssumption, FS_Subset DEF Shown
  <1> DEFINE s == SetToSeq(Shown)
             n == Cardinality(Shown)
             t == ServiceChecks(Shown)
  <1>2. n \in Nat /\ DOMAIN s = 1..n
    BY <1>1, EnumerationOK
  <1>3. t = [i \in 1..n |-> catalog[s[i]]]
    BY <1>2 DEF ServiceChecks
  <1> HIDE DEF t, s, n
  <1>4. <<"passing">> \o t = [i \in 1..(1 + n) |-> IF i = 1 THEN "passing" ELSE t[i - 1]]
    BY <1>2, <1>3
  <1>5. Checks[Self] = <<"passing">> \o t
    BY DEF Checks, t
  <1>6. ASSUME NEW d \in Daemons, NEW k \in DOMAIN Checks[d]
        PROVE  Checks[d][k] \in CheckResults
    <2>1. Checks[d] = <<"passing">> \o (IF d \in Shown THEN <<catalog[d]>> ELSE <<>>)
      BY ListsAssumption DEF Checks
    <2>2. d \in Shown => catalog[d] \in CheckResults
      BY DEF Shown
    <2>3. "passing" \in CheckResults
      BY DEF CheckResults
    <2> QED
      BY <2>1, <2>2, <2>3
  <1> QED
    BY <1>2, <1>4, <1>5, <1>6

(***************************************************************************)
(* The items of the lists.                                                 *)
(***************************************************************************)
Healths == {"none"} \union {Views!CheckStates[i] : i \in 1..4}
Item == [at : Views!ItemsBusy \union {"none", "done", "broken", "failed"},
         real : BOOLEAN, health : Healths]

ItemsTyped ==
    /\ item \in [Queries -> [Views!Names -> Item]]
    /\ catalog \in [Daemons -> CheckResults \union {"none"}]

(* Where the health of an item comes from, if it changes.                  *)
HealthFrom(x, old, new) ==
    \/ new.health \in {"none", old.health}
    \/ x = Self /\ new.health = Views!Worst(Checks[Self])
    \/ x \in Daemons
ItemsMove ==
    \A q \in Queries, x \in Views!Names : HealthFrom(x, item[q][x], item'[q][x])

(* The four states, by their names.                                        *)
LEMMA HealthNames ==
    Healths = {"none", "passing", "warning", "critical", "unknown"}
  <1>1. /\ Views!CheckStates[1] = "passing" /\ Views!CheckStates[2] = "warning"
        /\ Views!CheckStates[3] = "critical" /\ Views!CheckStates[4] = "unknown"
    BY DEF Views!CheckStates
  <1>2. 1..4 = {1, 2, 3, 4}
    OBVIOUS
  <1> HIDE DEF Views!CheckStates
  <1>3. {Views!CheckStates[i] : i \in 1..4} = {"passing", "warning", "critical", "unknown"}
    BY <1>1, <1>2
  <1> QED
    BY <1>3 DEF Healths

(* One item that moves on.                                                 *)
LEMMA OneItemMoves ==
    ASSUME ItemsTyped, UNCHANGED catalog,
           NEW q \in Queries, NEW x \in Views!Names, NEW i \in Item,
           Views!ItemGoes(q, x, i), HealthFrom(x, item[q][x], i)
    PROVE  ItemsTyped' /\ ItemsMove
  <1>1. item' = [item EXCEPT ![q][x] = i]
    BY DEF Views!ItemGoes
  <1>2. item' \in [Queries -> [Views!Names -> Item]]
    BY <1>1 DEF ItemsTyped
  <1>3. ASSUME NEW p \in Queries, NEW y \in Views!Names
        PROVE  HealthFrom(y, item[p][y], item'[p][y])
    <2>1. item'[p][y] = IF p = q /\ y = x THEN i ELSE item[p][y]
      BY <1>1 DEF ItemsTyped
    <2>2. CASE p = q /\ y = x
      BY <2>1, <2>2
    <2>3. CASE ~(p = q /\ y = x)
      BY <2>1, <2>3 DEF HealthFrom
    <2> QED
      BY <2>2, <2>3
  <1> QED
    BY <1>2, <1>3 DEF ItemsTyped, ItemsMove

(* None that does.                                                         *)
LEMMA NoItemMoves ==
    ASSUME ItemsTyped, UNCHANGED item,
           catalog' \in [Daemons -> CheckResults \union {"none"}]
    PROVE  ItemsTyped' /\ ItemsMove
  BY DEF ItemsTyped, ItemsMove, HealthFrom

(* What is read anew, is as it was at the start.                           *)
LEMMA UnreadOK ==
    /\ Views!Unread \in Item /\ Views!Unread.health = "none"
    /\ \A a \in {"key", "both", "health", "failed"} :
          /\ [Views!Unread EXCEPT !.at = a] \in Item
          /\ [Views!Unread EXCEPT !.at = a].health = "none"
  BY DEF Views!Unread, Item, Healths, Views!ItemsBusy

(* What a reading leaves of an item.                                       *)
LEMMA ItemRead ==
    ASSUME NEW j \in Item, NEW r, NEW a
    PROVE  [j EXCEPT !.real = r, !.at = a] = [at |-> a, real |-> r, health |-> j.health]
  <1> DEFINE i == [j EXCEPT !.real = r, !.at = a]
  <1>1. j = [at |-> j.at, real |-> j.real, health |-> j.health]
    BY DEF Item
  <1>2. DOMAIN i = {"at", "real", "health"}
    BY <1>1
  <1>3. i.at = a /\ i.real = r /\ i.health = j.health
    BY <1>1
  <1>4. i = [f \in DOMAIN i |-> i[f]]
    OBVIOUS
  <1> HIDE DEF i
  <1>5. i = [at |-> a, real |-> r, health |-> j.health]
    BY <1>2, <1>3, <1>4
  <1> QED
    BY <1>5 DEF i

(* A query reads the entry of an item, and its view.                       *)
LEMMA EntryReadOK ==
    ASSUME ItemsTyped, UNCHANGED catalog, NEW q \in Queries,
           \/ \E a \in Apps : Views!ReadApp(q, a) \/ Views!ReadView(q, a)
           \/ Views!ReadNodeKey(q, Self)
    PROVE  ItemsTyped' /\ ItemsMove
  <1>1. ASSUME NEW x \in Views!Names, NEW r \in BOOLEAN,
               NEW a \in {"view", "health", "done", "broken"}, NEW i,
               i = [at |-> a, real |-> r, health |-> item[q][x].health],
               Views!ItemGoes(q, x, i)
        PROVE  ItemsTyped' /\ ItemsMove
    <2>1. i \in Item /\ i.health = item[q][x].health
      BY <1>1 DEF ItemsTyped, Item, Views!ItemsBusy
    <2> QED
      BY <1>1, <2>1, OneItemMoves DEF HealthFrom
  <1>2. \A x \in Views!Names : /\ item[q][x] \in Item
                               /\ item[q][x].real \in BOOLEAN
    BY DEF ItemsTyped, Item
  <1>3. ASSUME NEW a \in Apps, Views!ReadApp(q, a)
        PROVE  ItemsTyped' /\ ItemsMove
    <2>1. a \in Views!Names
      BY DEF Views!Names
    <2> DEFINE r == a \in apps
               p == IF a \in apps /\ ViewOf[a] # Views!NoView THEN "view" ELSE "done"
               i == [item[q][a] EXCEPT !.real = r, !.at = p]
    <2>2. i = [at |-> p, real |-> r, health |-> item[q][a].health]
      <3> HIDE DEF r, p
      <3> QED
        BY <1>2, <2>1, ItemRead, Zenon
    <2>3. Views!ItemGoes(q, a, i)
      BY <1>3 DEF Views!ReadApp
    <2>4. p \in {"view", "done"} /\ r \in BOOLEAN
      OBVIOUS
    <2> HIDE DEF i, p, r
    <2> QED
      BY <1>1, <2>1, <2>2, <2>3, <2>4
  <1>4. ASSUME NEW a \in Apps, Views!ReadView(q, a)
        PROVE  ItemsTyped' /\ ItemsMove
    <2>1. a \in Views!Names
      BY DEF Views!Names
    <2> DEFINE p == IF ViewOf[a].one /\ ViewOf[a].daemon \notin Shown
                    THEN "broken" ELSE "done"
               i == [item[q][a] EXCEPT !.at = p]
    <2>2. i = [at |-> p, real |-> item[q][a].real, health |-> item[q][a].health]
      BY <1>2, <2>1 DEF Item
    <2>3. Views!ItemGoes(q, a, i)
      BY <1>4 DEF Views!ReadView
    <2>4. p \in {"broken", "done"}
      OBVIOUS
    <2> HIDE DEF i, p
    <2> QED
      BY <1>1, <1>2, <2>1, <2>2, <2>3, <2>4
  <1>5. CASE Views!ReadNodeKey(q, Self)
    <2>1. Self \in Views!Names
      BY DEF Views!Names
    <2> DEFINE r == Self \in known
               p == IF item[q][Self].at = "both" THEN "health" ELSE "done"
               i == [item[q][Self] EXCEPT !.real = r, !.at = p]
    <2>2. i = [at |-> p, real |-> r, health |-> item[q][Self].health]
      <3> HIDE DEF r, p
      <3> QED
        BY <1>2, <2>1, ItemRead, Zenon
    <2>3. Views!ItemGoes(q, Self, i)
      BY <1>5 DEF Views!ReadNodeKey
    <2>4. p \in {"health", "done"} /\ r \in BOOLEAN
      OBVIOUS
    <2> HIDE DEF i, p, r
    <2> QED
      BY <1>1, <2>1, <2>2, <2>3, <2>4
  <1> QED
    BY <1>3, <1>4, <1>5

(* A query reads the health of the node, or of a service.                  *)
LEMMA HealthReadOK ==
    ASSUME ItemsTyped, UNCHANGED catalog, NEW q \in Queries,
           \/ Views!ReadNodeHealth(q, Self)
           \/ \E d \in Daemons : Views!ReadServiceHealth(q, d)
    PROVE  ItemsTyped' /\ ItemsMove
  <1>0. catalog \in [Daemons -> CheckResults \union {"none"}]
    BY DEF ItemsTyped
  <1>1. CASE Views!ReadNodeHealth(q, Self)
    <2> DEFINE w == Views!Worst(Checks[Self])
               p == IF item[q][Self].at = "both" THEN "key" ELSE "done"
               i == [item[q][Self] EXCEPT !.health = w, !.at = p]
    <2>1. Self \in Views!Names /\ Views!ItemGoes(q, Self, i)
      BY <1>1 DEF Views!ReadNodeHealth, Views!Names
    <2>2. w \in Healths
      BY <1>0, ChecksOK, WorstOK DEF Healths
    <2>3. p \in {"key", "done"}
      OBVIOUS
    <2>4. item[q][Self] \in Item
      BY <2>1 DEF ItemsTyped
    <2>5. i \in Item /\ i.health = w
      <3> HIDE DEF p, w
      <3> QED
        BY <2>2, <2>3, <2>4 DEF Item, Views!ItemsBusy
    <2>6. HealthFrom(Self, item[q][Self], i)
      BY <2>5, Zenon DEF HealthFrom
    <2> HIDE DEF i
    <2> QED
      BY <2>1, <2>5, <2>6, OneItemMoves
  <1>2. ASSUME NEW d \in Daemons, Views!ReadServiceHealth(q, d)
        PROVE  ItemsTyped' /\ ItemsMove
    <2>1. PICK k \in DOMAIN Checks[d] :
            Views!ItemGoes(q, d, [at |-> "done", real |-> d \in Shown,
                                  health |-> Checks[d][k]])
      BY <1>2 DEF Views!ReadServiceHealth
    <2> DEFINE r == d \in Shown
               c == Checks[d][k]
               i == [at |-> "done", real |-> r, health |-> c]
    <2>2. c \in Healths
      <3>1. c \in CheckResults
        BY <1>0, ChecksOK
      <3> QED
        BY <3>1, HealthNames DEF CheckResults
    <2>3. r \in BOOLEAN
      OBVIOUS
    <2>4. Views!ItemGoes(q, d, i) /\ d \in Views!Names
      BY <2>1 DEF Views!Names
    <2> HIDE DEF r, c
    <2>5. i \in Item
      BY <2>2, <2>3 DEF Item
    <2>6. HealthFrom(d, item[q][d], i)
      BY DEF HealthFrom
    <2> HIDE DEF i
    <2> QED
      BY <2>4, <2>5, <2>6, OneItemMoves
  <1> QED
    BY <1>1, <1>2

(* Every item is what its type says, and the health of one changes only by *)
(* a reading of it.                                                        *)
LEMMA ItemsStepOK ==
    ASSUME ItemsTyped, [Next]_vars
    PROVE  ItemsTyped' /\ ItemsMove
  <1>1. CASE NodeActs
    <2>1. UNCHANGED catalog
      BY <1>1 DEF NodeActs, ViewsFollow, clusterVars
    <2>2. CASE Views!Lose
      <3>1. \A q \in Queries, x \in Views!Names :
              item'[q][x] = item[q][x] \/ item'[q][x] = Views!Unread
        BY <2>2 DEF Views!Lose
      <3>2. item' \in [Queries -> [Views!Names -> Item]]
        BY <2>2, UnreadOK DEF Views!Lose, ItemsTyped
      <3> QED
        BY <2>1, <3>1, <3>2, UnreadOK DEF ItemsTyped, ItemsMove, HealthFrom
    <2>3. CASE UNCHANGED viewVars
      BY <2>1, <2>3, NoItemMoves DEF viewVars, ItemsTyped
    <2> QED
      BY <1>1, <2>2, <2>3 DEF NodeActs, ViewsFollow
  <1>2. ASSUME NEW q \in Queries, Answers(q)
        PROVE  ItemsTyped' /\ ItemsMove
    <2>1. Views!QueryStep(q) /\ UNCHANGED catalog
      BY <1>2 DEF Answers, localVars, nodeVars, clusterVars
    <2>2. ASSUME NEW X, Views!List(q, X)
          PROVE  ItemsTyped' /\ ItemsMove
      <3> DEFINE a == Views!FirstRead(q)
      <3>1. a \in {"key", "both", "health"}
        BY DEF Views!FirstRead
      <3>2. item' = [item EXCEPT ![q] = [x \in Views!Names |->
                       IF x \in X THEN [Views!Unread EXCEPT !.at = a] ELSE Views!Unread]]
        BY <2>2 DEF Views!List
      <3>3. item' \in [Queries -> [Views!Names -> Item]]
        BY <3>1, <3>2, UnreadOK DEF ItemsTyped
      <3>4. \A p \in Queries, x \in Views!Names :
              \/ item'[p][x] = item[p][x] \/ item'[p][x] = Views!Unread
              \/ item'[p][x] = [Views!Unread EXCEPT !.at = a]
        BY <3>2 DEF ItemsTyped
      <3> HIDE DEF a
      <3>5. Views!Unread.health = "none" /\ [Views!Unread EXCEPT !.at = a].health = "none"
        BY <3>1, UnreadOK
      <3>6. ASSUME NEW p \in Queries, NEW x \in Views!Names
            PROVE  item'[p][x].health \in {"none", item[p][x].health}
        BY <3>4, <3>5
      <3>7. ItemsMove
        BY <3>6 DEF ItemsMove, HealthFrom
      <3> QED
        BY <2>1, <3>3, <3>7 DEF ItemsTyped
    <2>3. CASE Views!ListApps(q) \/ Views!ListNodes(q) \/ Views!ListServices(q)
      BY <2>2, <2>3 DEF Views!ListApps, Views!ListNodes, Views!ListServices
    <2>4. CASE Views!JoinItems(q) \/ Views!ReadNodesStatus(q) \/ Views!ReadAppsStatus(q)
      BY <2>1, <2>4, NoItemMoves
         DEF Views!JoinItems, Views!ReadNodesStatus, Views!ReadAppsStatus, ItemsTyped
    <2> QED
      BY <2>1, <2>3, <2>4, EntryReadOK, HealthReadOK DEF Views!QueryStep
  <1>3. ASSUME NEW q \in Queries, QueryFails(q)
        PROVE  ItemsTyped' /\ ItemsMove
    <2>1. Views!QueryFails(q) /\ UNCHANGED catalog
      BY <1>3 DEF QueryFails, Elsewhere, nodeVars, clusterVars
    <2>2. CASE UNCHANGED item
      BY <2>1, <2>2, NoItemMoves DEF ItemsTyped
    <2>3. ASSUME NEW x \in Views!Names,
                 Views!ItemGoes(q, x, [Views!Unread EXCEPT !.at = "failed"])
          PROVE  ItemsTyped' /\ ItemsMove
      <3> DEFINE i == [Views!Unread EXCEPT !.at = "failed"]
      <3>1. i \in Item /\ i.health = "none"
        BY UnreadOK
      <3> HIDE DEF i
      <3>2. HealthFrom(x, item[q][x], i)
        BY <3>1 DEF HealthFrom
      <3> QED
        BY <2>1, <2>3, <3>1, <3>2, OneItemMoves DEF i
    <2> QED
      BY <2>1, <2>2, <2>3 DEF Views!QueryFails
  <1>4. CASE \E d \in Daemons : Sync(d) \/ RunCheck(d)
    <2>1. /\ catalog' \in [Daemons -> CheckResults \union {"none"}]
          /\ UNCHANGED item
      BY <1>4 DEF Sync, RunCheck, CatalogShows, CheckResults, viewVars, ItemsTyped
    <2> QED
      BY <2>1, NoItemMoves
  <1>5. CASE \/ \E q \in Queries : Asks(q)
             \/ \E a \in Apps : RemoveApp(a) \/ InstallApp(a)
             \/ \E f \in Files : UploadTemplate(f)
             \/ NodeExpires \/ UNCHANGED vars
    <2>1. UNCHANGED <<catalog, item>>
      BY <1>5 DEF Asks, Views!Ask, RemoveApp, InstallApp, UploadTemplate, NodeExpires,
           Views!Forget, viewVars, clusterVars, vars
    <2> QED
      BY <2>1, NoItemMoves DEF ItemsTyped
  <1> QED
    BY <1>1, <1>2, <1>3, <1>4, <1>5 DEF Next

(* What a status query has read, the prefix may hold.                      *)
SeenTyped == seen \in [Queries -> Contents \union {{}}]

LEMMA SeenStepOK ==
    ASSUME SeenTyped, [Next]_vars
    PROVE  SeenTyped'
  <1>1. CASE \E q \in Queries : Views!ReadNodesStatus(q)
    BY <1>1 DEF SeenTyped, Views!ReadNodesStatus
  <1>2. CASE UNCHANGED seen
    BY <1>2 DEF SeenTyped
  <1>3. CASE NodeActs
    BY <1>2, <1>3 DEF NodeActs, ViewsFollow, Views!Lose, viewVars
  <1>4. ASSUME NEW q \in Queries, Answers(q)
        PROVE  SeenTyped'
    <2>1. CASE \/ Views!ListApps(q) \/ Views!ListNodes(q) \/ Views!ListServices(q)
               \/ Views!JoinItems(q) \/ Views!ReadAppsStatus(q)
      BY <1>2, <2>1 DEF Views!ListApps, Views!ListNodes, Views!ListServices,
           Views!List, Views!JoinItems, Views!ReadAppsStatus
    <2>2. CASE \/ \E a \in Apps : Views!ReadApp(q, a) \/ Views!ReadView(q, a)
               \/ Views!ReadNodeKey(q, Self) \/ Views!ReadNodeHealth(q, Self)
               \/ \E d \in Daemons : Views!ReadServiceHealth(q, d)
      BY <1>2, <2>2 DEF Views!ReadApp, Views!ReadView, Views!ReadNodeKey,
           Views!ReadNodeHealth, Views!ReadServiceHealth, Views!ItemGoes
    <2> QED
      BY <1>1, <1>4, <2>1, <2>2 DEF Answers, Views!QueryStep
  <1>5. CASE \E q \in Queries : Asks(q) \/ QueryFails(q)
    BY <1>2, <1>5 DEF Asks, Views!Ask, QueryFails, Views!QueryFails, Views!ItemGoes
  <1>6. CASE \/ \E a \in Apps : RemoveApp(a) \/ InstallApp(a)
             \/ \E f \in Files : UploadTemplate(f)
             \/ \E d \in Daemons : Sync(d) \/ RunCheck(d)
             \/ NodeExpires \/ UNCHANGED vars
    BY <1>2, <1>6 DEF RemoveApp, InstallApp, UploadTemplate, Sync, RunCheck,
         CatalogShows, NodeExpires, Views!Forget, viewVars, vars
  <1> QED
    BY <1>3, <1>4, <1>5, <1>6 DEF Next

(* What is known of the items, and of what was seen, holds in every state. *)
LEMMA ItemsHold == Spec => []ItemsTyped /\ []SeenTyped
  <1>1. Init => ItemsTyped /\ SeenTyped
    <2> SUFFICES ASSUME Init
                 PROVE  ItemsTyped /\ SeenTyped
      OBVIOUS
    <2>1. PICK S \in Scenarios : Views!StartWith(S \intersect Queries)
      BY DEF Init
    <2>2. /\ item = [q \in Queries |-> [x \in Views!Names |-> Views!Unread]]
          /\ seen = [q \in Queries |-> {}]
      BY <2>1 DEF Views!StartWith
    <2>3. catalog \in [Daemons -> CheckResults \union {"none"}]
      BY DEF Init, CheckResults
    <2> QED
      BY <2>2, <2>3, UnreadOK DEF ItemsTyped, SeenTyped
  <1>2. ItemsTyped /\ [Next]_vars => ItemsTyped'
    BY ItemsStepOK
  <1>3. SeenTyped /\ [Next]_vars => SeenTyped'
    BY SeenStepOK
  <1> QED
    BY <1>1, <1>2, <1>3, PTL DEF Spec

(* The node, the lists asked of it and what the store holds are what their *)
(* types say; in particular the fold over the checks of a node gives one   *)
(* of the four states, whatever the checks are.                            *)
THEOREM NodeTypeCorrect == Spec => []TypeOK
  <1>1. LocalInvariant /\ ViewsInv /\ ItemsTyped /\ SeenTyped => TypeOK
    <2> SUFFICES ASSUME LocalInvariant, ViewsInv, ItemsTyped, SeenTyped
                 PROVE  TypeOK
      OBVIOUS
    <2>1. Stages = Views!Pending \union {"unasked", "idle", "answered",
                                         "broken", "failed", "lost"}
      BY DEF Stages, Views!Pending
    <2>2. Views!ViewsTypeOK
      BY <2>1 DEF Views!ViewsTypeOK, ViewsInv, Shape, ItemsTyped, Item, Healths, SeenTyped
    <2> QED
      BY <2>2 DEF TypeOK, LocalInvariant, ViewsInv, Shape, ItemsTyped
  <1> QED
    BY <1>1, NodeKeepsPromises, ViewsHold, ItemsHold, PTL

(* The health that a list comes to show of a node is that of the worst of  *)
(* the checks the servers know at that moment, however many there are and  *)
(* in which order.                                                         *)
THEOREM HealthCorrect == Spec => HealthIsWorst
  <1> DEFINE Rightly ==
        \A q \in Queries, n \in {Self} :
          item'[q][n].health \notin {"none", item[q][n].health} =>
              LET worst == Views!Severity(item'[q][n].health)
                  levels == {Views!Severity(Checks[n][i]) : i \in DOMAIN Checks[n]}
              IN  /\ \A l \in levels : l <= worst
                  /\ worst \in levels \union {0}
  <1>1. ASSUME ItemsTyped, [Next]_vars
        PROVE  [Rightly]_Views!viewVars
    <2>1. ItemsMove
      BY <1>1, ItemsStepOK
    <2>2. PICK n \in Nat : DOMAIN Checks[Self] = 1..n
      BY <1>1, ChecksOK DEF ItemsTyped
    <2>3. ASSUME NEW q \in Queries, item'[q][Self].health \notin {"none", item[q][Self].health}
          PROVE  item'[q][Self].health = Views!Worst(Checks[Self])
      <3>1. Self \in Views!Names /\ Self \notin Daemons
        BY ListsAssumption DEF Views!Names
      <3> QED
        BY <2>1, <2>3, <3>1 DEF ItemsMove, HealthFrom
    <2> DEFINE w == Views!Worst(Checks[Self])
               levels == {Views!Severity(Checks[Self][i]) : i \in DOMAIN Checks[Self]}
    <2>4. /\ Views!Severity(w) \in levels \union {0}
          /\ \A l \in levels : l <= Views!Severity(w)
      BY <2>2, WorstOK
    <2> HIDE DEF w
    <2>5. Rightly
      BY <2>3, <2>4 DEF w
    <2> QED
      BY <2>5
  <1> QED
    BY <1>1, ItemsHold, PTL DEF Spec, HealthIsWorst, Views!HealthIsWorst

(***************************************************************************)
(* The status.                                                             *)
(***************************************************************************)
(* A tally of some keys, in which every state that the code knows counts.  *)
TallyOf(t, D, O) ==
    /\ Views!Counted \subseteq DOMAIN t.stats
    /\ Views!Tallies(t, D, O)

(* The tally of no keys.                                                   *)
LEMMA NoTallyOK == TallyOf(Views!NoTally, {}, {})
  <1>1. Cardinality({}) = 0
    BY FS_EmptySet
  <1>2. \A f : {e \in {} : e.flags = f} = {}
    OBVIOUS
  <1>3. /\ Views!NoTally.total = 0 /\ Views!NoTally.of = {}
        /\ Views!NoTally.stats = [f \in Views!Counted |-> 0]
    BY DEF Views!NoTally
  <1> QED
    BY <1>1, <1>2, <1>3, SameCount DEF TallyOf, Views!Tallies

(* One key more is counted once, for its flags and for no others.          *)
LEMMA CountOK ==
    ASSUME NEW t, NEW D, NEW O, TallyOf(t, D, O), IsFiniteSet(D),
           NEW e, e \notin D, NEW x
    PROVE  TallyOf(Views!Count(t, x, e.flags), D \union {e}, O \union {<<x, e.flags>>})
  <1> DEFINE f == e.flags
             v == IF f \in DOMAIN t.stats /\ t.stats[f] # Views!NotANumber
                  THEN t.stats[f] + 1 ELSE Views!NotANumber
             c == Views!Count(t, x, f)
             With(g) == {k \in D : k.flags = g}
             Then(g) == {k \in D \union {e} : k.flags = g}
  <1>1. /\ c.total = t.total + 1 /\ c.of = t.of \union {<<x, f>>}
        /\ c.stats = Views!With(t.stats, f, v)
    BY DEF Views!Count
  <1>2. /\ DOMAIN c.stats = DOMAIN t.stats \union {f}
        /\ c.stats[f] = v
        /\ \A g \in DOMAIN t.stats : g # f => c.stats[g] = t.stats[g]
    <2> HIDE DEF c, f, v
    <2> QED
      BY <1>1 DEF Views!With
  <1>3. /\ t.total = Cardinality(D) /\ t.of = O
        /\ \A g \in Views!Counted : t.stats[g] = Cardinality(With(g))
    BY SameCount DEF TallyOf, Views!Tallies
  <1>4. Cardinality(D \union {e}) = Cardinality(D) + 1
    BY FS_AddElement
  <1>5. ASSUME NEW g \in Views!Counted
        PROVE  c.stats[g] = Cardinality(Then(g))
    <2>1. IsFiniteSet(With(g)) /\ Cardinality(With(g)) \in Nat
      BY FS_Subset, FS_CardinalityType
    <2>2. t.stats[g] = Cardinality(With(g)) /\ g \in DOMAIN t.stats
      BY <1>3 DEF TallyOf
    <2>3. CASE g = f
      <3>1. v = Cardinality(With(g)) + 1
        BY <2>1, <2>2, <2>3 DEF Views!NotANumber
      <3>2. Then(g) = With(g) \union {e} /\ e \notin With(g)
        BY <2>3
      <3>3. Cardinality(Then(g)) = Cardinality(With(g)) + 1
        BY <2>1, <3>2, FS_AddElement
      <3> HIDE DEF c, v
      <3> QED
        BY <1>2, <2>3, <3>1, <3>3
    <2>4. CASE g # f
      <3>1. Then(g) = With(g)
        BY <2>4
      <3> HIDE DEF c
      <3> QED
        BY <1>2, <2>2, <2>4, <3>1
    <2> QED
      BY <2>3, <2>4
  <1>6. Views!Counted \subseteq DOMAIN c.stats
    BY <1>2 DEF TallyOf
  <1> HIDE DEF c
  <1>7. TallyOf(c, D \union {e}, O \union {<<x, f>>})
    BY <1>1, <1>3, <1>4, <1>5, <1>6, SameCount DEF TallyOf, Views!Tallies
  <1> QED
    BY <1>7 DEF c

(* The tally of a name, which may be new.                                  *)
LEMMA NamedOK ==
    ASSUME NEW b, NEW y
    PROVE  LET m == Views!Named(b, y)
           IN  /\ DOMAIN m = DOMAIN b \union {y}
               /\ m[y] = IF y \in DOMAIN b THEN b[y] ELSE Views!NoTally
               /\ \A z \in DOMAIN b \ {y} : m[z] = b[z]
  <1>1. CASE y \in DOMAIN b
    <2>1. Views!Named(b, y) = b
      BY <1>1 DEF Views!Named
    <2> QED
      BY <1>1, <2>1
  <1>2. CASE y \notin DOMAIN b
    <2>1. Views!Named(b, y) =
            [z \in DOMAIN b \union {y} |-> IF z = y THEN Views!NoTally ELSE b[z]]
      BY <1>2 DEF Views!Named, Views!With
    <2> QED
      BY <1>2, <2>1
  <1> QED
    BY <1>1, <1>2

(* The two books.                                                          *)
DaemonKeys(E) == {e \in E : e.item = "daemons"}
OfNode(E, n) == {e \in DaemonKeys(E) : Views!NodeName(e) = n}
OfDaemon(E, d) == {e \in DaemonKeys(E) : e.id = d}
NodesBook(b, E) ==
    /\ DOMAIN b = {Views!NodeName(e) : e \in E}
    /\ \A n \in DOMAIN b :
          TallyOf(b[n], OfNode(E, n), {<<e.id, e.flags>> : e \in OfNode(E, n)})
DaemonsBook(b, E) ==
    /\ DOMAIN b = {e.id : e \in DaemonKeys(E)}
    /\ \A d \in DOMAIN b :
          TallyOf(b[d], OfDaemon(E, d), {<<e.node, e.flags>> : e \in OfDaemon(E, d)})

(* A key of a daemon is booked on its node.                                *)
LEMMA NodesBookCounts ==
    ASSUME NEW b, NEW E, NodesBook(b, E), IsFiniteSet(E), NEW e, e \notin E,
           e.item = "daemons"
    PROVE  LET n == Views!NodeName(e)
           IN  NodesBook([Views!Named(b, n) EXCEPT ![n] = Views!Count(@, e.id, e.flags)],
                         E \union {e})
  <1> DEFINE n == Views!NodeName(e)
             m == Views!Named(b, n)
             c == Views!Count(m[n], e.id, e.flags)
             u == [m EXCEPT ![n] = c]
             F == E \union {e}
             Old == OfNode(E, n)
  <1>1. /\ DOMAIN u = DOMAIN b \union {n} /\ u[n] = c
        /\ m[n] = IF n \in DOMAIN b THEN b[n] ELSE Views!NoTally
        /\ \A z \in DOMAIN b \ {n} : u[z] = b[z]
    <2>1. /\ DOMAIN m = DOMAIN b \union {n}
          /\ m[n] = IF n \in DOMAIN b THEN b[n] ELSE Views!NoTally
          /\ \A z \in DOMAIN b \ {n} : m[z] = b[z]
      BY NamedOK
    <2> HIDE DEF n, c, m
    <2> QED
      BY <2>1
  <1>2. DOMAIN u = {Views!NodeName(k) : k \in F}
    <2> HIDE DEF u
    <2> QED
      BY <1>1 DEF NodesBook
  <1>3. TallyOf(m[n], Old, {<<k.id, k.flags>> : k \in Old})
    <2>1. CASE n \in DOMAIN b
      BY <1>1, <2>1 DEF NodesBook
    <2>2. CASE n \notin DOMAIN b
      <3>1. Old = {}
        BY <2>2 DEF NodesBook, OfNode, DaemonKeys
      <3>2. {<<k.id, k.flags>> : k \in Old} = {}
        BY <3>1
      <3> QED
        BY <1>1, <2>2, <3>1, <3>2, NoTallyOK
    <2> QED
      BY <2>1, <2>2
  <1>4. IsFiniteSet(Old) /\ e \notin Old
    <2>1. Old \subseteq E
      BY DEF OfNode, DaemonKeys
    <2> QED
      BY <2>1, FS_Subset
  <1>5. /\ OfNode(F, n) = Old \union {e}
        /\ \A z : z # n => OfNode(F, z) = OfNode(E, z)
    BY DEF OfNode, DaemonKeys
  <1>6. {<<k.id, k.flags>> : k \in OfNode(F, n)}
          = {<<k.id, k.flags>> : k \in Old} \union {<<e.id, e.flags>>}
    BY <1>5
  <1>7. TallyOf(c, OfNode(F, n), {<<k.id, k.flags>> : k \in OfNode(F, n)})
    <2> DEFINE O == {<<k.id, k.flags>> : k \in Old}
    <2> HIDE DEF m, Old, O, n
    <2>1. TallyOf(c, Old \union {e}, O \union {<<e.id, e.flags>>})
      BY <1>3, <1>4, CountOK DEF O
    <2> HIDE DEF c, F
    <2> QED
      BY <1>5, <1>6, <2>1 DEF O
  <1> HIDE DEF m, Old
  <1> HIDE DEF u, c, F
  <1>8. ASSUME NEW z \in DOMAIN u
        PROVE  TallyOf(u[z], OfNode(F, z), {<<k.id, k.flags>> : k \in OfNode(F, z)})
    <2>1. CASE z = n
      BY <1>1, <1>7, <2>1
    <2>2. CASE z # n
      <3>1. z \in DOMAIN b /\ u[z] = b[z]
        BY <1>1, <2>2
      <3> QED
        BY <1>5, <2>2, <3>1 DEF NodesBook
    <2> QED
      BY <2>1, <2>2
  <1>9. NodesBook(u, F)
    BY <1>2, <1>8 DEF NodesBook
  <1> QED
    BY <1>9 DEF u, F, c, m

(* Any other key only names a node.                                        *)
LEMMA NodesBookNames ==
    ASSUME NEW b, NEW E, NodesBook(b, E), NEW e, e.item # "daemons"
    PROVE  NodesBook(Views!Named(b, Views!NodeName(e)), E \union {e})
  <1> DEFINE n == Views!NodeName(e)
             m == Views!Named(b, n)
             F == E \union {e}
  <1>1. /\ DOMAIN m = DOMAIN b \union {n}
        /\ m[n] = IF n \in DOMAIN b THEN b[n] ELSE Views!NoTally
        /\ \A z \in DOMAIN b \ {n} : m[z] = b[z]
    BY NamedOK
  <1>2. \A z : OfNode(F, z) = OfNode(E, z)
    BY DEF OfNode, DaemonKeys
  <1> HIDE DEF m
  <1>3. DOMAIN m = {Views!NodeName(k) : k \in F}
    BY <1>1 DEF NodesBook
  <1>4. ASSUME NEW z \in DOMAIN m
        PROVE  TallyOf(m[z], OfNode(F, z), {<<k.id, k.flags>> : k \in OfNode(F, z)})
    <2>1. CASE z \in DOMAIN b
      <3>1. m[z] = b[z]
        BY <1>1, <2>1
      <3> QED
        BY <1>2, <2>1, <3>1 DEF NodesBook
    <2>2. CASE z \notin DOMAIN b
      <3>1. OfNode(F, z) = {}
        BY <1>2, <2>2 DEF NodesBook, OfNode, DaemonKeys
      <3>2. {<<k.id, k.flags>> : k \in OfNode(F, z)} = {}
        BY <3>1
      <3>3. m[z] = Views!NoTally
        BY <1>1, <2>2
      <3> QED
        BY <3>1, <3>2, <3>3, NoTallyOK
    <2> QED
      BY <2>1, <2>2
  <1> HIDE DEF F
  <1>5. NodesBook(m, F)
    BY <1>3, <1>4 DEF NodesBook
  <1> QED
    BY <1>5 DEF m, F

(* A key of a daemon is booked on its daemon.                              *)
LEMMA DaemonsBookCounts ==
    ASSUME NEW b, NEW E, DaemonsBook(b, E), IsFiniteSet(E), NEW e, e \notin E,
           e.item = "daemons"
    PROVE  DaemonsBook([Views!Named(b, e.id) EXCEPT ![e.id] =
                           Views!Count(@, e.node, e.flags)], E \union {e})
  <1> DEFINE d == e.id
             m == Views!Named(b, d)
             c == Views!Count(m[d], e.node, e.flags)
             u == [m EXCEPT ![d] = c]
             F == E \union {e}
             Old == OfDaemon(E, d)
  <1>1. /\ DOMAIN u = DOMAIN b \union {d} /\ u[d] = c
        /\ m[d] = IF d \in DOMAIN b THEN b[d] ELSE Views!NoTally
        /\ \A z \in DOMAIN b \ {d} : u[z] = b[z]
    <2>1. /\ DOMAIN m = DOMAIN b \union {d}
          /\ m[d] = IF d \in DOMAIN b THEN b[d] ELSE Views!NoTally
          /\ \A z \in DOMAIN b \ {d} : m[z] = b[z]
      BY NamedOK
    <2> HIDE DEF d, c, m
    <2> QED
      BY <2>1
  <1>2. DOMAIN u = {k.id : k \in DaemonKeys(F)}
    <2>1. DaemonKeys(F) = DaemonKeys(E) \union {e}
      BY DEF DaemonKeys
    <2> HIDE DEF u
    <2> QED
      BY <1>1, <2>1 DEF DaemonsBook
  <1>3. TallyOf(m[d], Old, {<<k.node, k.flags>> : k \in Old})
    <2>1. CASE d \in DOMAIN b
      BY <1>1, <2>1 DEF DaemonsBook
    <2>2. CASE d \notin DOMAIN b
      <3>1. Old = {}
        BY <2>2 DEF DaemonsBook, OfDaemon
      <3>2. {<<k.node, k.flags>> : k \in Old} = {}
        BY <3>1
      <3> QED
        BY <1>1, <2>2, <3>1, <3>2, NoTallyOK
    <2> QED
      BY <2>1, <2>2
  <1>4. IsFiniteSet(Old) /\ e \notin Old
    <2>1. Old \subseteq E
      BY DEF OfDaemon, DaemonKeys
    <2> QED
      BY <2>1, FS_Subset
  <1>5. /\ OfDaemon(F, d) = Old \union {e}
        /\ \A z : z # d => OfDaemon(F, z) = OfDaemon(E, z)
    BY DEF OfDaemon, DaemonKeys
  <1>6. {<<k.node, k.flags>> : k \in OfDaemon(F, d)}
          = {<<k.node, k.flags>> : k \in Old} \union {<<e.node, e.flags>>}
    BY <1>5
  <1>7. TallyOf(c, OfDaemon(F, d), {<<k.node, k.flags>> : k \in OfDaemon(F, d)})
    <2> DEFINE O == {<<k.node, k.flags>> : k \in Old}
    <2> HIDE DEF m, Old, O, d
    <2>1. TallyOf(c, Old \union {e}, O \union {<<e.node, e.flags>>})
      BY <1>3, <1>4, CountOK DEF O
    <2> HIDE DEF c, F
    <2> QED
      BY <1>5, <1>6, <2>1 DEF O
  <1> HIDE DEF u, c, F, m, Old
  <1>8. ASSUME NEW z \in DOMAIN u
        PROVE  TallyOf(u[z], OfDaemon(F, z), {<<k.node, k.flags>> : k \in OfDaemon(F, z)})
    <2>1. CASE z = d
      BY <1>1, <1>7, <2>1
    <2>2. CASE z # d
      <3>1. z \in DOMAIN b /\ u[z] = b[z]
        BY <1>1, <2>2
      <3> QED
        BY <1>5, <2>2, <3>1 DEF DaemonsBook
    <2> QED
      BY <2>1, <2>2
  <1>9. DaemonsBook(u, F)
    BY <1>2, <1>8 DEF DaemonsBook
  <1> QED
    BY <1>9 DEF u, F, c, m

(* The status with the two books of some keys.                             *)
StatusBooks(r, E) ==
    /\ DOMAIN r = {"nodes", "daemons"}
    /\ NodesBook(r.nodes, E) /\ DaemonsBook(r.daemons, E)

(* One key more is in both books.                                          *)
LEMMA AddEntryOK ==
    ASSUME NEW r, NEW E, StatusBooks(r, E), IsFiniteSet(E), NEW e, e \notin E
    PROVE  StatusBooks(Views!AddEntry(r, e), E \union {e})
  <1> DEFINE n == Views!NodeName(e)
             ns == Views!Named(r.nodes, n)
             ds == Views!Named(r.daemons, e.id)
             F == E \union {e}
  <1>1. NodesBook(r.nodes, E) /\ DaemonsBook(r.daemons, E)
    BY DEF StatusBooks
  <1>2. CASE e.item = "daemons"
    <2> DEFINE nu == [ns EXCEPT ![n] = Views!Count(@, e.id, e.flags)]
               du == [ds EXCEPT ![e.id] = Views!Count(@, e.node, e.flags)]
    <2>1. NodesBook(nu, F)
      BY <1>1, <1>2, NodesBookCounts
    <2>2. DaemonsBook(du, F)
      BY <1>1, <1>2, DaemonsBookCounts
    <2>3. Views!AddEntry(r, e) = [nodes |-> nu, daemons |-> du]
      BY <1>2 DEF Views!AddEntry
    <2> HIDE DEF nu, du, F
    <2> QED
      BY <2>1, <2>2, <2>3 DEF StatusBooks, F
  <1>3. CASE e.item # "daemons"
    <2>1. NodesBook(ns, F)
      BY <1>1, <1>3, NodesBookNames
    <2>2. DaemonsBook(r.daemons, F)
      <3>1. DaemonKeys(F) = DaemonKeys(E)
        BY <1>3 DEF DaemonKeys
      <3>2. \A d : OfDaemon(F, d) = OfDaemon(E, d)
        BY <3>1 DEF OfDaemon
      <3> QED
        BY <1>1, <3>1, <3>2 DEF DaemonsBook
    <2>3. Views!AddEntry(r, e) = [r EXCEPT !.nodes = ns]
      BY <1>3 DEF Views!AddEntry
    <2> HIDE DEF ns, F
    <2> QED
      BY <2>1, <2>2, <2>3 DEF StatusBooks, F
  <1> QED
    BY <1>2, <1>3

(* The fold over the first keys, as a function of their set.               *)
NoStatus == [nodes |-> <<>>, daemons |-> <<>>]
StatusFold(h, cs, m) ==
    h = [s \in SUBSET (1..m) |->
            IF s = {} THEN NoStatus ELSE Views!AddEntry(h[s \ {Max(s)}], cs[Max(s)])]

(* There is such a function.                                               *)
LEMMA StatusFoldExists ==
    ASSUME NEW cs, NEW n \in Nat
    PROVE  \E h : StatusFold(h, cs, n)
  <1> DEFINE P == {m \in Nat : \E h : StatusFold(h, cs, m)}
  <1>1. 0 \in P
    <2> DEFINE h == [s \in SUBSET (1..0) |-> NoStatus]
    <2>1. \A s \in SUBSET (1..0) : s = {}
      <3>1. 1..0 = {}
        OBVIOUS
      <3> QED
        BY <3>1
    <2>2. h = [s \in SUBSET (1..0) |->
            IF s = {} THEN NoStatus ELSE Views!AddEntry(h[s \ {Max(s)}], cs[Max(s)])]
      BY <2>1
    <2>3. StatusFold(h, cs, 0)
      BY <2>2, Zenon DEF StatusFold
    <2> QED
      BY <2>3
  <1>2. ASSUME NEW m \in P
        PROVE  m + 1 \in P
    <2>1. PICK g : StatusFold(g, cs, m)
      OBVIOUS
    <2> DEFINE h == [s \in SUBSET (1..(m + 1)) |->
                       IF s \subseteq 1..m THEN g[s]
                       ELSE Views!AddEntry(g[s \ {Max(s)}], cs[Max(s)])]
    <2>2. ASSUME NEW s \in SUBSET (1..(m + 1)), s # {}
          PROVE  h[s] = Views!AddEntry(h[s \ {Max(s)}], cs[Max(s)])
      <3> DEFINE top == Max(s)
                 rest == s \ {top}
      <3>1. rest \in SUBSET (1..m) /\ rest \in SUBSET (1..(m + 1))
        BY <2>2, RestOK
      <3>2. h[rest] = g[rest]
        BY <3>1
      <3>3. CASE s \subseteq 1..m
        <4>1. g[s] = Views!AddEntry(g[rest], cs[top])
          BY <2>1, <2>2, <3>3 DEF StatusFold
        <4>2. h[s] = g[s]
          BY <3>3
        <4> QED
          BY <3>2, <4>1, <4>2, Zenon
      <3>4. CASE ~(s \subseteq 1..m)
        <4>1. h[s] = Views!AddEntry(g[rest], cs[top])
          BY <3>4
        <4> QED
          BY <3>2, <4>1, Zenon
      <3> QED
        BY <3>3, <3>4
    <2>3. h[{}] = NoStatus
      <3>1. g[{}] = NoStatus
        BY <2>1 DEF StatusFold
      <3> QED
        BY <3>1
    <2>4. h = [s \in SUBSET (1..(m + 1)) |-> h[s]]
      OBVIOUS
    <2>5. h = [s \in SUBSET (1..(m + 1)) |->
                 IF s = {} THEN NoStatus ELSE Views!AddEntry(h[s \ {Max(s)}], cs[Max(s)])]
      <3> HIDE DEF h
      <3> QED
        BY <2>2, <2>3, <2>4
    <2>6. StatusFold(h, cs, m + 1)
      BY <2>5, Zenon DEF StatusFold
    <2>7. m + 1 \in Nat
      OBVIOUS
    <2> QED
      BY <2>6, <2>7
  <1>3. P \in SUBSET Nat
    OBVIOUS
  <1>4. P = Nat
    <2> HIDE DEF P
    <2> QED
      BY <1>1, <1>2, <1>3, NatSteps
  <1> QED
    BY <1>4

(* The status is the fold over all the keys, one by one.                   *)
LEMMA StatusIsFold ==
    ASSUME NEW E, IsFiniteSet(E)
    PROVE  LET n == Cardinality(E)
           IN  \E h : StatusFold(h, SetToSeq(E), n) /\ Views!StatusOf(E) = h[1..n]
  <1> DEFINE n == Cardinality(E)
             cs == SetToSeq(E)
             g == CHOOSE h : StatusFold(h, cs, n)
  <1>1. /\ n \in Nat /\ DOMAIN cs = 1..n
        /\ Views!SetToSeq(E) = cs
    BY EnumerationOK
  <1> HIDE DEF n, cs
  <1>2. StatusFold(g, cs, n)
    BY <1>1, StatusFoldExists
  <1>3. g = CHOOSE h : h = [s \in SUBSET DOMAIN cs |->
              IF s = {} THEN [nodes |-> <<>>, daemons |-> <<>>]
              ELSE Views!AddEntry(h[s \ {Views!Max(s)}], cs[Views!Max(s)])]
    BY <1>1 DEF StatusFold, NoStatus, Max, Views!Max
  <1>4. Views!StatusOf(E) = g[DOMAIN cs]
    BY <1>1, <1>3 DEF Views!StatusOf, Views!FoldLeft, Views!MapThenFoldSet
  <1> QED
    BY <1>1, <1>2, <1>4 DEF n, cs

(* The status of no keys.                                                  *)
LEMMA NoStatusOK == StatusBooks(NoStatus, {})
  <1>1. DOMAIN <<>> = {}
    <2>1. 1..0 = {}
      OBVIOUS
    <2> QED
      BY <2>1
  <1> QED
    BY <1>1 DEF NoStatus, StatusBooks, NodesBook, DaemonsBook, DaemonKeys

(* The two books are those of all the keys.                                *)
LEMMA StatusOK ==
    ASSUME NEW E, IsFiniteSet(E)
    PROVE  StatusBooks(Views!StatusOf(E), E)
  <1> DEFINE n == Cardinality(E)
             cs == SetToSeq(E)
             Read(s) == {cs[i] : i \in s}
  <1>1. /\ n \in Nat /\ cs \in [1..n -> E]
        /\ \A i, j \in 1..n : cs[i] = cs[j] => i = j
        /\ \A e \in E : \E i \in 1..n : cs[i] = e
    BY EnumerationOK
  <1>2. PICK h : StatusFold(h, cs, n) /\ Views!StatusOf(E) = h[1..n]
    BY StatusIsFold
  <1> HIDE DEF n, cs
  <1> DEFINE P == {s \in SUBSET (1..n) : StatusBooks(h[s], Read(s))}
  <1>3. {} \in P
    <2>1. h[{}] = NoStatus /\ Read({}) = {}
      BY <1>2 DEF StatusFold
    <2> QED
      BY <2>1, NoStatusOK
  <1>4. ASSUME NEW s \in SUBSET (1..n), s # {}, s \ {Max(s)} \in P
        PROVE  s \in P
    <2> DEFINE top == Max(s)
               rest == s \ {top}
    <2>1. top \in s
      BY <1>1, <1>4, MaxOK
    <2>2. h[s] = Views!AddEntry(h[rest], cs[top])
      BY <1>2, <1>4 DEF StatusFold
    <2>3. StatusBooks(h[rest], Read(rest))
      BY <1>4
    <2> HIDE DEF top
    <2>4. Read(s) = Read(rest) \union {cs[top]} /\ cs[top] \notin Read(rest)
      BY <1>1, <2>1
    <2>5. IsFiniteSet(Read(rest))
      <3>1. Read(rest) \subseteq E
        BY <1>1
      <3> QED
        BY <3>1, FS_Subset
    <2> HIDE DEF Read, rest
    <2>6. StatusBooks(h[s], Read(s))
      BY <2>2, <2>3, <2>4, <2>5, AddEntryOK
    <2> QED
      BY <2>6
  <1>5. P = SUBSET (1..n)
    <2>1. P \in SUBSET (SUBSET (1..n))
      OBVIOUS
    <2> HIDE DEF P
    <2> QED
      BY <1>1, <1>3, <1>4, <2>1, SetSteps
  <1>6. StatusBooks(h[1..n], Read(1..n))
    <2>1. 1..n \in P
      BY <1>5
    <2> QED
      BY <2>1
  <1>7. Read(1..n) = E
    BY <1>1
  <1> QED
    BY <1>2, <1>6, <1>7

(* The status that is answered is right about the keys that were read:     *)
(* which nodes and daemons there are, and how many daemons each has in     *)
(* total and in each state that the code knows, for any content of the     *)
(* store and in whatever order its keys come.                              *)
THEOREM StatusCorrect == Spec => []StatusAddsUp
  <1>1. ASSUME NEW E, IsFiniteSet(E)
        PROVE  Views!Books(Views!StatusOf(E), E)
    <2> DEFINE r == Views!StatusOf(E)
    <2>1. StatusBooks(r, E)
      BY <1>1, StatusOK
    <2> HIDE DEF r
    <2>2. Views!Books(r, E)
      <3>1. DaemonKeys(E) = {e \in E : e.item = "daemons"}
        BY DEF DaemonKeys
      <3> QED
        BY <2>1, <3>1 DEF StatusBooks, NodesBook, DaemonsBook, OfNode, OfDaemon,
             TallyOf, Views!Books
    <2> QED
      BY <2>2 DEF r
  <1>2. SeenTyped => StatusAddsUp
    <2> SUFFICES ASSUME SeenTyped, NEW q \in Queries
                 PROVE  Views!Books(Views!StatusOf(seen[q]), seen[q])
      BY DEF StatusAddsUp, Views!StatusAddsUp
    <2>1. IsFiniteSet(seen[q])
      BY FS_EmptySet, ListsAssumption DEF SeenTyped
    <2> QED
      BY <1>1, <2>1
  <1> QED
    BY <1>2, ItemsHold, PTL
=============================================================================
