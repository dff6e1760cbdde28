--------------------------- MODULE NodeExpression ---------------------------
(***************************************************************************)
(* The selection of nodes by an instances expression (expression/index.js).*)
(* An expression is a list of parts: all, a pattern a node id must match,  *)
(* or a pattern it must not match.  Each part filters the array of nodes   *)
(* in place: forEach visits the array while its callback splices it.       *)
(***************************************************************************)
EXTENDS Naturals, Sequences

CONSTANTS
    Nodes,       \* node ids
    Parts,       \* parts of expressions: [kind, matches]
    MaxNodes,    \* bound: length of the list of nodes
    MaxParts     \* bound: length of an expression

Kinds == {"all", "must", "not"}
ASSUME PartsAssumption ==
    \A p \in Parts : p.kind \in Kinds /\ p.matches \subseteq Nodes
ASSUME BoundsAssumption == MaxNodes \in Nat /\ MaxParts \in Nat

VARIABLES
    listed,      \* the nodes of the cluster, as consul lists them
    parts,       \* the parts of the expression
    nodes,       \* the array that the filters share
    part,        \* the filter that is applied
    i, len,      \* forEach: the next index, and the length it started with
    pc           \* "filter" between two filters, "visit" in forEach, "done"

vars == <<listed, parts, nodes, part, i, len, pc>>

Accepts(p, n) ==
    /\ p.kind = "must" => n \in p.matches
    /\ p.kind = "not" => n \notin p.matches

IndexOf(s, x) ==
    CHOOSE j \in 1..Len(s) : s[j] = x /\ \A k \in 1..(j - 1) : s[k] # x

(* splice with one argument removes everything from the index on.          *)
Splice(s, j) == SubSeq(s, 1, j - 1)

Lists(S, n) == UNION {[1..m -> S] : m \in 0..n}

Distinct(s) == \A j, k \in DOMAIN s : s[j] = s[k] => j = k

Init ==
    /\ listed \in Lists(Nodes, MaxNodes) /\ Distinct(listed)
    /\ parts \in Lists(Parts, MaxParts)
    /\ nodes = listed
    /\ part = 1
    /\ i = 1 /\ len = 0
    /\ pc = "filter"

(* Variant of ApplyFilter: forEach starts at the second element.           *)
ApplyFilterLate ==
    /\ pc = "filter"
    /\ part <= Len(parts)
    /\ IF parts[part].kind = "all"
       THEN part' = part + 1 /\ UNCHANGED <<i, len, pc>>
       ELSE i' = 2 /\ len' = Len(nodes) /\ pc' = "visit" /\ UNCHANGED part
    /\ UNCHANGED <<listed, parts, nodes>>

(* The filter all returns the array as it is; the others start a forEach.  *)
ApplyFilter ==
    /\ pc = "filter"
    /\ part <= Len(parts)
    /\ IF parts[part].kind = "all"
       THEN part' = part + 1 /\ UNCHANGED <<i, len, pc>>
       ELSE i' = 1 /\ len' = Len(nodes) /\ pc' = "visit" /\ UNCHANGED part
    /\ UNCHANGED <<listed, parts, nodes>>

(* Variant of Visit: only the rejected element is removed, as the filters  *)
(* mean to, and forEach misses the element that takes its place.           *)
VisitSkipping ==
    /\ pc = "visit"
    /\ i <= len
    /\ IF i <= Len(nodes) /\ ~Accepts(parts[part], nodes[i])
       THEN nodes' = SubSeq(nodes, 1, i - 1) \o SubSeq(nodes, i + 1, Len(nodes))
       ELSE UNCHANGED nodes
    /\ i' = i + 1
    /\ UNCHANGED <<listed, parts, part, len, pc>>

(* An index beyond the end of the spliced array is skipped by forEach.     *)
Visit ==
    /\ pc = "visit"
    /\ i <= len
    /\ IF i <= Len(nodes) /\ ~Accepts(parts[part], nodes[i])
       THEN nodes' = Splice(nodes, IndexOf(nodes, nodes[i]))
       ELSE UNCHANGED nodes
    /\ i' = i + 1
    /\ UNCHANGED <<listed, parts, part, len, pc>>

EndFilter ==
    /\ pc = "visit"
    /\ i > len
    /\ part' = part + 1
    /\ pc' = "filter"
    /\ UNCHANGED <<listed, parts, nodes, i, len>>

Return ==
    /\ pc = "filter"
    /\ part > Len(parts)
    /\ pc' = "done"
    /\ UNCHANGED <<listed, parts, nodes, part, i, len>>

Next == ApplyFilter \/ Visit \/ EndFilter \/ Return
Spec == Init /\ [][Next]_vars

-----------------------------------------------------------------------------
AcceptedByAll(n) == \A q \in 1..Len(parts) : Accepts(parts[q], n)

(* What is selected is exactly the longest prefix of the listed nodes that *)
(* the whole expression accepts: no node is selected that a part rejects,  *)
(* although each filter splices the array forEach is walking, and the      *)
(* first node that is rejected takes all the nodes after it along.         *)
SelectsLongestPrefix ==
    pc = "done" =>
        /\ Len(nodes) <= Len(listed)
        /\ \A j \in 1..Len(nodes) : nodes[j] = listed[j] /\ AcceptedByAll(listed[j])
        /\ Len(nodes) < Len(listed) => ~AcceptedByAll(listed[Len(nodes) + 1])

(* The loop invariant: the array is a prefix of the list, the filters that *)
(* have been applied and the visited part of the current one accept it,    *)
(* and what was cut off first is rejected by a filter applied so far.      *)
AcceptedSoFar(j) ==
    /\ \A q \in 1..(part - 1) : Accepts(parts[q], nodes[j])
    /\ pc = "visit" /\ j < i => Accepts(parts[part], nodes[j])
CutRejected ==
    Len(nodes) < Len(listed) =>
        \E q \in 1..Len(parts) : ~Accepts(parts[q], listed[Len(nodes) + 1])
(* The types of the list, the cursor and the parts of the expression.      *)
TypeOK ==
    /\ listed \in Seq(Nodes) /\ nodes \in Seq(Nodes) /\ parts \in Seq(Parts)
    /\ part \in 1..(Len(parts) + 1)
    /\ i \in Nat \ {0} /\ len \in Nat
    /\ pc \in {"filter", "visit", "done"}
LoopInvariant ==
    /\ TypeOK
    /\ pc = "visit" => part <= Len(parts) /\ Len(nodes) <= len
    /\ pc = "done" => part = Len(parts) + 1
    /\ Len(nodes) <= Len(listed)
    /\ \A j \in 1..Len(nodes) : nodes[j] = listed[j] /\ AcceptedSoFar(j)
    /\ CutRejected

=============================================================================
