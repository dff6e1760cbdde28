------------------------ MODULE NodeExpressionProofs ------------------------
(***************************************************************************)
(* Proofs about NodeExpression, for every set of nodes and parts, and for  *)
(* lists and expressions of every length.                                  *)
(***************************************************************************)
EXTENDS NodeExpression, TLAPS

USE PartsAssumption, BoundsAssumption

(* In the loop the rejected element is the first of its kind: an equal one *)
(* before it would have been rejected and cut off already.                 *)
LEMMA IndexOfRejected ==
    ASSUME LoopInvariant, pc = "visit", i <= Len(nodes),
           ~Accepts(parts[part], nodes[i])
    PROVE  IndexOf(nodes, nodes[i]) = i
  <1>1. i \in 1..Len(nodes)
    BY DEF LoopInvariant, TypeOK
  <1>2. \A j \in 1..(i - 1) : nodes[j] # nodes[i]
    BY <1>1 DEF LoopInvariant, AcceptedSoFar, TypeOK
  <1>3. \A j \in 1..Len(nodes) :
          nodes[j] = nodes[i] /\ (\A k \in 1..(j - 1) : nodes[k] # nodes[i]) <=> j = i
    BY <1>1, <1>2 DEF TypeOK, LoopInvariant
  <1> QED
    BY <1>1, <1>3 DEF IndexOf

(* Visiting an element keeps the loop invariant.                           *)
LEMMA VisitStep ==
    ASSUME LoopInvariant, Visit
    PROVE  LoopInvariant'
  <1>0. /\ i \in Nat \ {0} /\ len \in Nat /\ part \in 1..Len(parts)
        /\ nodes \in Seq(Nodes) /\ listed \in Seq(Nodes) /\ parts \in Seq(Parts)
        /\ Len(nodes) <= len
    BY DEF LoopInvariant, TypeOK, Visit
  <1>1. CASE i <= Len(nodes) /\ ~Accepts(parts[part], nodes[i])
    <2>1. nodes' = SubSeq(nodes, 1, i - 1)
      BY <1>1, IndexOfRejected DEF Visit, Splice
    <2>2. /\ nodes' \in Seq(Nodes) /\ Len(nodes') = i - 1
          /\ \A j \in 1..(i - 1) : nodes'[j] = nodes[j]
      BY <1>0, <1>1, <2>1
    <2>3. nodes[i] = listed[i] /\ Len(nodes) <= Len(listed)
      BY <1>0, <1>1 DEF LoopInvariant
    <2>4. CutRejected'
      BY <1>0, <1>1, <2>2, <2>3 DEF CutRejected, Visit
    <2>5. ASSUME NEW j \in 1..Len(nodes')
          PROVE  nodes'[j] = listed'[j] /\ AcceptedSoFar(j)'
      <3>1. j \in 1..Len(nodes) /\ j < i /\ nodes'[j] = nodes[j]
        BY <1>0, <1>1, <2>2
      <3>2. nodes[j] = listed[j] /\ AcceptedSoFar(j)
        BY <3>1 DEF LoopInvariant
      <3>3. pc = "visit" /\ UNCHANGED <<listed, parts, part>>
        BY DEF Visit
      <3> QED
        BY <3>1, <3>2, <3>3 DEF AcceptedSoFar
    <2> QED
      BY <1>0, <1>1, <2>2, <2>3, <2>4, <2>5 DEF LoopInvariant, TypeOK, Visit
  <1>2. CASE ~(i <= Len(nodes) /\ ~Accepts(parts[part], nodes[i]))
    <2>1. nodes' = nodes
      BY <1>2 DEF Visit
    <2>2. ASSUME NEW j \in 1..Len(nodes')
          PROVE  nodes'[j] = listed'[j] /\ AcceptedSoFar(j)'
      <3>1. nodes[j] = listed[j] /\ AcceptedSoFar(j)
        BY <2>1 DEF LoopInvariant
      <3>2. pc = "visit" /\ i' = i + 1 /\ UNCHANGED <<listed, parts, part>>
        BY DEF Visit
      <3>3. j = i => Accepts(parts[part], nodes[j])
        BY <1>0, <1>2, <2>1
      <3> QED
        BY <1>0, <2>1, <3>1, <3>2, <3>3 DEF AcceptedSoFar
    <2> QED
      BY <1>0, <2>1, <2>2 DEF LoopInvariant, TypeOK, CutRejected, Visit
  <1> QED
    BY <1>1, <1>2

(* The end of forEach: it has gone through the whole array, whatever was   *)
(* spliced meanwhile, so that the filter accepts what is left.             *)
LEMMA EndFilterStep ==
    ASSUME LoopInvariant, EndFilter
    PROVE  LoopInvariant'
  <1>0. /\ i \in Nat \ {0} /\ len \in Nat /\ part \in 1..Len(parts)
        /\ Len(nodes) <= len /\ i > len /\ Len(nodes) \in Nat
    BY DEF LoopInvariant, TypeOK, EndFilter
  <1>1. \A j \in 1..Len(nodes) : nodes'[j] = listed'[j] /\ AcceptedSoFar(j)'
    BY <1>0 DEF LoopInvariant, AcceptedSoFar, EndFilter
  <1> QED
    BY <1>0, <1>1 DEF LoopInvariant, TypeOK, CutRejected, EndFilter

(* The step to the next filter keeps the invariant of the loop.            *)
LEMMA ApplyFilterStep ==
    ASSUME LoopInvariant, ApplyFilter
    PROVE  LoopInvariant'
  <1>0. part \in 1..Len(parts) /\ Len(nodes) \in Nat /\ Len(parts) \in Nat
    BY DEF LoopInvariant, TypeOK, ApplyFilter
  <1>1. CASE parts[part].kind = "all"
    <2>1. \A n : Accepts(parts[part], n)
      BY <1>1 DEF Accepts
    <2>2. \A j \in 1..Len(nodes) : nodes'[j] = listed'[j] /\ AcceptedSoFar(j)'
      BY <1>0, <1>1, <2>1 DEF LoopInvariant, AcceptedSoFar, ApplyFilter
    <2> QED
      BY <1>0, <1>1, <2>2 DEF LoopInvariant, TypeOK, CutRejected, ApplyFilter
  <1>2. CASE parts[part].kind # "all"
    <2>1. \A j \in 1..Len(nodes) : nodes'[j] = listed'[j] /\ AcceptedSoFar(j)'
      BY <1>0, <1>2 DEF LoopInvariant, AcceptedSoFar, ApplyFilter
    <2> QED
      BY <1>0, <1>2, <2>1 DEF LoopInvariant, TypeOK, CutRejected, ApplyFilter
  <1> QED
    BY <1>1, <1>2

(* The array is a prefix of the list all along, and what has been cut off  *)
(* begins with a rejected node.                                            *)
THEOREM LoopCorrect == Spec => []LoopInvariant
  <1>1. Init => LoopInvariant
    <2> SUFFICES ASSUME Init PROVE LoopInvariant
      OBVIOUS
    <2>1. listed \in Seq(Nodes) /\ parts \in Seq(Parts)
      BY DEF Init, Lists
    <2> QED
      BY <2>1 DEF Init, LoopInvariant, TypeOK, AcceptedSoFar, CutRejected
  <1>2. LoopInvariant /\ [Next]_vars => LoopInvariant'
    <2> SUFFICES ASSUME LoopInvariant, [Next]_vars
                 PROVE  LoopInvariant'
      OBVIOUS
    <2>1. CASE Return
      BY <2>1 DEF LoopInvariant, TypeOK, AcceptedSoFar, CutRejected, Return
    <2>2. CASE UNCHANGED vars
      BY <2>2 DEF LoopInvariant, TypeOK, AcceptedSoFar, CutRejected, vars
    <2> QED
      BY <2>1, <2>2, VisitStep, EndFilterStep, ApplyFilterStep DEF Next
  <1> QED
    BY <1>1, <1>2, PTL DEF Spec

(* The expression selects the longest prefix of the listed nodes that all  *)
(* its parts accept.                                                       *)
THEOREM LongestPrefix == Spec => []SelectsLongestPrefix
  <1>1. LoopInvariant => SelectsLongestPrefix
    <2> SUFFICES ASSUME LoopInvariant, pc = "done"
                 PROVE  SelectsLongestPrefix
      BY DEF SelectsLongestPrefix
    <2>1. part = Len(parts) + 1 /\ Len(parts) \in Nat
      BY DEF LoopInvariant, TypeOK
    <2> QED
      BY <2>1 DEF LoopInvariant, SelectsLongestPrefix, AcceptedSoFar, AcceptedByAll,
                  CutRejected
  <1> QED
    BY <1>1, LoopCorrect, PTL

=============================================================================
