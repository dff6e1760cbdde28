-------------------------- MODULE MCAppDeployment --------------------------
(* Instances of AppDeployment for TLC.                                     *)
EXTENDS AppDeployment

OneNode == {"n1"}
OneMaster == {"m1"}
Daemons == {"daemons"}

(* Two flags may be on their way until something happens that the request *)
(* at the start is not; or one all the time.                               *)
TwoThenOne == [e \in 0..MaxEvents |-> IF e <= 1 THEN 2 ELSE 1]
OneFlag == [e \in 0..MaxEvents |-> 1]

(* The empty expression selects all nodes.                                 *)
EveryNode == [N \in SUBSET Nodes |-> N]

(* The reactors of the nodes as they are: the creation of a daemon is      *)
(* always OK, removals throw.                                              *)
NodeAnswers ==
    [i \in Items |-> [o \in Served |->
        IF o = "remove" THEN {}
        ELSE IF i = "resources" /\ o = "create" THEN {"OK", "FAILED"} ELSE {"OK"}]]

(* Reactors that handle everything, removals too.                          *)
AllAnswer == [i \in Items |-> [o \in Served |-> {"OK"}]]

=============================================================================
