---------------------------- MODULE MCMembership ----------------------------
(* Instances of Membership for TLC.                                        *)
EXTENDS Membership

OneNode == {"n1"}
TwoNodes == {"n1", "n2"}

=============================================================================
