-------------------------- MODULE MCNodeExpression --------------------------
(* Every expression of up to two parts over every list of three node ids.  *)
EXTENDS NodeExpression

MCNodes == {"n1", "n2", "n3"}
MCParts == [kind : {"all"}, matches : {MCNodes}]
           \union [kind : {"must", "not"}, matches : SUBSET MCNodes]

=============================================================================
