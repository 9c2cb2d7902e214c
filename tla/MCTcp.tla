------------------------------- MODULE MCTcp -------------------------------
(***************************************************************************)
(* Constants for the model-checking runs of RaftTcpTransport.              *)
(***************************************************************************)
EXTENDS RaftTcpTransport

\* Node 1 is given the address of node 2, which is given none.
OneKnowsTwo == [n \in Node |-> IF n = 1 THEN {2} ELSE {}]
=============================================================================
