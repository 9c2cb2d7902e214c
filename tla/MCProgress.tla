----------------------------- MODULE MCProgress -----------------------------
(***************************************************************************)
(* Constants for the model-checking run of RaftProgress.                   *)
(***************************************************************************)
EXTENDS RaftProgress

\* Node 1 is a cluster, node 2 a learner without configuration.
OneInitial == [n \in Server |-> IF n = 1 THEN {1} ELSE {}]

ZeroMemory == ZeroEntry

\* Node 1 campaigns in term 0, node 2 in term 1.
OneThenTwo == [n \in Server |-> {n - 1}]

OneCommand == {[op |-> "app", value |-> 1, members |-> {}]}
=============================================================================
