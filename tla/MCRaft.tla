------------------------------- MODULE MCRaft -------------------------------
(***************************************************************************)
(* Constants for the model-checking runs of RaftProperties.                *)
(***************************************************************************)
EXTENDS RaftProperties

\* Initial members: all nodes know each other; every node is a cluster of its own; nodes 1
\* and 2 are a cluster.
AllInitial == [n \in Server |-> Server]
SoloClusters == [n \in Server |-> {n}]
PairInitial == [n \in Server |-> IF n \in {1, 2} THEN {1, 2} ELSE {}]

\* Memory outside the log array, taken to be zeroed.
ZeroMemory == ZeroEntry

\* Election timers: 1 in term 0 and 2 in term 1; 1 in term 0 only; 1 in terms 0 and 1
\* against the others in term 0; every node in term 0.
OneThenTwo == [n \in Server |-> IF n \in {1, 2} THEN {n - 1} ELSE {}]
OneElection == [n \in Server |-> IF n = 1 THEN {0} ELSE {}]
Contested == [n \in Server |-> IF n = 1 THEN {0, 1} ELSE {0}]
OwnElections == [n \in Server |-> {0}]

App(v) == [op |-> "app", value |-> v, members |-> {}]
SetMaxlog(v) == [op |-> "set_maxlog", value |-> v, members |-> {}]
OneCommand == {App(1)}
MaxlogCommand == {App(1), SetMaxlog(1)}
=============================================================================
