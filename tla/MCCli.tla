------------------------------- MODULE MCCli -------------------------------
(***************************************************************************)
(* Constants for the model-checking runs of RaftCli.  Join: nodes 1 and 2  *)
(* are a cluster that knows its addresses, node 3 is started with --join   *)
(* and either of them as its introducer.  Cli: node 1 is a cluster of its  *)
(* own, node 2 is started with --join, and lines are typed at both.        *)
(***************************************************************************)
EXTENDS RaftCli

Garbage == [ZeroEntry EXCEPT !.index = 99, !.term = 99]

Pair == [n \in Server |-> IF n \in {1, 2} THEN {1, 2} ELSE {}]
PairKnown == [n \in Server |-> IF n \in {1, 2} THEN {1, 2} \ {n} ELSE {}]
ThreeViaAny == [n \in Server |-> IF n = 3 THEN {1, 2} ELSE {}]
FirstTerm == [n \in Server |-> IF n = 1 THEN {0} ELSE {}]

Solo == [n \in Server |-> IF n = 1 THEN {1} ELSE {}]
NoPeers == [n \in Server |-> {}]
TwoViaOne == [n \in Server |-> IF n = 2 THEN {1} ELSE {}]

Nothing == [n \in Server |-> {}]
Typed ==
    [n \in Server |-> IF n = 1
        THEN {<<"stop", 1>>}
        ELSE {<<"set", 2>>, <<"leave", 2>>, <<"join", 1>>, <<"merge", 1>>}]
=============================================================================
