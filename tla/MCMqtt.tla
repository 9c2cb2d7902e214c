------------------------------ MODULE MCMqtt -------------------------------
(***************************************************************************)
(* Constants for the model-checking runs of RaftMqttTransport.             *)
(***************************************************************************)
EXTENDS RaftMqttTransport

\* Ids of one length, "n1" and "n2".
EvenIds == [n \in Node |-> <<"n", IF n = 1 THEN "1" ELSE "2">>]
=============================================================================
