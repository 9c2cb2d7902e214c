---------------------------- MODULE RaftNetwork ----------------------------
(***************************************************************************)
(* What a raft_transport_t promises to the consensus engine: messages may  *)
(* be lost at any time, but what recv hands over was sent to this node, is *)
(* handed over once, and comes from each sender in the order it was sent.  *)
(* RaftCluster assumes less of its network; the TCP and MQTT transports    *)
(* are shown to implement this specification.                              *)
(*                                                                         *)
(* A message is known by its sender and its number among the messages its  *)
(* sender sent to this target.                                             *)
(***************************************************************************)
EXTENDS Naturals, Sequences

CONSTANT Node

VARIABLES
    sent,       \* sent[a][b]: how many messages a has sent to b
    received    \* received[b]: what recv has handed to b's engine so far

networkVars == <<sent, received>>

Envelope == [source : Node, number : Nat]

\* One sender's messages stand in the order of their numbers, none of them twice.
InOrder(s) ==
    \A i, j \in 1..Len(s) :
        i < j /\ s[i].source = s[j].source => s[i].number < s[j].number

WasSentTo(b, m) == m.number \in 1..sent[m.source][b]

Init ==
    /\ sent = [a \in Node |-> [b \in Node |-> 0]]
    /\ received = [b \in Node |-> << >>]

\* send: the message is under way or already lost.
Send(a, b) ==
    /\ sent' = [sent EXCEPT ![a][b] = @ + 1]
    /\ UNCHANGED received

\* recv: the engine gets all the messages of a batch in one call.
Receive(b, batch) ==
    /\ \A i \in 1..Len(batch) : batch[i] \in Envelope /\ WasSentTo(b, batch[i])
    /\ InOrder(received[b] \o batch)
    /\ received' = [received EXCEPT ![b] = @ \o batch]
    /\ UNCHANGED sent

\* The batch of a step that hands messages over is what it adds to received.
Next ==
    \/ \E a, b \in Node : Send(a, b)
    \/ \E b \in Node :
        /\ Len(received'[b]) > Len(received[b])
        /\ Receive(b, SubSeq(received'[b], Len(received[b]) + 1, Len(received'[b])))

Spec == Init /\ [][Next]_networkVars
=============================================================================
