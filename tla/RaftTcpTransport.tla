-------------------------- MODULE RaftTcpTransport --------------------------
(***************************************************************************)
(* The TCP transport of processes that run one node each.                  *)
(*                                                                         *)
(* Every process has two threads.  The main thread runs the engine and the *)
(* command line and calls the transport; the listener thread accepts one   *)
(* connection at a time, reads its frame and stores it in a queue.  The    *)
(* lock is held only to copy to or from a queue, so that a critical        *)
(* section is one step; what is done outside it (the flags enabled and     *)
(* shutdown, the socket, the command queue, peers.txt) is a step of its    *)
(* own.                                                                    *)
(*                                                                         *)
(* Addresses are not told apart from the nodes they belong to.  A frame    *)
(* that is too short or has a wrong header is "BROKEN".  One whose sender  *)
(* is gone without having sent the rest or closed the connection (a host   *)
(* that died, a network that is cut) is "SILENT".                          *)
(***************************************************************************)
EXTENDS Naturals, Sequences, FiniteSets

CONSTANTS
    Node,
    RAFT_MAX_QUEUE, RAFT_MAX_NODES,
    LISTEN_BACKLOG,    \* connections the kernel completes ahead of accept
    KnownPeers,        \* the peers main registers from its arguments
    HasPort,           \* the processes with a port in their arguments
    Observed,          \* bound: the processes that are sent frames, stopped, crashed, taught peers
    MaxFrames,         \* bound: frames of the whole run
    MaxOperations      \* bound: calls of the operator or application, and crashes, of the whole run

ASSUME TcpAssumption ==
    /\ RAFT_MAX_QUEUE \in Nat \ {0} /\ RAFT_MAX_NODES \in Nat \ {0}
    /\ LISTEN_BACKLOG \in Nat \ {0}
    /\ KnownPeers \in [Node -> SUBSET Node] /\ Observed \subseteq Node
    /\ HasPort \subseteq Node
    /\ MaxFrames \in Nat /\ MaxOperations \in Nat

RAFT_MAX_PEERS == RAFT_MAX_NODES - 1

VARIABLES
    tcp,               \* raft_tcp_transport_t of each process
    listener,          \* where the listener thread is, and the frame it has read
    main,              \* where the main thread is in a call of several steps
    backlog,           \* connections completed by the kernel, each with its frame
    files,             \* peers.txt, and whether self.txt holds a port
    sent, received,    \* what the engines have sent and been handed
    budget             \* what the bounds have left

vars == <<tcp, listener, main, backlog, files, sent, received, budget>>

FrameType == {"RAFT", "JOIN", "CMD", "BROKEN", "SILENT"}
Frame == [type : FrameType, source : Node, number : Nat]
NoFrame == [type |-> "BROKEN", source |-> CHOOSE n \in Node : TRUE, number |-> 0]

\* raft_tcp_transport_init; started stands for listener_started, listening for an open
\* listen_fd.  running is that of the node, which decides what the main thread calls.
InitialTcp ==
    [running |-> TRUE, enabled |-> TRUE, shutdown |-> FALSE, listening |-> FALSE, started |-> FALSE,
     in_queue |-> << >>, join_queue |-> << >>, fwd_cmd_queue |-> << >>, cmd_queue |-> 0,
     peers |-> {}]

\* The listener thread keeps nothing from one turn of its loop to the next.
NoThread == [at |-> "off", frame |-> NoFrame]
TopOfLoop == [at |-> "loop", frame |-> NoFrame]
Idle == [at |-> "idle", rest |-> {}]

\* The peers setup is about to register: those set_data_dir reads from peers.txt, which it
\* has buffered before the first of them rewrites the file, and those of the arguments.
Setup(n, file) == [at |-> "setup", rest |-> file \cup KnownPeers[n]]

Init ==
    /\ tcp = [n \in Node |-> InitialTcp]
    /\ listener = [n \in Node |-> NoThread]
    /\ main = [n \in Node |-> Setup(n, {})]
    /\ backlog = [n \in Node |-> << >>]
    /\ files = [n \in Node |-> [peers |-> {}, self |-> FALSE]]
    /\ sent = [a \in Node |-> [b \in Node |-> 0]]
    /\ received = [n \in Node |-> << >>]
    /\ budget = [frames |-> MaxFrames, operations |-> MaxOperations]

IsIdle(n) == main[n].at = "idle"

Spend(what) ==
    /\ budget[what] > 0
    /\ budget' = [budget EXCEPT ![what] = @ - 1]

-----------------------------------------------------------------------------
(* Sending, by the main thread.                                            *)

\* A connection to n is completed; it stays in the backlog until accept takes it.
Connected(n) == tcp[n].listening /\ Len(backlog[n]) < LISTEN_BACKLOG

PartOfFrame(type) == [NoFrame EXCEPT !.type = type]

\* socket, connect and send_full fail at any point: nothing arrives, or a part of the frame.
Transmit(n, frame) ==
    \/ UNCHANGED backlog
    \/ /\ Connected(n)
       /\ \E f \in {frame, PartOfFrame("BROKEN"), PartOfFrame("SILENT")} :
            backlog' = [backlog EXCEPT ![n] = Append(@, f)]

\* By the dump of a running node.  A disabled transport, or one that does not know the
\* target, sends nothing.
tcp_send(a, b) ==
    /\ IsIdle(a) /\ a # b
    /\ tcp[a].running /\ tcp[a].enabled /\ b \in tcp[a].peers
    /\ Spend("frames")
    /\ sent' = [sent EXCEPT ![a][b] = @ + 1]
    /\ Transmit(b, [type |-> "RAFT", source |-> a, number |-> sent[a][b] + 1])
    /\ UNCHANGED <<tcp, listener, main, files, received>>

\* raft_tcp_transport_request_join, _send_cluster_join, _flood_join and _announce_self, to
\* any address, and raft_tcp_transport_forward_cmd.  They do not look at enabled.
SendOther(a, b, type) ==
    /\ IsIdle(a) /\ a # b
    /\ Spend("frames")
    /\ Transmit(b, [type |-> type, source |-> a, number |-> 0])
    /\ UNCHANGED <<tcp, listener, main, files, sent, received>>

tcp_send_join(a, b) == SendOther(a, b, "JOIN")
raft_tcp_transport_forward_cmd(a, b) == SendOther(a, b, "CMD")

-----------------------------------------------------------------------------
(* tcp_listener_thread.                                                    *)

At(n, where) == listener[n].at = where

\* The loop tests shutdown, and goes on to use the socket.
TestShutdown(n) ==
    /\ At(n, "loop")
    /\ listener' = [listener EXCEPT ![n].at = IF tcp[n].shutdown THEN "off" ELSE "select"]
    /\ UNCHANGED <<tcp, main, backlog, files, sent, received, budget>>

\* select has nothing to report for 100 ms, or it or accept fails as stop has closed the
\* socket since the test.
SelectFails(n) ==
    /\ At(n, "select") /\ backlog[n] = << >>
    /\ listener' = [listener EXCEPT ![n] = TopOfLoop]
    /\ UNCHANGED <<tcp, main, backlog, files, sent, received, budget>>

\* select and accept.
Accept(n) ==
    /\ At(n, "select") /\ backlog[n] # << >>
    /\ listener' = [listener EXCEPT ![n] = [at |-> "recv", frame |-> Head(backlog[n])]]
    /\ backlog' = [backlog EXCEPT ![n] = Tail(@)]
    /\ UNCHANGED <<tcp, main, files, sent, received, budget>>

\* recv_full waits in recv, which has no timeout, for a peer that is gone.
Hangs(n) == At(n, "recv") /\ listener[n].frame.type = "SILENT"

\* recv_full of header and payload; a frame with a bad header or a missing payload is closed.
Receive(n) ==
    /\ At(n, "recv") /\ ~Hangs(n)
    /\ listener' = [listener EXCEPT ![n] =
           CASE @.frame.type = "BROKEN" -> TopOfLoop
             [] @.frame.type = "RAFT" -> [@ EXCEPT !.at = "gate"]
             [] OTHER -> [@ EXCEPT !.at = "store"]]
    /\ UNCHANGED <<tcp, main, backlog, files, sent, received, budget>>

\* The peer's host, or the network, comes back and resets the connection, or never does.
ConnectionReset(n) ==
    /\ Hangs(n)
    /\ listener' = [listener EXCEPT ![n] = TopOfLoop]
    /\ UNCHANGED <<tcp, main, backlog, files, sent, received, budget>>

\* Mutant: the listener stores messages for a stopped node too.
GateOpen(n) ==
    /\ At(n, "gate")
    /\ listener' = [listener EXCEPT ![n].at = "store"]
    /\ UNCHANGED <<tcp, main, backlog, files, sent, received, budget>>

\* A Raft message is dropped if the transport is disabled, which the thread reads without
\* the lock.
Gate(n) ==
    /\ At(n, "gate")
    /\ listener' = [listener EXCEPT ![n] =
           IF tcp[n].enabled THEN [@ EXCEPT !.at = "store"] ELSE TopOfLoop]
    /\ UNCHANGED <<tcp, main, backlog, files, sent, received, budget>>

QueueOf(type) ==
    CASE type = "JOIN" -> "join_queue" [] type = "CMD" -> "fwd_cmd_queue"
      [] OTHER -> "in_queue"

Capacity(queue) == IF queue = "join_queue" THEN RAFT_MAX_NODES ELSE RAFT_MAX_QUEUE

HasRoom(n, queue) == Len(tcp[n][queue]) < Capacity(queue)

\* Under the lock; a full queue drops the frame.
Store(n) ==
    LET f == listener[n].frame
        q == QueueOf(f.type)
    IN  /\ At(n, "store")
        /\ tcp' = [tcp EXCEPT ![n][q] = IF HasRoom(n, q) THEN Append(@, f) ELSE @]
        /\ listener' = [listener EXCEPT ![n] = TopOfLoop]
        /\ UNCHANGED <<main, backlog, files, sent, received, budget>>

-----------------------------------------------------------------------------
(* Receiving, by the main thread: the engine's latch and the command line. *)

\* What the engine is handed of the frames in a queue.
Envelopes(q) == [i \in 1..Len(q) |-> [source |-> q[i].source, number |-> q[i].number]]

\* Mutant: one slot of the array is not handed over.
RecvAllButLast(n) ==
    LET q == tcp[n].in_queue
    IN  /\ IsIdle(n) /\ tcp[n].running /\ q # << >>
        /\ received' = [received EXCEPT ![n] = @ \o Envelopes(SubSeq(q, 1, Len(q) - 1))]
        /\ tcp' = [tcp EXCEPT ![n].in_queue = << >>]
        /\ UNCHANGED <<listener, main, backlog, files, sent, budget>>

\* Mutant: in_count is not reset.
RecvKeepsQueue(n) ==
    LET q == tcp[n].in_queue
    IN  /\ IsIdle(n) /\ tcp[n].running /\ q # << >> /\ Len(received[n]) < MaxFrames
        /\ received' = [received EXCEPT ![n] = @ \o Envelopes(q)]
        /\ UNCHANGED <<tcp, listener, main, backlog, files, sent, budget>>

\* The latch of a running node, with room for RAFT_MAX_QUEUE messages.  It does not look at
\* enabled.
tcp_recv(n) ==
    LET q == tcp[n].in_queue
    IN  /\ IsIdle(n) /\ tcp[n].running /\ q # << >>
        /\ received' = [received EXCEPT ![n] = @ \o Envelopes(q)]
        /\ tcp' = [tcp EXCEPT ![n].in_queue = << >>]
        /\ UNCHANGED <<listener, main, backlog, files, sent, budget>>

\* cli_latch_inputs drains the other two queues whether or not the node runs.
Drain(n, queue) ==
    /\ IsIdle(n) /\ tcp[n][queue] # << >>
    /\ tcp' = [tcp EXCEPT ![n][queue] = << >>]
    /\ UNCHANGED <<listener, main, backlog, files, sent, received, budget>>

raft_tcp_transport_recv_joins(n) == Drain(n, "join_queue")
raft_tcp_transport_recv_fwd_cmds(n) == Drain(n, "fwd_cmd_queue")

\* Commands are counted, not told apart; only a running node submits (raft_node_submit_command).
tcp_submit_command(n) ==
    /\ IsIdle(n) /\ tcp[n].running /\ tcp[n].cmd_queue < RAFT_MAX_QUEUE
    /\ Spend("operations")
    /\ tcp' = [tcp EXCEPT ![n].cmd_queue = @ + 1]
    /\ UNCHANGED <<listener, main, backlog, files, sent, received>>

tcp_recv_commands(n) ==
    /\ IsIdle(n) /\ tcp[n].running /\ tcp[n].cmd_queue > 0
    /\ tcp' = [tcp EXCEPT ![n].cmd_queue = 0]
    /\ UNCHANGED <<listener, main, backlog, files, sent, received, budget>>

-----------------------------------------------------------------------------
(* What starts and stops the node.                                         *)

\* raft_node_start, with tcp_set_enabled(1).
Enable(n) ==
    /\ IsIdle(n) /\ ~(tcp[n].running /\ tcp[n].enabled)
    /\ Spend("operations")
    /\ tcp' = [tcp EXCEPT ![n].running = TRUE, ![n].enabled = TRUE]
    /\ UNCHANGED <<listener, main, backlog, files, sent, received>>

\* The node applies the leave_joint that expels it: it stops, its transport does not.
Expel(n) ==
    /\ IsIdle(n) /\ tcp[n].running
    /\ Spend("operations")
    /\ tcp' = [tcp EXCEPT ![n].running = FALSE]
    /\ UNCHANGED <<listener, main, backlog, files, sent, received>>

\* raft_node_reset_for_join makes a stopped node run and leaves its transport as it is.
ResetForJoin(n) ==
    /\ IsIdle(n) /\ ~tcp[n].running
    /\ Spend("operations")
    /\ tcp' = [tcp EXCEPT ![n].running = TRUE]
    /\ UNCHANGED <<listener, main, backlog, files, sent, received>>

\* raft_node_stop, with tcp_set_enabled(0): the flag, then the queues.
Disable(n) ==
    /\ IsIdle(n)
    /\ Spend("operations")
    /\ tcp' = [tcp EXCEPT ![n].running = FALSE, ![n].enabled = FALSE]
    /\ main' = [main EXCEPT ![n].at = "clear"]
    /\ UNCHANGED <<listener, backlog, files, sent, received>>

Clear(n) ==
    /\ main[n].at = "clear"
    /\ tcp' = [tcp EXCEPT ![n].in_queue = << >>, ![n].cmd_queue = 0]
    /\ main' = [main EXCEPT ![n] = Idle]
    /\ UNCHANGED <<listener, backlog, files, sent, received, budget>>

-----------------------------------------------------------------------------
(* The peer table and peers.txt.                                           *)

Registered(peers, p) ==
    IF Cardinality(peers) < RAFT_MAX_PEERS THEN peers \cup {p} ELSE peers

\* raft_tcp_transport_add_peer up to the fopen of tcp_save_peers, which empties the file.
\* A full table ignores a new peer; fopen may fail; then nothing is written.
AddPeer(n, p, saving) ==
    LET peers == Registered(tcp[n].peers, p)
    IN  /\ tcp' = [tcp EXCEPT ![n].peers = peers]
        /\ \/ /\ p \in peers
              /\ files' = [files EXCEPT ![n].peers = {}]
              /\ main' = [main EXCEPT ![n] = [at |-> saving, rest |-> @.rest \ {p}]]
           \/ /\ main' = [main EXCEPT ![n].rest = @ \ {p}]
              /\ UNCHANGED files
        /\ UNCHANGED <<listener, backlog, sent, received>>

\* One peer of setup's list.
LoadPeer(n) ==
    /\ main[n].at = "setup"
    /\ \E p \in main[n].rest : AddPeer(n, p, "setup_save")
    /\ UNCHANGED budget

\* A peer learned later: a join, a merge, or an applied cluster.peer_set.
LearnPeer(n, p) ==
    /\ IsIdle(n) /\ p # n
    /\ Spend("operations")
    /\ AddPeer(n, p, "save")

\* The buffered lines reach the file when fclose flushes them.
FinishSave(n) ==
    /\ main[n].at \in {"setup_save", "save"}
    /\ files' = [files EXCEPT ![n].peers = tcp[n].peers]
    /\ main' = [main EXCEPT ![n].at = IF @ = "save" THEN "idle" ELSE "setup"]
    /\ UNCHANGED <<tcp, listener, backlog, sent, received, budget>>

-----------------------------------------------------------------------------
(* Start and stop.                                                         *)

Listening(t) == [t EXCEPT !.listening = TRUE, !.started = TRUE, !.shutdown = FALSE]

\* raft_tcp_transport_start saves the port in self.txt.
StartListening(n) ==
    /\ tcp' = [tcp EXCEPT ![n] = Listening(@)]
    /\ listener' = [listener EXCEPT ![n] = TopOfLoop]
    /\ files' = [files EXCEPT ![n].self = TRUE]

\* setup ends with it if the process has a port, from its arguments or self.txt.
FinishSetup(n) ==
    /\ main[n].at = "setup" /\ main[n].rest = {}
    /\ main' = [main EXCEPT ![n] = Idle]
    /\ IF n \in HasPort \/ files[n].self THEN StartListening(n)
       ELSE UNCHANGED <<tcp, listener, files>>
    /\ UNCHANGED <<backlog, sent, received, budget>>

\* The command "port".
raft_tcp_transport_listen(n) ==
    /\ IsIdle(n) /\ ~tcp[n].started
    /\ StartListening(n)
    /\ UNCHANGED <<main, backlog, sent, received, budget>>

\* Mutant: the thread is never told to end.
StopQuietly(n) ==
    /\ IsIdle(n)
    /\ Spend("operations")
    /\ tcp' = [tcp EXCEPT ![n].listening = FALSE]
    /\ backlog' = [backlog EXCEPT ![n] = << >>]
    /\ main' = [main EXCEPT ![n].at = "stop"]
    /\ UNCHANGED <<listener, files, sent, received>>

\* raft_tcp_transport_stop: closing listen_fd resets the connections of the backlog, but not
\* the one the listener has accepted.
Stop(n) ==
    /\ IsIdle(n)
    /\ Spend("operations")
    /\ tcp' = [tcp EXCEPT ![n].shutdown = TRUE, ![n].listening = FALSE]
    /\ backlog' = [backlog EXCEPT ![n] = << >>]
    /\ main' = [main EXCEPT ![n].at = "stop"]
    /\ UNCHANGED <<listener, files, sent, received>>

\* The process after raft_tcp_transport_init, about to read peers.txt.
Boot(n) ==
    /\ tcp' = [tcp EXCEPT ![n] = InitialTcp]
    /\ listener' = [listener EXCEPT ![n] = NoThread]
    /\ main' = [main EXCEPT ![n] = Setup(n, files[n].peers)]
    /\ backlog' = [backlog EXCEPT ![n] = << >>]
    /\ UNCHANGED <<files, sent, received>>

\* pthread_join returns, the process ends and is started again.
JoinThread(n) ==
    /\ main[n].at = "stop" /\ At(n, "off")
    /\ Boot(n)
    /\ UNCHANGED budget

Crash(n) == Spend("operations") /\ Boot(n)

\* FD_SET of the -1 that stop has put into listen_fd since the test of shutdown: a build that
\* checks it (-O2 with _FORTIFY_SOURCE) aborts, another goes on to a select of nothing.
AbortInSelect(n) ==
    /\ At(n, "select") /\ ~tcp[n].listening
    /\ Boot(n)
    /\ UNCHANGED budget

-----------------------------------------------------------------------------
ListenerStep(n) ==
    \/ TestShutdown(n) \/ SelectFails(n) \/ Accept(n) \/ Receive(n)
    \/ Gate(n) \/ Store(n)

\* The calls main is in the middle of, and those every tick makes.
MainStep(n) == Clear(n) \/ LoadPeer(n) \/ FinishSave(n) \/ FinishSetup(n) \/ JoinThread(n)

TickStep(n) ==
    \/ tcp_recv(n) \/ tcp_recv_commands(n)
    \/ raft_tcp_transport_recv_joins(n) \/ raft_tcp_transport_recv_fwd_cmds(n)

\* What the operator, the application or a fault does to a process.
Operation(n) ==
    \/ tcp_submit_command(n) \/ Enable(n) \/ Disable(n) \/ Expel(n) \/ ResetForJoin(n)
    \/ raft_tcp_transport_listen(n) \/ Stop(n) \/ Crash(n)
    \/ \E p \in Node : LearnPeer(n, p)

Next ==
    \E n \in Node :
        \/ ListenerStep(n) \/ MainStep(n) \/ TickStep(n)
        \/ ConnectionReset(n) \/ AbortInSelect(n)
        \/ \E m \in Observed :
              tcp_send(n, m) \/ tcp_send_join(n, m) \/ raft_tcp_transport_forward_cmd(n, m)
        \/ n \in Observed /\ Operation(n)

\* Both threads of a process that runs are scheduled: the listener by the operating
\* system, the main thread's calls by the cooperative loop, which ticks forever.  Nothing is
\* assumed of a peer that is gone.
Fairness ==
    \A n \in Node :
        /\ WF_vars(ListenerStep(n)) /\ WF_vars(MainStep(n))
        /\ WF_vars(tcp_recv(n)) /\ WF_vars(tcp_recv_commands(n))
        /\ WF_vars(raft_tcp_transport_recv_joins(n))
        /\ WF_vars(raft_tcp_transport_recv_fwd_cmds(n))

Spec == Init /\ [][Next]_vars /\ Fairness

-----------------------------------------------------------------------------
(* What the transport promises.                                            *)

Network == INSTANCE RaftNetwork WITH Node <- Node, sent <- sent, received <- received

\* The transport is a network that loses messages but neither invents, repeats, misdelivers
\* nor reorders them, whatever the two threads, a stop or a crash do to the queues.
ImplementsNetwork == Network!Spec

\* The listener has read enabled as set and is about to store a Raft message.
PastGate(n) == At(n, "store") /\ listener[n].frame.type = "RAFT"

\* Once tcp_set_enabled(0) has returned, at most one message can be waiting for the next
\* start of the node: the one the listener had let through before the flag fell.  All
\* others that arrived before or during the stop are gone.
StopLeavesOneMessage ==
    \A n \in Node : ~tcp[n].enabled /\ main[n].at # "clear" =>
        Len(tcp[n].in_queue) + (IF PastGate(n) THEN 1 ELSE 0) <= 1

\* Message number k of a is on its way through b's process.
InTransit(a, b, k) ==
    LET m == [type |-> "RAFT", source |-> a, number |-> k]
    IN  \/ \E i \in 1..Len(backlog[b]) : backlog[b][i] = m
        \/ listener[b].at \in {"recv", "gate", "store"} /\ listener[b].frame = m
        \/ \E i \in 1..Len(tcp[b].in_queue) : tcp[b].in_queue[i] = m

Received(a, b, k) ==
    \E i \in 1..Len(received[b]) : received[b][i] = [source |-> a, number |-> k]

\* The reasons for which a message that reached the process may be dropped, or stay.
MayDrop(n) ==
    \/ ~tcp[n].enabled \/ ~tcp[n].running \/ ~tcp[n].listening
    \/ Len(tcp[n].in_queue) = RAFT_MAX_QUEUE
    \/ Hangs(n)

\* A message that reached the process is handed to the engine, unless the node or its
\* transport is stopped, the node is expelled, the queue fills up or the listener hangs on
\* another peer before: no interleaving of the listener's append with the engine's
\* copy-and-reset of the queue loses or strands it.
EventuallyReceived ==
    \A a \in Node, b \in Observed, k \in 1..MaxFrames :
        InTransit(a, b, k) ~> Received(a, b, k) \/ MayDrop(b)

\* raft_tcp_transport_stop returns, unless the listener hangs on a peer that is gone: wherever
\* else the listener is when the socket is closed under it, it sees shutdown.
StopReturnsUnlessHung ==
    \A n \in Node : main[n].at = "stop" ~> main[n].at # "stop" \/ Hangs(n)
=============================================================================
