------------------------- MODULE RaftMqttTransport -------------------------
(***************************************************************************)
(* The MQTT transport with its POSIX HAL, peer discovery and the broker.   *)
(*                                                                         *)
(* A background thread runs the MQTT library, whose callback puts what the *)
(* broker delivers into a ring; the main thread takes it out again, one    *)
(* message under the lock at a time.  The broker and the library are       *)
(* external: a client that is connected and subscribed gets each publish   *)
(* once or not at all, in order (QoS 0; at QoS 1 a publish may come twice, *)
(* which the engine bears); a lost connection ends its subscriptions       *)
(* (cleanSession) and is noticed by nobody.                                *)
(*                                                                         *)
(* A topic is "join" or the inbox of a node.  A node id is a sequence of   *)
(* letters, because the join queue copies ids over one another.            *)
(***************************************************************************)
EXTENDS Naturals, Sequences, FiniteSets

CONSTANTS
    Node,
    RAFT_MAX_QUEUE, RAFT_MAX_NODES,
    Letters,
    NodeId,            \* the id of each node, a sequence of letters
    Observed,          \* bound: the nodes that get subscriptions, are stopped and disconnected
    MaxPublishes,      \* bound: Raft messages of the whole run
    MaxOperations      \* bound: calls of the application and lost connections of the whole run

ASSUME MqttAssumption ==
    /\ RAFT_MAX_QUEUE \in Nat \ {0} /\ RAFT_MAX_NODES \in Nat \ {0}
    /\ NodeId \in [Node -> Seq(Letters)] /\ Observed \subseteq Node
    /\ MaxPublishes \in Nat /\ MaxOperations \in Nat

RAFT_MQTT_POSIX_QUEUE_SIZE == RAFT_MAX_QUEUE

VARIABLES
    mqtt,              \* raft_mqtt_transport_t of each node
    hal,               \* raft_mqtt_hal_posix_ctx_t of each node
    main,              \* where the main thread is in a call of several steps
    subscribed,        \* broker: the topics of each connected client
    routed,            \* broker: publishes on their way to each client
    sent, received,    \* what the engines have sent and been handed
    reported,          \* the ids recv_joins has given each application
    budget             \* what the bounds have left

vars == <<mqtt, hal, main, subscribed, routed, sent, received, reported, budget>>

Message(a, k) == [topic |-> "inbox", source |-> a, number |-> k]
Announcement(a) == [topic |-> "join", source |-> a, number |-> 0]
Nothing == [topic |-> "none", source |-> CHOOSE n \in Node : TRUE, number |-> 0]

Slots == 0..(RAFT_MQTT_POSIX_QUEUE_SIZE - 1)

\* raft_mqtt_transport_init; discovering stands for a join_topic that is set.  running is that
\* of the node, which decides what the main thread calls.
InitialMqtt ==
    [running |-> TRUE, enabled |-> TRUE, started |-> FALSE, discovering |-> FALSE,
     join_queue |-> [i \in 1..RAFT_MAX_NODES |-> << >>], join_count |-> 0, cmd_count |-> 0]

\* raft_mqtt_hal_posix_make; link is the connection as the broker sees it.
InitialHal ==
    [link |-> FALSE, thread |-> FALSE, ring |-> [i \in Slots |-> Nothing],
     r_head |-> 0, r_tail |-> 0]

Idle == [at |-> "idle", out |-> << >>]

Init ==
    /\ mqtt = [n \in Node |-> InitialMqtt]
    /\ hal = [n \in Node |-> InitialHal]
    /\ main = [n \in Node |-> Idle]
    /\ subscribed = [n \in Node |-> {}]
    /\ routed = [n \in Node |-> << >>]
    /\ sent = [a \in Node |-> [b \in Node |-> 0]]
    /\ received = [n \in Node |-> << >>]
    /\ reported = [n \in Node |-> {}]
    /\ budget = [publishes |-> MaxPublishes, operations |-> MaxOperations]

IsIdle(n) == main[n].at = "idle"

Spend(what) ==
    /\ budget[what] > 0
    /\ budget' = [budget EXCEPT ![what] = @ - 1]

-----------------------------------------------------------------------------
(* The broker.                                                             *)

\* posix_hal_publish: fails without a connection; at QoS 0 any copy may be lost.
Publish(a, topic, targets, p) ==
    IF ~hal[a].link THEN UNCHANGED routed
    ELSE \E reached \in SUBSET {n \in targets : topic \in subscribed[n]} :
            routed' = [n \in Node |-> IF n \in reached THEN Append(routed[n], p)
                                      ELSE routed[n]]

\* The connection breaks: the thread goes on, and nothing is subscribed again.
LoseLink(n) ==
    /\ hal[n].link
    /\ Spend("operations")
    /\ hal' = [hal EXCEPT ![n].link = FALSE]
    /\ subscribed' = [subscribed EXCEPT ![n] = {}]
    /\ routed' = [routed EXCEPT ![n] = << >>]
    /\ UNCHANGED <<mqtt, main, sent, received, reported>>

-----------------------------------------------------------------------------
(* The ring.                                                               *)

Filled(h) == h.r_tail - h.r_head

\* Mutant: the ring takes one publish too many.
PutOneTooMany(h, p) ==
    IF Filled(h) <= RAFT_MQTT_POSIX_QUEUE_SIZE
    THEN [h EXCEPT !.ring[h.r_tail % RAFT_MQTT_POSIX_QUEUE_SIZE] = p, !.r_tail = @ + 1]
    ELSE h

\* posix_mqtt_event_cb, in the thread: a full ring drops the publish.
Put(h, p) ==
    IF Filled(h) < RAFT_MQTT_POSIX_QUEUE_SIZE
    THEN [h EXCEPT !.ring[h.r_tail % RAFT_MQTT_POSIX_QUEUE_SIZE] = p, !.r_tail = @ + 1]
    ELSE h

\* posix_mqtt_thread, one MQTT_ProcessLoop.
ProcessLoop(n) ==
    /\ hal[n].thread /\ routed[n] # << >>
    /\ hal' = [hal EXCEPT ![n] = Put(@, Head(routed[n]))]
    /\ routed' = [routed EXCEPT ![n] = Tail(@)]
    /\ UNCHANGED <<mqtt, main, subscribed, sent, received, reported, budget>>

\* posix_hal_recv_raw.  What it leaves in the slot is never read again.
IsEmpty(h) == h.r_head = h.r_tail
First(h) == h.ring[h.r_head % RAFT_MQTT_POSIX_QUEUE_SIZE]
Taken(h) == [h EXCEPT !.ring[h.r_head % RAFT_MQTT_POSIX_QUEUE_SIZE] = Nothing, !.r_head = @ + 1]

-----------------------------------------------------------------------------
(* The vtable of the engine.                                               *)

mqtt_send(a, b) ==
    /\ IsIdle(a) /\ a # b /\ mqtt[a].running /\ mqtt[a].enabled
    /\ Spend("publishes")
    /\ sent' = [sent EXCEPT ![a][b] = @ + 1]
    /\ Publish(a, "inbox", {b}, Message(a, sent[a][b] + 1))
    /\ UNCHANGED <<mqtt, hal, main, subscribed, received, reported>>

\* mqtt_recv, called by the latch of a running node.
BeginRecv(n) ==
    /\ IsIdle(n) /\ mqtt[n].running /\ ~IsEmpty(hal[n])
    /\ main' = [main EXCEPT ![n] = [at |-> "recv", out |-> << >>]]
    /\ UNCHANGED <<mqtt, hal, subscribed, routed, sent, received, reported, budget>>

\* memcpy of an id into a slot that was used before: the rest of a longer id stays.
Overlaid(old, new) ==
    new \o SubSeq(old, Len(new) + 1, Len(old))

\* Mutant: the last slot of the join queue is not used.
QueuedOneShort(t, p) ==
    IF t.discovering /\ t.join_count < RAFT_MAX_NODES - 1
    THEN [t EXCEPT !.join_queue[t.join_count + 1] = Overlaid(@, NodeId[p.source]),
                   !.join_count = @ + 1]
    ELSE t

\* The join topic is routed only while discovering, and while the queue has room.
Queued(t, p) ==
    IF t.discovering /\ t.join_count < RAFT_MAX_NODES
    THEN [t EXCEPT !.join_queue[t.join_count + 1] = Overlaid(@, NodeId[p.source]),
                   !.join_count = @ + 1]
    ELSE t

\* One turn of the loop: a message of the inbox goes to the engine, or nowhere if the
\* transport is disabled, an announcement to the join queue.
RecvOne(n) ==
    LET p == First(hal[n])
    IN  /\ main[n].at = "recv" /\ Len(main[n].out) < RAFT_MAX_QUEUE /\ ~IsEmpty(hal[n])
        /\ hal' = [hal EXCEPT ![n] = Taken(@)]
        /\ IF p.topic = "inbox" /\ mqtt[n].enabled
           THEN /\ main' = [main EXCEPT ![n].out =
                               Append(@, [source |-> p.source, number |-> p.number])]
                /\ UNCHANGED mqtt
           ELSE /\ mqtt' = [mqtt EXCEPT ![n] = IF p.topic = "inbox" THEN @ ELSE Queued(@, p)]
                /\ UNCHANGED main
        /\ UNCHANGED <<subscribed, routed, sent, received, reported, budget>>

\* Mutant: the last message of the loop is not counted.
EndRecvDropsLast(n) ==
    /\ main[n].at = "recv"
    /\ IsEmpty(hal[n]) \/ Len(main[n].out) = RAFT_MAX_QUEUE
    /\ received' = [received EXCEPT ![n] = @ \o
                       SubSeq(main[n].out, 1, Len(main[n].out) - 1)]
    /\ main' = [main EXCEPT ![n] = Idle]
    /\ UNCHANGED <<mqtt, hal, subscribed, routed, sent, reported, budget>>

EndRecv(n) ==
    /\ main[n].at = "recv"
    /\ IsEmpty(hal[n]) \/ Len(main[n].out) = RAFT_MAX_QUEUE
    /\ received' = [received EXCEPT ![n] = @ \o main[n].out]
    /\ main' = [main EXCEPT ![n] = Idle]
    /\ UNCHANGED <<mqtt, hal, subscribed, routed, sent, reported, budget>>

mqtt_submit_command(n) ==
    /\ IsIdle(n) /\ mqtt[n].running /\ mqtt[n].cmd_count < RAFT_MAX_QUEUE
    /\ Spend("operations")
    /\ mqtt' = [mqtt EXCEPT ![n].cmd_count = @ + 1]
    /\ UNCHANGED <<hal, main, subscribed, routed, sent, received, reported>>

mqtt_recv_commands(n) ==
    /\ IsIdle(n) /\ mqtt[n].running /\ mqtt[n].cmd_count > 0
    /\ mqtt' = [mqtt EXCEPT ![n].cmd_count = 0]
    /\ UNCHANGED <<hal, main, subscribed, routed, sent, received, reported, budget>>

\* raft_node_start, with mqtt_set_enabled(1).
Enable(n) ==
    /\ IsIdle(n) /\ ~(mqtt[n].running /\ mqtt[n].enabled)
    /\ Spend("operations")
    /\ mqtt' = [mqtt EXCEPT ![n].running = TRUE, ![n].enabled = TRUE]
    /\ UNCHANGED <<hal, main, subscribed, routed, sent, received, reported>>

\* The node applies the leave_joint that expels it: it stops, its transport does not.
Expel(n) ==
    /\ IsIdle(n) /\ mqtt[n].running
    /\ Spend("operations")
    /\ mqtt' = [mqtt EXCEPT ![n].running = FALSE]
    /\ UNCHANGED <<hal, main, subscribed, routed, sent, received, reported>>

\* raft_node_reset_for_join makes a stopped node run and leaves its transport as it is.
ResetForJoin(n) ==
    /\ IsIdle(n) /\ ~mqtt[n].running
    /\ Spend("operations")
    /\ mqtt' = [mqtt EXCEPT ![n].running = TRUE]
    /\ UNCHANGED <<hal, main, subscribed, routed, sent, received, reported>>

\* raft_node_stop, with mqtt_set_enabled(0): the flag falls, then the ring is emptied message
\* by message.
Disable(n) ==
    /\ IsIdle(n)
    /\ Spend("operations")
    /\ mqtt' = [mqtt EXCEPT ![n].running = FALSE, ![n].enabled = FALSE]
    /\ main' = [main EXCEPT ![n].at = "drain"]
    /\ UNCHANGED <<hal, subscribed, routed, sent, received, reported>>

DrainOne(n) ==
    /\ main[n].at = "drain" /\ ~IsEmpty(hal[n])
    /\ hal' = [hal EXCEPT ![n] = Taken(@)]
    /\ UNCHANGED <<mqtt, main, subscribed, routed, sent, received, reported, budget>>

EndDrain(n) ==
    /\ main[n].at = "drain" /\ IsEmpty(hal[n])
    /\ mqtt' = [mqtt EXCEPT ![n].cmd_count = 0]
    /\ main' = [main EXCEPT ![n] = Idle]
    /\ UNCHANGED <<hal, subscribed, routed, sent, received, reported, budget>>

-----------------------------------------------------------------------------
(* Start and stop.                                                         *)

\* raft_mqtt_transport_start after posix_hal_connect has succeeded; if it fails nothing
\* changes.  The ring keeps what an earlier connection left in it.
Connect(n) ==
    /\ IsIdle(n) /\ ~mqtt[n].started
    /\ hal' = [hal EXCEPT ![n].link = TRUE, ![n].thread = TRUE]
    /\ main' = [main EXCEPT ![n].at = "subscribe"]
    /\ UNCHANGED <<mqtt, subscribed, routed, sent, received, reported, budget>>

\* posix_hal_subscribe reports success once the packet is sent: the answer of the broker,
\* which may be a refusal, goes to whichever thread reads it first.
SubscribeReturns(n, topic) ==
    \E topics \in {{}} \cup {{topic} : o \in Observed \cap {n}} :
        subscribed' = [subscribed EXCEPT ![n] = IF hal[n].link THEN @ \cup topics ELSE {}]

Subscribe(n) ==
    /\ main[n].at = "subscribe"
    /\ SubscribeReturns(n, "inbox")
    /\ mqtt' = [mqtt EXCEPT ![n].started = TRUE]
    /\ main' = [main EXCEPT ![n] = Idle]
    /\ UNCHANGED <<hal, routed, sent, received, reported, budget>>

\* posix_hal_disconnect: the thread is joined, the connection closed.
Disconnect(n) ==
    /\ hal' = [hal EXCEPT ![n].link = FALSE, ![n].thread = FALSE]
    /\ subscribed' = [subscribed EXCEPT ![n] = {}]
    /\ routed' = [routed EXCEPT ![n] = << >>]

SubscribeFails(n) ==
    /\ main[n].at = "subscribe"
    /\ Spend("operations")
    /\ Disconnect(n)
    /\ main' = [main EXCEPT ![n] = Idle]
    /\ UNCHANGED <<mqtt, sent, received, reported>>

raft_mqtt_transport_stop(n) ==
    /\ IsIdle(n) /\ mqtt[n].started
    /\ Spend("operations")
    /\ Disconnect(n)
    /\ mqtt' = [mqtt EXCEPT ![n].started = FALSE]
    /\ UNCHANGED <<main, sent, received, reported>>

-----------------------------------------------------------------------------
(* raft_mqtt_transport_recv_joins.                                         *)

\* The first call subscribes to the join topic and announces this node, whether or not
\* there is a connection.
Discover(n) ==
    /\ IsIdle(n) /\ ~mqtt[n].discovering
    /\ mqtt' = [mqtt EXCEPT ![n].discovering = TRUE]
    /\ SubscribeReturns(n, "join")
    /\ main' = [main EXCEPT ![n].at = "announce"]
    /\ UNCHANGED <<hal, routed, sent, received, reported, budget>>

Announce(n) ==
    /\ main[n].at = "announce"
    /\ Publish(n, "join", Node, Announcement(n))
    /\ main' = [main EXCEPT ![n] = Idle]
    /\ UNCHANGED <<mqtt, hal, subscribed, sent, received, reported, budget>>

\* Every call hands over the queue.
ReportJoins(n) ==
    LET t == mqtt[n]
    IN  /\ IsIdle(n) /\ t.discovering /\ t.join_count > 0
        /\ reported' = [reported EXCEPT ![n] =
                           @ \cup {t.join_queue[i] : i \in 1..t.join_count}]
        /\ mqtt' = [mqtt EXCEPT ![n].join_count = 0]
        /\ UNCHANGED <<hal, main, subscribed, routed, sent, received, budget>>

-----------------------------------------------------------------------------
\* The process dies and is started again; nothing of the transport is kept.
Crash(n) ==
    /\ Spend("operations")
    /\ mqtt' = [mqtt EXCEPT ![n] = InitialMqtt]
    /\ hal' = [hal EXCEPT ![n] = InitialHal]
    /\ main' = [main EXCEPT ![n] = Idle]
    /\ subscribed' = [subscribed EXCEPT ![n] = {}]
    /\ routed' = [routed EXCEPT ![n] = << >>]
    /\ UNCHANGED <<sent, received, reported>>

\* The rest of a call the main thread is in.
MainStep(n) ==
    \/ RecvOne(n) \/ EndRecv(n) \/ DrainOne(n) \/ EndDrain(n)
    \/ Subscribe(n) \/ Announce(n)

\* What the application or a fault does to a node.
Operation(n) ==
    \/ mqtt_submit_command(n) \/ Enable(n) \/ Disable(n) \/ Expel(n) \/ ResetForJoin(n)
    \/ SubscribeFails(n) \/ raft_mqtt_transport_stop(n) \/ LoseLink(n) \/ Crash(n)

Next ==
    \E n \in Node :
        \/ ProcessLoop(n) \/ MainStep(n) \/ BeginRecv(n) \/ mqtt_recv_commands(n)
        \/ ReportJoins(n) \/ Connect(n) \/ Discover(n)
        \/ \E m \in Observed : mqtt_send(n, m)
        \/ n \in Observed /\ Operation(n)

\* The thread is scheduled by the operating system, the calls of the main thread return
\* and the loop that makes them ticks forever.
Fairness ==
    \A n \in Node :
        /\ WF_vars(ProcessLoop(n)) /\ WF_vars(MainStep(n))
        /\ WF_vars(BeginRecv(n)) /\ WF_vars(mqtt_recv_commands(n)) /\ WF_vars(ReportJoins(n))

Spec == Init /\ [][Next]_vars /\ Fairness

-----------------------------------------------------------------------------
(* What the transport promises.                                            *)

Network == INSTANCE RaftNetwork WITH Node <- Node, sent <- sent, received <- received

\* The transport is a network that loses messages but neither invents, repeats, misdelivers
\* nor reorders them: the ring's head and tail stay right when the callback and the loops
\* of mqtt_recv and mqtt_set_enabled run against each other, through reconnections too.
ImplementsNetwork == Network!Spec

Holds(h, p) ==
    \E i \in h.r_head..(h.r_tail - 1) : h.ring[i % RAFT_MQTT_POSIX_QUEUE_SIZE] = p

\* Publish p is on its way to n's engine or application.
InTransit(n, p) ==
    \/ \E i \in 1..Len(routed[n]) : routed[n][i] = p
    \/ Holds(hal[n], p)

\* The reasons for which a publish may be dropped or kept waiting.
MayDrop(n) ==
    \/ ~mqtt[n].enabled \/ ~mqtt[n].running \/ ~mqtt[n].started
    \/ routed[n] # << >> /\ Filled(hal[n]) = RAFT_MQTT_POSIX_QUEUE_SIZE

\* A message the broker has accepted for a node is handed to its engine, unless the node or
\* its transport is stopped, the node is expelled, the connection breaks or the ring fills
\* up before.
EventuallyReceived ==
    \A a \in Node, b \in Observed, k \in 1..MaxPublishes :
        InTransit(b, Message(a, k)) ~>
            \/ \E i \in 1..Len(received[b]) : received[b][i] = [source |-> a, number |-> k]
            \/ MayDrop(b) \/ ~hal[b].link

\* An announcement on its way to a node that is discovering makes recv_joins report the
\* node that made it, unless the same happens or the join queue is full.
EventuallyReported ==
    \A a \in Node, b \in Observed :
        mqtt[b].discovering /\ InTransit(b, Announcement(a)) ~>
            \/ NodeId[a] \in reported[b]
            \/ MayDrop(b) \/ ~hal[b].link \/ mqtt[b].join_count = RAFT_MAX_NODES
=============================================================================
