------------------------------ MODULE RaftCli ------------------------------
(***************************************************************************)
(* The command line of the demo application (cli_fsm.c) over the engine of *)
(* RaftCluster: one process per node, connected by the TCP transport.      *)
(*                                                                         *)
(* The process ticks the engine and the command line in turn.  A tick of   *)
(* the command line is one step: it drains the queues of the listener      *)
(* thread, executes the line the operator has typed, if any, and runs the  *)
(* whole cli_dump_outputs.  It is taken between two ticks of the engine;   *)
(* a line is executed between the latch and the dump of the engine, which  *)
(* would see a request one tick earlier.  Engine messages travel as in     *)
(* RaftCluster, but only to nodes whose address the sender knows.          *)
(*                                                                         *)
(* Addresses are not told apart from the nodes they belong to, and every   *)
(* process listens.  A frame goes into the queue of its target at once, or *)
(* is lost.  Lines that only print (get, status, leader, members, log,     *)
(* help) change nothing and are left out.                                  *)
(***************************************************************************)
EXTENDS RaftProgress, SequencesExt

CONSTANTS
    RAFT_MAX_QUEUE,    \* slots of the command queues
    KnownPeers,        \* the peers of the arguments (--peer)
    JoinVia,           \* the introducers the arguments may name (--join); {}: no --join
    Lines,             \* bound: the lines an operator may type at each node
    MaxLines,          \* bound: lines of the whole run, each typed once at most
    MaxLost            \* bound: frames that get lost in the whole run

ASSUME CliAssumption ==
    /\ RAFT_MAX_QUEUE \in Nat \ {0}
    /\ KnownPeers \in [Server -> SUBSET Server] /\ JoinVia \in [Server -> SUBSET Server]
    /\ DOMAIN Lines = Server /\ MaxLines \in Nat /\ MaxLost \in Nat

VARIABLES
    cli,               \* cli_user_t of each process, and the queues of its transport
    typed,             \* the lines typed so far, with the node
    lost               \* the number of frames lost so far

cliVars == <<vars, cli, typed, lost>>

\* raft_tcp_join_req_t: forwarded is how far the request has come; cluster marks a merge,
\* which carries the members of the sender's cluster.
Join(id, forwarded, cluster, members) ==
    [id |-> id, forwarded |-> forwarded, cluster |-> cluster, members |-> members]

\* The commands of the demo application: cluster.peer_set names the node in members.
Set(v) == [op |-> "app", value |-> v, members |-> {}]
PeerSet(id) == [op |-> "app", value |-> 0, members |-> {id}]
Forwarded(op, id) == [op |-> op, value |-> id, members |-> {}]

\* configure_transport and configure_cli; rejoin is rejoin_host while rejoin_pending.
InitialCli(n) ==
    [peers |-> KnownPeers[n], enabled |-> TRUE, cmd_queue |-> << >>,
     join_queue |-> << >>, fwd_cmd_queue |-> << >>, pending_joins |-> << >>,
     leave_pending |-> FALSE, rejoin |-> Nil, quit |-> FALSE]

\* A process in the middle of a tick of its command line: its node, its disk, its cli_user_t
\* and the frames it has sent so far.  refused: the connection for a forwarded command fails.
Process(n, refused) ==
    [node |-> node[n], disk |-> disk[n], cli |-> cli[n], out |-> << >>, refused |-> refused]

Self(p) == p.node.id
IsLeader(p) == p.node.role = "LEADER"

Send(p, to, queue, item) ==
    [p EXCEPT !.out = Append(@, [to |-> to, queue |-> queue, item |-> item])]

SendJoin(p, to, join) == Send(p, to, "join_queue", join)

-----------------------------------------------------------------------------
(* Peers and their addresses.                                              *)

raft_tcp_transport_add_peer(peers, id) ==
    IF Cardinality(peers) < RAFT_MAX_PEERS THEN peers \cup {id} ELSE peers

find_peer_address(p, id) == id = Self(p) \/ id \in p.cli.peers

\* The members in the order of the two lists, without the ones already listed.
MemberList(c) == SetToSortSeq(c.old, <) \o SetToSortSeq(c.new \ c.old, <)

\* The arrays of members hold RAFT_MAX_NODES; what is left is dropped.
Capped(ids) == SubSeq(ids, 1, Min({Len(ids), RAFT_MAX_NODES}))

collect_cluster_peers(p) ==
    LET known == Capped(SelectSeq(MemberList(p.node.config_state),
                                  LAMBDA id : find_peer_address(p, id)))
    IN  IF known = << >> THEN <<Self(p)>> ELSE known

raft_node_submit_command(p, c) ==
    IF /\ p.node.running /\ node_self_is_member(p.node)
       /\ Len(p.cli.cmd_queue) < RAFT_MAX_QUEUE
    THEN [p EXCEPT !.cli.cmd_queue = Append(@, c)]
    ELSE p

\* find_leader_address, then raft_tcp_transport_forward_cmd, whose connection fails when it
\* gets lost or the process of the leader has quit.
CanForward(p) ==
    p.node.leader_id \in p.cli.peers /\ ~p.refused /\ ~cli[p.node.leader_id].quit

forward_to_leader(p, c) ==
    IF CanForward(p) THEN Send(p, p.node.leader_id, "fwd_cmd_queue", c) ELSE p

node_log_has_command(s, c) == \E i \in 1..s.log_count : s.log[i].command = c

\* Mutant: a command that waits in the queue is queued again.
QueueHasNone(p, c) == FALSE

tcp_command_queue_has(p, c) == \E i \in 1..Len(p.cli.cmd_queue) : p.cli.cmd_queue[i] = c

\* Only a leader calls it for another node (see learn_peer): the branch that forwards to
\* the leader is never taken.
queue_peer_set(p, id) ==
    IF \/ id = Self(p)
       \/ node_log_has_command(p.node, PeerSet(id)) \/ tcp_command_queue_has(p, PeerSet(id))
    THEN p ELSE raft_node_submit_command(p, PeerSet(id))

\* replicate is passed as "this node leads" everywhere.
learn_peer(p, id) ==
    IF id = Self(p) THEN p
    ELSE LET q == [p EXCEPT !.cli.peers = raft_tcp_transport_add_peer(@, id)]
         IN  IF IsLeader(p) /\ id \notin p.cli.peers THEN queue_peer_set(q, id) ELSE q

\* Mutant: a joiner is not told the addresses of the members.
ReplicatesNothing(p) == p

replicate_known_cluster_peers(p) ==
    IF IsLeader(p) THEN FoldLeft(queue_peer_set, p, collect_cluster_peers(p)) ELSE p

-----------------------------------------------------------------------------
(* The lines of the operator.                                              *)

raft_node_request_membership_change(p, members) ==
    IF ~node_is_leader(p.node) THEN p
    ELSE [p EXCEPT !.node.requested_membership = members,
                   !.node.requested_membership_pending = @ \/ members # {}]

Old(p) == p.node.config_state.old

\* set and delete.
cmd_set(p, v) ==
    IF IsLeader(p) THEN raft_node_submit_command(p, Set(v)) ELSE forward_to_leader(p, Set(v))

AddNode(p, id) ==
    IF id \in Old(p) \/ Cardinality(Old(p)) >= RAFT_MAX_NODES THEN p
    ELSE raft_node_request_membership_change(p, Old(p) \cup {id})

RemoveNode(p, id) ==
    IF id \notin Old(p) THEN p
    ELSE raft_node_request_membership_change(p, Old(p) \ {id})

cmd_addnode(p, id) ==
    IF IsLeader(p) THEN AddNode(p, id) ELSE forward_to_leader(p, Forwarded("fwd_add", id))

cmd_rmnode(p, id) ==
    IF IsLeader(p) THEN RemoveNode(p, id) ELSE forward_to_leader(p, Forwarded("fwd_rm", id))

cmd_leave(p) ==
    LET id == Self(p)
    IN  IF IsLeader(p)
        THEN [raft_node_request_membership_change(p, Old(p) \ {id}) EXCEPT
                 !.cli.leave_pending = TRUE]
        ELSE [forward_to_leader(p, Forwarded("fwd_leave", id)) EXCEPT
                 !.cli.leave_pending = @ \/ CanForward(p)]

\* The transport stays as raft_node_stop left it.
request_join_now(p, via) ==
    LET s == raft_node_reset_for_join(p.node)
    IN  SendJoin([p EXCEPT !.node = [s EXCEPT !.app = << >>],
                           !.disk = raft_storage_node_save(@, s)],
                 via, Join(Self(p), "ORIGINAL", FALSE, {}))

cmd_join(p, via) ==
    IF node_self_is_member(p.node) /\ Cardinality(Old(p)) > 1
    THEN cmd_leave([p EXCEPT !.cli.rejoin = via])
    ELSE request_join_now(p, via)

SendMerge(p, to, forwarded) ==
    SendJoin(p, to, Join(Self(p), forwarded, TRUE, Range(collect_cluster_peers(p))))

cmd_merge(p, via) == SendMerge(p, via, "ORIGINAL")

cmd_stop(p) ==
    [p EXCEPT !.node = raft_node_stop(@), !.cli.enabled = FALSE, !.cli.cmd_queue = << >>]

cmd_start(p) == [p EXCEPT !.node = raft_node_start(@, p.disk), !.cli.enabled = TRUE]

\* A line is the command and its argument, a node or a value; NoLine when nothing is typed.
NoLine == <<"", Nil>>

dispatch(p, line) ==
    CASE line[1] = "set"     -> cmd_set(p, line[2])
      [] line[1] = "addnode" -> cmd_addnode(p, line[2])
      [] line[1] = "rmnode"  -> cmd_rmnode(p, line[2])
      [] line[1] = "leave"   -> cmd_leave(p)
      [] line[1] = "join"    -> cmd_join(p, line[2])
      [] line[1] = "merge"   -> cmd_merge(p, line[2])
      [] line[1] = "stop"    -> cmd_stop(p)
      [] line[1] = "start"   -> cmd_start(p)
      [] line[1] = "quit"    -> [p EXCEPT !.cli.quit = TRUE]
      [] OTHER               -> p

-----------------------------------------------------------------------------
(* cli_latch_inputs: what came in is added to what is pending.             *)

Latch(c) ==
    LET add(pending, j) ==
            IF \/ Len(pending) >= RAFT_MAX_NODES
               \/ \E i \in 1..Len(pending) :
                     pending[i].id = j.id /\ pending[i].forwarded = j.forwarded
            THEN pending ELSE Append(pending, j)
    IN  [c EXCEPT !.pending_joins = FoldLeft(add, @, c.join_queue),
                  !.join_queue = << >>, !.fwd_cmd_queue = << >>]

-----------------------------------------------------------------------------
(* cli_dump_outputs.                                                       *)

\* Mutant: leaves as soon as it has asked to.
LeavesAtOnce(p) ==
    IF ~p.cli.leave_pending THEN p
    ELSE IF p.cli.rejoin = Nil THEN [p EXCEPT !.cli.quit = TRUE]
    ELSE [request_join_now(p, p.cli.rejoin) EXCEPT !.cli.rejoin = Nil,
                                                   !.cli.leave_pending = FALSE]

\* A node that was to leave has stopped.
AfterLeaving(p) ==
    IF ~p.cli.leave_pending \/ p.node.running THEN p
    ELSE IF p.cli.rejoin = Nil THEN [p EXCEPT !.cli.quit = TRUE]
    ELSE [request_join_now(p, p.cli.rejoin) EXCEPT !.cli.rejoin = Nil,
                                                   !.cli.leave_pending = FALSE]

\* Mutant: the introducer does not introduce itself.
FloodsOnly(p, j) ==
    IF j.forwarded # "ORIGINAL" THEN p
    ELSE FoldLeft(LAMBDA q, to : SendJoin(q, to, [j EXCEPT !.forwarded = "FORWARDED"]),
                  p, SetToSortSeq(p.cli.peers, <))

\* raft_tcp_transport_flood_join and _announce_self, or for a merge the own members.
Answer(p, j) ==
    LET flood(q, to) == SendJoin(q, to, [j EXCEPT !.forwarded = "FORWARDED"])
        flooded == IF j.forwarded = "ORIGINAL"
                   THEN FoldLeft(flood, p, SetToSortSeq(p.cli.peers, <)) ELSE p
    IN  IF j.forwarded \notin {"ORIGINAL", "FORWARDED"} THEN p
        ELSE IF j.cluster THEN SendMerge(flooded, j.id, "ANNOUNCE")
        ELSE SendJoin(flooded, j.id, Join(Self(p), "ANNOUNCE", FALSE, {}))

\* forward_merge_peers_to_local_members: the members of the other cluster, in this node's name.
PassOnMerge(p, j) ==
    LET local == SelectSeq(MemberList(p.node.config_state),
                           LAMBDA id : id \notin {Self(p), j.id} \cup j.members /\ id \in p.cli.peers)
    IN  FoldLeft(LAMBDA q, to : SendJoin(q, to, Join(Self(p), "ANNOUNCE", TRUE, j.members)),
                 p, local)

request_membership_union(p, j) ==
    LET c == p.node.config_state
        others == SetToSortSeq(j.members \ (c.old \cup c.new), <)
        union == Range(Capped(MemberList(c) \o others))
    IN  IF Cardinality(union) > Cardinality(c.old)
        THEN raft_node_request_membership_change(p, union) ELSE p

\* A merge never stays pending: the leader asks for the union, the others have done their part.
HandleMerge(p, j) ==
    LET learned == FoldLeft(learn_peer, p, SetToSortSeq(j.members, <))
        q == IF j.forwarded = "ANNOUNCE" THEN PassOnMerge(learned, j) ELSE Answer(learned, j)
    IN  IF IsLeader(q) THEN replicate_known_cluster_peers(request_membership_union(q, j)) ELSE q

\* One join request that is no announcement, up to where it is discarded or kept.
HandleJoin(p, j) ==
    LET q == learn_peer(Answer(p, j), j.id)
        members == q.node.config_state.old \cup q.node.config_state.new
    IN  IF j.id \in members \/ ~IsLeader(q) \/ Cardinality(Old(q)) >= RAFT_MAX_NODES THEN q
        ELSE replicate_known_cluster_peers(
                 raft_node_request_membership_change(q, Old(q) \cup {j.id}))

\* Only a join request waits for a leader.
Stays(p, j) ==
    /\ ~j.cluster /\ j.forwarded # "ANNOUNCE"
    /\ j.id \notin p.node.config_state.old \cup p.node.config_state.new
    /\ ~IsLeader(p)

\* The loop over pending_joins: what is done with moves the last one into its place.
RECURSIVE HandleJoins(_, _)
HandleJoins(p, i) ==
    LET pending == p.cli.pending_joins
        j == pending[i]
        q == IF j.cluster THEN HandleMerge(p, j)
             ELSE IF j.forwarded = "ANNOUNCE" THEN learn_peer(p, j.id)
             ELSE HandleJoin(p, j)
    IN  IF i > Len(pending) THEN p
        ELSE IF Stays(q, j)
        THEN HandleJoins([q EXCEPT !.cli.pending_joins[i].forwarded = "PENDING"], i + 1)
        ELSE HandleJoins([q EXCEPT !.cli.pending_joins =
                             Front([@ EXCEPT ![i] = Last(pending)])], i)

\* What followers have forwarded; a node that does not lead drops it.
HandleForwarded(p, c) ==
    CASE ~IsLeader(p)                      -> p
      [] c.op = "fwd_add"                  -> AddNode(p, c.value)
      [] c.op \in {"fwd_rm", "fwd_leave"}  -> RemoveNode(p, c.value)
      [] OTHER                             -> raft_node_submit_command(p, c)

cli_dump_outputs(p, forwarded) ==
    LET q == AfterLeaving(p)
    IN  IF q.cli.quit THEN q ELSE FoldLeft(HandleForwarded, HandleJoins(q, 1), forwarded)

-----------------------------------------------------------------------------
(* A tick of the command line.                                             *)

\* Processes that have quit refuse connections.
Arrives(c, frame) ==
    LET q == frame.queue
        room == IF q = "join_queue" THEN RAFT_MAX_NODES ELSE RAFT_MAX_QUEUE
    IN  IF c[frame.to].quit \/ Len(c[frame.to][q]) >= room THEN c
        ELSE [c EXCEPT ![frame.to][q] = Append(@, frame.item)]

\* The frames of out except the lost ones are stored by the listeners of their targets.
Transmit(c, out, losses) ==
    FoldLeft(LAMBDA d, i : IF i \in losses THEN d ELSE Arrives(d, out[i]),
             c, [i \in 1..Len(out) |-> i])

\* One tick, with the line that is typed or NoLine.  Only lines forward commands.
CliTick(n, line) ==
    /\ tick.node = Nil /\ ~cli[n].quit
    /\ \E refused \in {FALSE, line # NoLine} :
        LET start == [Process(n, refused) EXCEPT !.cli = Latch(@)]
        IN  \E p \in {cli_dump_outputs(dispatch(start, line), cli[n].fwd_cmd_queue)} :
            \E losses \in SUBSET (1..Len(p.out)) :
                /\ lost' = lost + Cardinality(losses) + (IF refused THEN 1 ELSE 0)
                /\ lost' <= MaxLost
                /\ cli' = Transmit([cli EXCEPT ![n] = p.cli], p.out, losses)
                /\ node' = [node EXCEPT ![n] = p.node]
                /\ disk' = [disk EXCEPT ![n] = p.disk]
    /\ UNCHANGED <<net, tick, crashes, calls>>

\* What the bounds leave to be typed at n.
Typeable(n) ==
    {line \in Lines[n] : Cardinality(typed) < MaxLines /\ <<n, line>> \notin typed}

Types(n) ==
    \E line \in Typeable(n) : CliTick(n, line) /\ typed' = typed \cup {<<n, line>>}

TypesNothing(n) == CliTick(n, NoLine) /\ UNCHANGED typed

-----------------------------------------------------------------------------
(* A tick of the engine: RaftCluster's, with the commands of the queue.    *)

\* Messages only go to nodes with a known address, from an enabled transport.
SendsWhatItCan == \A m \in net' \ net : cli[m.source].enabled /\ m.target \in cli[m.source].peers

LatchAndRowOf(n) ==
    LET latched(r) == FoldLeft(LAMBDA s, c : Latched(s, {}, <<c>>),
                               Latched(node[n], r, << >>), cli[n].cmd_queue)
    IN  /\ \E r \in Batches(n) : (cli[n].enabled \/ r = {}) /\ Transition(n, latched(r), r)
        /\ cli' = [cli EXCEPT ![n].cmd_queue = << >>]

\* The tick of a node that does not lead drops the commands even if it does nothing else.
DropCommands(n) ==
    /\ tick.node = Nil /\ node[n].running /\ ~node_is_leader(node[n])
    /\ cli[n].cmd_queue # << >>
    /\ cli' = [cli EXCEPT ![n].cmd_queue = << >>]
    /\ UNCHANGED vars

\* demo_apply: an applied peer_set registers the address (register_peer_from_app).
ApplyEntryOf(n) ==
    LET c == LogEntryAt(node[n], node[n].last_applied + 1).command
        ids == IF c.op = "app" THEN c.members \ {n} ELSE {}
    IN  /\ ApplyEntry(n)
        /\ cli' = [cli EXCEPT ![n].peers =
                      IF ids = {} THEN @ ELSE raft_tcp_transport_add_peer(@, CHOOSE id \in ids : TRUE)]

EngineTick(n) ==
    /\ ~cli[n].quit
    /\ \/ cli[n].enabled /\ LatchResponse(n) /\ UNCHANGED cli
       \/ LatchAndRowOf(n) \/ DropCommands(n) \/ ApplyEntryOf(n)
       \/ FinishTick(n) /\ UNCHANGED cli
    /\ SendsWhatItCan
    /\ UNCHANGED <<typed, lost>>

-----------------------------------------------------------------------------
Joiners == {n \in Server : JoinVia[n] # {}}

\* main: the processes have sent their join requests (request_join).
CliInit ==
    /\ Init
    /\ \E via \in [Joiners -> Server] :
        /\ \A n \in Joiners : via[n] \in JoinVia[n]
        /\ LET request(c, n) == Arrives(c, [to |-> via[n], queue |-> "join_queue",
                                            item |-> Join(n, "ORIGINAL", FALSE, {})])
           IN  cli = FoldLeft(request, [n \in Server |-> InitialCli(n)],
                              SetToSortSeq(Joiners, <))
    /\ typed = {} /\ lost = 0

Quiet == QuietTicks /\ UNCHANGED <<cli, typed, lost>>

CliNext ==
    \/ \E n \in Server :
        EngineTick(n) \/ TypesNothing(n) \/ Types(n)
    \/ Quiet

\* The command line of n has something to do.
CliWork(n) ==
    /\ tick.node = Nil /\ ~cli[n].quit
    /\ \/ cli[n].join_queue # << >> \/ cli[n].fwd_cmd_queue # << >>
       \/ cli[n].pending_joins # << >> /\ IsLeader(Process(n, FALSE))
       \/ cli[n].leave_pending /\ ~node[n].running

Connected(a, b) == cli[a].enabled /\ cli[b].enabled /\ b \in cli[a].peers

\* The engine of n has something to do, and does it: it receives if there is something.
EngineWork(n) ==
    /\ Latching(n) /\ ~cli[n].quit
    /\ \/ ~Settled(node[n]) \/ cli[n].cmd_queue # << >>
       \/ cli[n].enabled /\ Inbox(n) # {}

EngineWorks(n) ==
    \/ Receives(n)
    \/ Inbox(n) = {} /\ (Ticks(n) \/ cli'[n].cmd_queue # cli[n].cmd_queue)

\* Only these ever lead.
Candidates == {n \in Server : ElectionsFrom[n] # {}}

\* The runtime ticks the engine and the command line of every process forever, and a leader
\* whose heartbeats can reach a peer that can answer hears from it again and again: the
\* network does not lose every message.  Nothing is assumed about what is typed.
CliFairness ==
    /\ []<>(tick.node = Nil)
    /\ \A n \in Server :
        /\ []<>EngineWork(n) => []<><<EngineWorks(n)>>_cliVars
        /\ []<>CliWork(n) => []<><<TypesNothing(n)>>_cliVars
    /\ \A a \in Candidates : \A b \in Server \ {a} :
        []<>(MaySend(a, b) /\ node[b].running /\ Connected(a, b) /\ Connected(b, a))
            => []<><<Reaches("APPEND_ENTRIES_RESPONSE", b, a)>>_cliVars

CliSpec == CliInit /\ [][CliNext]_cliVars /\ CliFairness

-----------------------------------------------------------------------------
(* What the command line promises.                                         *)

AppliedTimes(n, c) == Cardinality({i \in 1..Len(node[n].app) : node[n].app[i] = c})

\* A command typed once is applied at most once by every node, whichever way it took through
\* the queues of two processes, and no address is replicated twice.
AppliedOnce ==
    \A n \in Server : \A i \in 1..Len(node[n].app) : AppliedTimes(n, node[n].app[i]) <= 1

\* A frame of m waits to be handled by n.
Announced(n, m) ==
    \E q \in {cli[n].join_queue, cli[n].pending_joins} : \E i \in 1..Len(q) : q[i].id = m

\* Members know each other's addresses, or are about to learn them, as soon as they know of
\* each other: the handshake of a join and the addresses in the log are always ahead of the
\* membership change, whoever was asked to introduce the joiner, unless a frame was lost.
MembersKnowEachOther ==
    \A n, m \in Server :
        lost = 0 /\ node_self_is_member(node[n]) /\ m \in Peers(node[n])
            => m \in cli[n].peers \/ Announced(n, m)

\* The members of n's configuration that hold the entry it comes from, or would if they had
\* not been told to join another cluster.
Stores(n) ==
    LET c == node[n].config_state
        Same(m) == /\ node_has_log_index(node[m], c.index)
                   /\ LogEntryAt(node[m], c.index) = LogEntryAt(node[n], c.index)
    IN  {m \in c.old : Same(m) \/ \E via \in Server : <<m, <<"join", via>>>> \in typed}

\* The operator stopped the node, quit its process, or asked for a merge, which may bring a
\* node back before it has seen its removal.
Overridden(n) ==
    \E t \in typed' : \/ t[2][1] = "merge"
                      \/ t[1] = n /\ t[2][1] \in {"stop", "quit"}

\* Leave makes a process exit or join elsewhere only when its node has been removed: it has
\* applied a configuration whose members are others (who may just be adding it again), which
\* a majority of them store, unless the operator overrides it: cli_dump_outputs takes any stop
\* for the removal.
LeavesWhenRemoved ==
    [][\A n \in Server :
        /\ cli[n].leave_pending /\ (cli'[n].quit \/ ~cli'[n].leave_pending)
        /\ ~Overridden(n)
        => /\ n \notin Old(Process(n, FALSE))
           /\ Cardinality(Stores(n)) >= member_majority(node[n].config_state.old)]_cliVars

\* j has asked the leader l to become a member.
Asked(l, j) ==
    \E q \in {cli[l].join_queue, cli[l].pending_joins} : \E i \in 1..Len(q) :
        q[i].id = j /\ q[i].forwarded # "ANNOUNCE" /\ ~q[i].cluster

\* Leader and joiner agree that it is a member, and can talk to each other.
Joined(l, j) ==
    /\ \A n \in {l, j} : j \in node[n].config_state.old /\ node[n].config_state.new = {}
    /\ Connected(l, j) /\ Connected(j, l)

\* A process has left or a node was stopped, which takes precedence over the join.
Leaving == \E n \in Server : cli[n].leave_pending \/ cli[n].quit \/ ~node[n].running

Introduced(l, j) ==
    /\ j \in cli[l].peers \/ Announced(l, j)
    /\ l \in cli[j].peers \/ Announced(j, l)

\* A request that has reached the leader makes the joiner a member, even if the node it was
\* sent to did not lead, unless the leader loses the lead, a node leaves, or a lost frame keeps
\* leader and joiner from knowing each other.
JoinCompletes ==
    \A l \in Candidates, j \in Joiners :
        node_is_leader(node[l]) /\ Asked(l, j) ~>
            \/ Joined(l, j) \/ ~node_is_leader(node[l]) \/ Leaving
            \/ lost > 0 /\ ~Introduced(l, j)
=============================================================================
