---------------------------- MODULE RaftCluster ----------------------------
(***************************************************************************)
(* Nodes of the C engine, their disks and the network between them.        *)
(*                                                                         *)
(* A tick of a node is latch_inputs, at most one row of RAFT_TRANSITIONS,  *)
(* dump_outputs (rxnet, which calls them, is external).  A node touches    *)
(* the network only when it latches and when its dump sends the outbox,    *)
(* and its disk only in the dump, so ticks of different nodes commute up   *)
(* to those two points: the variable tick lets one node at a time through  *)
(* its tick.  The latch and the row are one step; every AppendEntries      *)
(* response of a latch but its last one is a step before it.  The dump is  *)
(* part of that step too if it has nothing to apply and no crash can come  *)
(* between its writes; otherwise it has one step per entry to apply and a  *)
(* last one that drives the membership, compacts, saves and sends.         *)
(*                                                                         *)
(* The network delays, reorders and loses messages and, if Duplication,    *)
(* delivers them again.  A message that finds the outbox of its sender or  *)
(* the queue of its target full (RAFT_MAX_QUEUE) is a lost one.            *)
(***************************************************************************)
EXTENDS RaftNode

CONSTANTS
    ClientCommands,    \* commands clients may submit
    Memberships,       \* member lists an operator may request
    Rejoining,         \* nodes an operator may have join a cluster anew
    MaxEntries,        \* bound: clients submit nothing to a leader with this many entries
    ElectionsFrom,     \* bound: node n's election timer expires only in the terms ElectionsFrom[n]
    MaxCrashes,        \* bound: crashes of the whole run
    MaxApiCalls,       \* bound: stop, start and membership requests of the whole run
    MaxReceived,       \* bound: messages one latch receives
    MaxInFlight,       \* bound: messages in flight to one node
    Duplication        \* whether the network may deliver a message again

ASSUME BoundAssumption ==
    /\ ClientCommands \subseteq {c \in Command : c.op \in {"app", "set_maxlog"}}
    /\ Memberships \subseteq SUBSET Server /\ Rejoining \subseteq Server
    /\ MaxEntries \in Nat /\ ElectionsFrom \in [Server -> SUBSET Nat] /\ MaxCrashes \in Nat
    /\ MaxApiCalls \in Nat /\ MaxReceived \in Nat /\ MaxInFlight \in Nat
    /\ Duplication \in BOOLEAN

VARIABLES
    node,              \* the memory of each node
    disk,              \* the directory of each node
    net,               \* messages in flight
    tick,              \* the tick in progress
    crashes, calls     \* what the bounds count

vars == <<node, disk, net, tick, crashes, calls>>

\* No tick in progress; otherwise the node, whether it still latches or already dumps,
\* and the messages transport.recv gave it.
NoTick == [node |-> Nil, step |-> "latch", received |-> {}]

InTick(n, step) == tick.node = n /\ tick.step = step

Init ==
    /\ disk = [n \in Server |-> EmptyDisk]
    /\ node = [n \in Server |-> raft_node_init(n, EmptyDisk)]
    /\ net = {}
    /\ tick = NoTick
    /\ crashes = 0 /\ calls = 0

-----------------------------------------------------------------------------
(* Latch.  A stopped node receives nothing.                                *)

\* The node can receive: between ticks, or in its own latch.
Latching(n) == node[n].running /\ (tick.node = Nil \/ InTick(n, "latch"))

Inbox(n) == {m \in net : m.target = n} \ tick.received

IsResponse(m) == m.kind = "APPEND_ENTRIES_RESPONSE"

\* An AppendEntries response that another one will follow in the same latch.
LatchResponse(n) ==
    /\ Latching(n) /\ Cardinality(tick.received) + 1 < MaxReceived
    /\ \E m \in Inbox(n) :
        /\ IsResponse(m)
        /\ node' = [node EXCEPT ![n] = node_handle_append_entries_response(@, m)]
        /\ tick' = [node |-> n, step |-> "latch", received |-> tick.received \cup {m}]
    /\ UNCHANGED <<disk, net, crashes, calls>>

\* What else the latch may receive.  The messages that are not responses fill the
\* pending arrays, which the next latch empties: as the network reorders, any message
\* of a kind may be the first of its array, the only one that is ever handled.
Batches(n) ==
    IF ~Latching(n) THEN {}
    ELSE {r \in SUBSET Inbox(n) :
             /\ Cardinality(tick.received \cup r) <= MaxReceived
             /\ Cardinality({m \in r : IsResponse(m)}) <= 1}

\* A client command raft_node_submit_command accepted for a leader, or none; a node
\* that does not lead receives and drops them.
Submitted(n) ==
    {<< >>} \cup {<<c>> : c \in {d \in ClientCommands :
                                  /\ node_is_leader(node[n])
                                  /\ node_last_log_index(node[n]) < MaxEntries}}

\* The node after the latch: the response is handled, then the command is appended.
Latched(s, r, commands) ==
    LET responses == {m \in r : IsResponse(m)}
        t == IF responses = {} THEN s
             ELSE node_handle_append_entries_response(s, CHOOSE m \in responses : TRUE)
    IN  IF commands # << >> /\ node_is_leader(t) /\ t.log_count < RAFT_MAX_LOG
        THEN AppendAndBroadcast(t, Head(commands))
        ELSE t

-----------------------------------------------------------------------------
(* Dump.                                                                   *)

\* The node after node_maybe_drive_membership, and after compaction.
Compacted(s) ==
    LET t == node_maybe_drive_membership(s)
    IN  IF Compacts(t) THEN node_do_compact(t) ELSE t

\* The disk after compaction, which made t of s, wrote snapshot.bin.
DiskAfterCompaction(d, s, t) ==
    IF t.snapshot_last_included_index = s.snapshot_last_included_index THEN d
    ELSE raft_storage_save_snapshot(d, t, t.snapshot_last_included_index,
                                    t.snapshot_last_included_term)

\* What the network may keep of what a dump sends: any of it may be lost.
Accepted(left, out) ==
    {kept \in SUBSET out :
        \A m \in kept :
            Cardinality({q \in left \cup kept : q.target = m.target}) <= MaxInFlight}

\* The messages of the tick leave the network, unless it delivers them again.
Deliver(received, out) ==
    \E left \in {net \ received} \cup (IF Duplication THEN {net} ELSE {}) :
        \E sent \in Accepted(left, out) : net' = left \cup sent

\* The dump of node n, now s, once nothing is left to apply.
FinishDump(n, s, received) ==
    LET t == Compacted(s)
        d == DiskAfterCompaction(disk[n], s, t)
    IN  /\ disk' = [disk EXCEPT ![n] = IF t.persist_dirty THEN raft_storage_node_save(d, t)
                                       ELSE d]
        /\ node' = [node EXCEPT ![n] = [t EXCEPT !.persist_dirty = FALSE, !.outbox = {}]]
        /\ Deliver(received, t.outbox)
        /\ tick' = NoTick
        /\ UNCHANGED <<crashes, calls>>

\* The dump of a leader first advances its commit index.
Advanced(s) == IF node_is_leader(s) THEN node_advance_commit_index(s) ELSE s

\* Entries to apply one by one, or files to write with a crash between them.
HasSteps(s) ==
    \/ s.last_applied < s.commit_index
    \/ crashes < MaxCrashes /\ Compacted(s).persist_dirty

\* The dump that follows the row of n's tick.
Dump(n, s, r) ==
    LET t == Advanced(s)
        received == tick.received \cup r
    IN  IF HasSteps(t)
        THEN /\ node' = [node EXCEPT ![n] = t]
             /\ tick' = [node |-> n, step |-> "dump", received |-> received]
             /\ UNCHANGED <<disk, net, crashes, calls>>
        ELSE FinishDump(n, t, received)

ApplyEntry(n) ==
    /\ InTick(n, "dump") /\ node[n].last_applied < node[n].commit_index
    /\ node' = [node EXCEPT ![n] = ApplyNext(@)]
    /\ UNCHANGED <<disk, net, tick, crashes, calls>>

AllApplied(n) == InTick(n, "dump") /\ node[n].last_applied >= node[n].commit_index

FinishTick(n) == AllApplied(n) /\ FinishDump(n, node[n], tick.received)

-----------------------------------------------------------------------------
(* The transition table, for the node s after the latch and the messages r *)
(* it received.  Rows are tried in order; a row the timers guard may fire  *)
(* whenever the rest of its guard holds, a row below it assumes that its   *)
(* timer had not expired.                                                  *)

guard_timeout_expired(s) == s.running /\ node_self_is_member(s)

Pending(r, kind) == {m \in r : m.kind = kind}

BecomeCandidate(n, s, r) ==
    /\ s.role = "FOLLOWER" /\ guard_timeout_expired(s)
    /\ s.current_term \in ElectionsFrom[n]
    /\ Dump(n, action_become_candidate(s), r)

BackToFollower(n, s, r) ==
    /\ s.role = "CANDIDATE" /\ guard_timeout_expired(s)
    /\ Dump(n, action_back_to_follower_due_to_timeout(s), r)

BecomeLeader(n, s, r) ==
    /\ s.role = "CANDIDATE" /\ guard_received_majority_votes(s)
    /\ Dump(n, action_become_leader(s), r)

\* The rows of a candidate below guard_received_majority_votes.
NotElected(s) == s.role = "CANDIDATE" => ~guard_received_majority_votes(s)

\* Mutant: a leader takes another leader's entries and goes on leading.
AppendKeepsRole(n, s, r) ==
    \E m \in Pending(r, "APPEND_ENTRIES") : Dump(n, node_handle_append_entries(s, m), r)

\* All three roles end as followers.
HandleAppendEntries(n, s, r) ==
    /\ NotElected(s)
    /\ \E m \in Pending(r, "APPEND_ENTRIES") :
        Dump(n, [node_handle_append_entries(s, m) EXCEPT !.role = "FOLLOWER"], r)

\* guard_has_higher_term_vote_request: candidates and leaders step down.
HandleHigherVoteRequest(n, s, r) ==
    /\ NotElected(s)
    /\ Pending(r, "APPEND_ENTRIES") = {}
    /\ \E m \in Pending(r, "REQUEST_VOTE") :
        /\ m.term > s.current_term
        /\ Dump(n, [node_handle_vote_request(s, m) EXCEPT !.role = "FOLLOWER"], r)

\* Otherwise a follower or candidate answers and a leader drops the request.
HandleVoteRequest(n, s, r) ==
    /\ NotElected(s)
    /\ Pending(r, "APPEND_ENTRIES") = {}
    /\ \E m \in Pending(r, "REQUEST_VOTE") :
        /\ m.term <= s.current_term
        /\ Dump(n, IF s.role = "LEADER" THEN s ELSE node_handle_vote_request(s, m), r)

\* Only a candidate looks at the vote.
HandleVote(n, s, r) ==
    /\ NotElected(s)
    /\ Pending(r, "APPEND_ENTRIES") = {} /\ Pending(r, "REQUEST_VOTE") = {}
    /\ \E m \in Pending(r, "REQUEST_VOTE_RESPONSE") :
        Dump(n, IF s.role = "CANDIDATE" THEN node_handle_vote_response(s, m) ELSE s, r)

NothingPending(r) == \A m \in r : IsResponse(m)

SendHeartbeat(n, s, r) ==
    /\ s.role = "LEADER" /\ NothingPending(r)
    /\ Dump(n, node_broadcast_append_entries(s), r)

\* A dump with nothing to do.
Settled(s) ==
    /\ ~s.persist_dirty /\ s.outbox = {} /\ s.last_applied >= s.commit_index
    /\ Compacted(Advanced(s)) = s

\* No row fires.  The tick that also receives nothing and leaves nothing to dump changes
\* nothing: it is a stuttering step, here or in QuietTicks.
NoTransition(n, s, r) ==
    /\ NotElected(s) /\ NothingPending(r)
    /\ tick.received \cup r # {} \/ ~Settled(s)
    /\ Dump(n, s, r)

\* Every node is stopped, so that its latch and dump return at once, or has nothing to do.
QuietTicks ==
    /\ tick.node = Nil
    /\ \A n \in Server : node[n].running => Settled(node[n])
    /\ UNCHANGED vars

-----------------------------------------------------------------------------
(* Crashes: the process dies and is started again from the files.          *)

\* Mutant: the dump sends before it saves.
RebootAfterSending(n, d) ==
    /\ crashes < MaxCrashes
    /\ crashes' = crashes + 1
    /\ disk' = [disk EXCEPT ![n] = d]
    /\ node' = [node EXCEPT ![n] = raft_node_init(n, d)]
    /\ Deliver(tick.received, node[n].outbox)
    /\ tick' = NoTick
    /\ UNCHANGED calls

\* What the dead process had received is gone.
Reboot(n, d) ==
    /\ crashes < MaxCrashes
    /\ crashes' = crashes + 1
    /\ disk' = [disk EXCEPT ![n] = d]
    /\ node' = [node EXCEPT ![n] = raft_node_init(n, d)]
    /\ Deliver(tick.received, {})
    /\ tick' = NoTick
    /\ UNCHANGED calls

\* Between ticks, or anywhere in a tick before the dump writes a file.
Crash(n) == tick.node \in {Nil, n} /\ Reboot(n, disk[n])

\* In the last step of the dump: after snapshot.bin was replaced, before meta.txt; after
\* meta.txt, before log.txt; after all files, before anything is sent.
CrashAfterSnapshot(n) ==
    LET t == Compacted(node[n])
    IN  /\ AllApplied(n)
        /\ t.snapshot_last_included_index > node[n].snapshot_last_included_index
        /\ Reboot(n, DiskAfterCompaction(disk[n], node[n], t))

CrashAfterMeta(n) ==
    LET t == Compacted(node[n])
    IN  /\ AllApplied(n) /\ t.persist_dirty
        /\ Reboot(n, [DiskAfterCompaction(disk[n], node[n], t) EXCEPT !.meta = write_meta(t)])

CrashAfterSave(n) ==
    LET t == Compacted(node[n])
    IN  /\ AllApplied(n) /\ t.persist_dirty
        /\ Reboot(n, raft_storage_node_save(DiskAfterCompaction(disk[n], node[n], t), t))

-----------------------------------------------------------------------------
(* The application's calls, between ticks.  A stop in the middle of a tick *)
(* drops what the tick received and changed: a stop before it, with those  *)
(* messages lost.                                                          *)

Calls(n) ==
    /\ tick.node = Nil /\ calls < MaxApiCalls
    /\ calls' = calls + 1

Stop(n) ==
    /\ Calls(n) /\ node[n].running
    /\ node' = [node EXCEPT ![n] = raft_node_stop(@)]
    /\ UNCHANGED <<disk, net, tick, crashes>>

Start(n) ==
    /\ Calls(n) /\ ~node[n].running
    /\ node' = [node EXCEPT ![n] = raft_node_start(@, disk[n])]
    /\ UNCHANGED <<disk, net, tick, crashes>>

\* An empty list is refused, but it has already replaced the requested members.
RequestMembershipChange(n) ==
    /\ Calls(n) /\ node_is_leader(node[n])
    /\ \E members \in Memberships :
        node' = [node EXCEPT ![n].requested_membership = members,
                             ![n].requested_membership_pending = @ \/ members # {}]
    /\ UNCHANGED <<disk, net, tick, crashes>>

\* The callers of raft_node_reset_for_join also reset the application.
ResetForJoin(n) ==
    /\ Calls(n) /\ n \in Rejoining
    /\ LET s == raft_node_reset_for_join(node[n])
       IN  /\ node' = [node EXCEPT ![n] = [s EXCEPT !.app = << >>]]
           /\ disk' = [disk EXCEPT ![n] = raft_storage_node_save(@, s)]
    /\ UNCHANGED <<net, tick, crashes>>

-----------------------------------------------------------------------------
Transition(n, s, r) ==
    \/ BecomeCandidate(n, s, r) \/ BackToFollower(n, s, r) \/ BecomeLeader(n, s, r)
    \/ HandleAppendEntries(n, s, r) \/ HandleHigherVoteRequest(n, s, r)
    \/ HandleVoteRequest(n, s, r) \/ HandleVote(n, s, r)
    \/ SendHeartbeat(n, s, r) \/ NoTransition(n, s, r)

LatchAndRow(n) ==
    \E r \in Batches(n), commands \in Submitted(n) :
        Transition(n, Latched(node[n], r, commands), r)

Tick(n) ==
    LatchResponse(n) \/ LatchAndRow(n) \/ ApplyEntry(n) \/ FinishTick(n)

Fail(n) == Crash(n) \/ CrashAfterSnapshot(n) \/ CrashAfterMeta(n) \/ CrashAfterSave(n)

Call(n) == Stop(n) \/ Start(n) \/ RequestMembershipChange(n) \/ ResetForJoin(n)

Next ==
    \/ \E n \in Server : Tick(n) \/ Fail(n) \/ Call(n)
    \/ QuietTicks

Spec == Init /\ [][Next]_vars

TypeOK ==
    /\ node \in [Server -> Node]
    /\ disk \in [Server -> Disk]
    /\ net \subseteq Message
    /\ tick \in [node : MaybeServer, step : {"latch", "dump"}, received : SUBSET Message]
    /\ crashes \in 0..MaxCrashes /\ calls \in 0..MaxApiCalls
=============================================================================
