--------------------------- MODULE RaftVoteProofs ---------------------------
(***************************************************************************)
(* Votes survive crashes, for any number of nodes, entries, crashes and    *)
(* API calls, as long as no node is made to forget its state on purpose    *)
(* (no --join, no raft_node_reset_for_join).                               *)
(*                                                                         *)
(* VotesAreDurable is not inductive: a vote passes from a handler to the   *)
(* outbox, from memory to meta.txt, and from the outbox to the network.    *)
(* VoteInv follows it: the node is never behind its disk and equal to it   *)
(* unless persist_dirty is set; a grant in the outbox is the node's vote;  *)
(* outside its tick a node has no outbox.  Every handler of the engine     *)
(* only Moves the node: that is shown once per handler, and composes.      *)
(***************************************************************************)
EXTENDS RaftProperties, RaftTypeProofs

IsGrant(m) == m.kind = "REQUEST_VOTE_RESPONSE" /\ m.granted

\* x and y are nodes or contents of meta.txt.
SameVote(x, y) == x.current_term = y.current_term /\ x.voted_for = y.voted_for

Follows(x, y) ==
    \/ x.current_term > y.current_term
    \/ x.current_term = y.current_term /\ y.voted_for \in {Nil, x.voted_for}

Backs(x, m) ==
    /\ m.target # Nil
    /\ \/ x.current_term > m.term
       \/ x.current_term = m.term /\ x.voted_for = m.target

\* What s has queued in t: its own messages, and votes that t has cast.
Queued(t, m) == m.source = t.id /\ (IsGrant(m) => Backs(t, m))

Moves(s, t) ==
    /\ t.id = s.id
    /\ Follows(t, s)
    /\ ~t.persist_dirty => ~s.persist_dirty /\ SameVote(t, s)
    /\ \A m \in t.outbox : m \in s.outbox \/ Queued(t, m)

VoteInv ==
    /\ \A n \in Server :
         /\ node[n].id = n
         /\ Follows(node[n], disk[n].meta)
         /\ ~node[n].persist_dirty => SameVote(node[n], disk[n].meta)
         /\ \A m \in node[n].outbox : Queued(node[n], m)
         /\ tick.node # n => node[n].outbox = {}
    /\ \A m \in net : m.source \in Server /\ (IsGrant(m) => Backs(disk[m.source].meta, m))
-----------------------------------------------------------------------------
\* Doing nothing moves the node.
LEMMA MovesReflexive ==
    ASSUME NEW s \in Node
    PROVE  Moves(s, s)
BY NodeFields DEF Moves, Follows, SameVote

\* Who follows a backer of a vote backs it.
LEMMA BacksFollows ==
    ASSUME NEW x, NEW y, NEW m, Follows(y, x), Backs(x, m), m.term \in Nat,
           x.current_term \in Nat, y.current_term \in Nat
    PROVE  Backs(y, m)
BY DEF Follows, Backs

\* Following is transitive.
LEMMA FollowsTransitive ==
    ASSUME NEW x, NEW y, NEW z, Follows(y, x), Follows(z, y),
           x.current_term \in Nat, y.current_term \in Nat, z.current_term \in Nat
    PROVE  Follows(z, x)
BY DEF Follows

\* What was queued stays backed as the node moves on.
LEMMA QueuedStays ==
    ASSUME NEW s \in Node, NEW t \in Node, Moves(s, t), NEW m \in Message, Queued(s, m)
    PROVE  Queued(t, m)
<1>1. IsGrant(m) => Backs(t, m)
  BY MessageFields, NodeFields, BacksFollows DEF Moves, Queued
<1> QED
  BY <1>1, Zenon DEF Moves, Queued

\* Handlers that move the node compose.
LEMMA MovesTransitive ==
    ASSUME NEW s \in Node, NEW t \in Node, NEW u \in Node, Moves(s, t), Moves(t, u)
    PROVE  Moves(s, u)
<1>1. u.id = s.id
  BY Zenon DEF Moves
<1>2. Follows(u, s)
  BY NodeFields, FollowsTransitive DEF Moves
<1>3. ~u.persist_dirty => ~s.persist_dirty /\ SameVote(u, s)
  BY Zenon DEF Moves, SameVote
<1>4. ASSUME NEW m \in u.outbox PROVE m \in s.outbox \/ Queued(u, m)
  <2>1. m \in t.outbox \/ Queued(u, m)
    BY Zenon DEF Moves
  <2>2. ASSUME m \in t.outbox, Queued(t, m) PROVE Queued(u, m)
    BY <2>2, NodeFields, QueuedStays
  <2> QED
    BY <2>1, <2>2, Zenon DEF Moves
<1> QED
  BY <1>1, <1>2, <1>3, <1>4, Zenon DEF Moves

\* t differs from s in nothing the vote depends on.
Keeps(s, t) ==
    /\ t.id = s.id /\ SameVote(t, s)
    /\ ~t.persist_dirty => ~s.persist_dirty
    /\ \A m \in t.outbox : m \in s.outbox \/ (m.source = s.id /\ ~IsGrant(m))

\* A handler that keeps the vote moves the node.
LEMMA KeepsMoves ==
    ASSUME NEW s \in Node, NEW t \in Node, Keeps(s, t)
    PROVE  Moves(s, t)
<1>1. Follows(t, s)
  BY DEF Keeps, Follows, SameVote
<1> QED
  BY <1>1, Zenon DEF Keeps, Moves, Queued

\* An AppendEntries message is its sender's and grants nothing.
LEMMA AppendEntriesForKind ==
    ASSUME NEW s, NEW p
    PROVE  /\ AppendEntriesFor(s, p).source = s.id
           /\ ~IsGrant(AppendEntriesFor(s, p))
BY DEF AppendEntriesFor, ZeroMessage, IsGrant

\* node_broadcast_append_entries keeps the vote.
LEMMA BroadcastKeeps ==
    ASSUME NEW s \in Node
    PROVE  Keeps(s, node_broadcast_append_entries(s))
<1> DEFINE t == node_broadcast_append_entries(s)
<1>1. /\ t.id = s.id /\ t.current_term = s.current_term /\ t.voted_for = s.voted_for
      /\ t.persist_dirty = s.persist_dirty
      /\ t.outbox = s.outbox \cup {AppendEntriesFor(s, p) : p \in Peers(s)}
  BY DEF node_broadcast_append_entries, Node
<1> HIDE DEF t
<1>2. \A m \in t.outbox : m \in s.outbox \/ (m.source = s.id /\ ~IsGrant(m))
  BY <1>1, AppendEntriesForKind, Zenon
<1> QED
  BY <1>1, <1>2, Zenon DEF Keeps, SameVote, t

\* node_advance_commit_index keeps the vote.
LEMMA AdvanceCommitKeeps ==
    ASSUME NEW s \in Node
    PROVE  Keeps(s, node_advance_commit_index(s))
<1>1. PICK c : \/ node_advance_commit_index(s) = s
               \/ node_advance_commit_index(s) =
                    [s EXCEPT !.commit_index = c, !.persist_dirty = TRUE]
  BY Zenon DEF node_advance_commit_index
<1>2. Keeps(s, s)
  BY DEF Keeps, SameVote
<1>3. Keeps(s, [s EXCEPT !.commit_index = c, !.persist_dirty = TRUE])
  BY DEF Keeps, SameVote, Node
<1> QED
  BY <1>1, <1>2, <1>3

\* Appending and broadcasting a command moves the node.
LEMMA AppendAndBroadcastMoves ==
    ASSUME NEW s \in Node, NEW c \in Command, s.log_count < RAFT_MAX_LOG
    PROVE  Moves(s, AppendAndBroadcast(s, c))
<1> DEFINE t == Appended(s, c)
<1>1. t \in Node
  BY AppendedType
<1>2. Keeps(s, t)
  BY DEF Appended, Keeps, SameVote, Node
<1> HIDE DEF t
<1>3. Moves(s, t) /\ Moves(t, node_broadcast_append_entries(t))
  BY <1>1, <1>2, KeepsMoves, BroadcastKeeps, BroadcastType
<1> QED
  BY <1>1, <1>3, MovesTransitive, BroadcastType, Zenon DEF AppendAndBroadcast, t

\* A message that is not a granted vote.
LEMMA QueueKeeps ==
    ASSUME NEW s \in Node, NEW m \in Message, m.source = s.id, ~IsGrant(m)
    PROVE  Keeps(s, node_queue_message(s, m))
<1> DEFINE t == node_queue_message(s, m)
<1>1. /\ t.id = s.id /\ t.current_term = s.current_term /\ t.voted_for = s.voted_for
      /\ t.persist_dirty = s.persist_dirty
      /\ t.outbox = s.outbox \cup {m}
  BY DEF node_queue_message, Node
<1> HIDE DEF t
<1>2. \A q \in t.outbox : q \in s.outbox \/ (q.source = s.id /\ ~IsGrant(q))
  BY <1>1, Zenon
<1> QED
  BY <1>1, <1>2, Zenon DEF Keeps, SameVote, t

\* node_handle_term_update moves the node: a new term has no vote and is marked dirty.
LEMMA TermUpdateMoves ==
    ASSUME NEW s \in Node, NEW m \in Message
    PROVE  Moves(s, node_handle_term_update(s, m)) /\ node_handle_term_update(s, m).id = s.id
<1> DEFINE t == [s EXCEPT !.current_term = m.term, !.voted_for = Nil, !.leader_id = Nil,
                          !.persist_dirty = TRUE]
<1>1. CASE m.term > s.current_term
  <2>1. t.id = s.id /\ t.current_term = m.term /\ t.persist_dirty /\ t.outbox = s.outbox
    BY DEF Node
  <2>2. Moves(s, t)
    <3> HIDE DEF t
    <3> QED
      BY <1>1, <2>1, Zenon DEF Moves, Follows
  <2> QED
    BY <1>1, <2>1, <2>2, Zenon DEF node_handle_term_update
<1>2. CASE ~(m.term > s.current_term)
  BY <1>2, MovesReflexive, Zenon DEF node_handle_term_update
<1> QED
  BY <1>1, <1>2

\* node_handle_vote_request moves the node: the vote it queues is the one it marks dirty.
LEMMA VoteRequestMoves ==
    ASSUME NEW s \in Node, NEW m \in Message, m.source # Nil
    PROVE  Moves(s, node_handle_vote_request(s, m))
<1> DEFINE t == node_handle_term_update(s, m)
           w == [t EXCEPT !.voted_for = m.source, !.persist_dirty = TRUE]
           v == IF GrantsVote(t, m) THEN w ELSE t
           response == [ZeroMessage EXCEPT
                          !.kind = "REQUEST_VOTE_RESPONSE", !.term = t.current_term,
                          !.granted = GrantsVote(t, m), !.source = s.id, !.target = m.source]
           u == node_queue_message(v, response)
<1>1. t \in Node /\ Moves(s, t) /\ t.id = s.id
  BY TermUpdateType, TermUpdateMoves
<1>2. w \in Node
  <2> HIDE DEF t
  <2> QED
    BY <1>1, MessageFields, Zenon DEF Node
<1>3. /\ w.id = t.id /\ w.current_term = t.current_term /\ w.voted_for = m.source
      /\ w.persist_dirty /\ w.outbox = t.outbox
  <2> HIDE DEF t
  <2> QED
    BY <1>1 DEF Node
<1>4. /\ response.source = s.id /\ response.target = m.source
      /\ response.term = t.current_term /\ response.granted = GrantsVote(t, m)
  <2> HIDE DEF t
  <2> QED
    BY DEF ZeroMessage
<1>5. u = node_handle_vote_request(s, m)
  BY Zenon DEF node_handle_vote_request
<1> HIDE DEF t, w, response
<1>6. v \in Node
  BY <1>1, <1>2
<1>7. /\ v.id = s.id
      /\ v.current_term = t.current_term
      /\ v.outbox = t.outbox
      /\ GrantsVote(t, m) => v.voted_for = m.source /\ v.persist_dirty
      /\ ~GrantsVote(t, m) => v = t
  BY <1>1, <1>3, Zenon
<1>8. Moves(t, v)
  <2>1. CASE GrantsVote(t, m)
    <3>1. t.voted_for \in {Nil, v.voted_for}
      BY <1>7, <2>1, Zenon DEF GrantsVote
    <3> QED
      BY <1>1, <1>7, <2>1, <3>1, Zenon DEF Moves, Follows
  <2>2. CASE ~GrantsVote(t, m)
    BY <1>1, <1>7, <2>2, MovesReflexive
  <2> QED
    BY <2>1, <2>2
<1>9. Moves(s, v)
  BY <1>1, <1>6, <1>8, MovesTransitive
<1> HIDE DEF v
<1>10. /\ u.id = v.id /\ u.current_term = v.current_term /\ u.voted_for = v.voted_for
       /\ u.persist_dirty = v.persist_dirty /\ u.outbox = v.outbox \cup {response}
  BY <1>6 DEF node_queue_message, Node
<1> HIDE DEF u
<1>11. IsGrant(response) => Backs(u, response)
  BY <1>4, <1>7, <1>10, Zenon DEF IsGrant, Backs
<1>12. u \in Node
  BY <1>5, VoteRequestType
<1>13. Moves(v, u)
  BY <1>4, <1>7, <1>10, <1>11, Zenon DEF Moves, Follows, SameVote, Queued
<1> QED
  BY <1>5, <1>6, <1>9, <1>12, <1>13, MovesTransitive

\* node_handle_append_entries moves the node.
LEMMA AppendEntriesMoves ==
    ASSUME NEW s \in Node, NEW m \in Message
    PROVE  Moves(s, node_handle_append_entries(s, m))
<1> DEFINE t  == node_handle_term_update(s, m)
           l  == [t EXCEPT !.leader_id = m.source]
           ok == m.term = t.current_term /\ PrevMatches(l, m)
           u  == IF m.term # t.current_term THEN t
                 ELSE IF ok THEN node_append_entries_from_leader(l, m) ELSE l
           response == [ZeroMessage EXCEPT
                          !.kind = "APPEND_ENTRIES_RESPONSE", !.term = u.current_term,
                          !.success = ok, !.match_index = node_last_log_index(u),
                          !.source = s.id, !.target = m.source]
           v == node_queue_message(u, response)
<1>1. t \in Node /\ Moves(s, t) /\ t.id = s.id
  BY TermUpdateType, TermUpdateMoves
<1>2. l \in Node /\ Keeps(t, l)
  <2> HIDE DEF t
  <2>1. l \in Node
    BY <1>1, MessageFields, Zenon DEF Node
  <2>2. Keeps(t, l)
    BY <1>1 DEF Keeps, SameVote, Node
  <2> QED
    BY <2>1, <2>2
<1>3. ASSUME ok
      PROVE  /\ node_append_entries_from_leader(l, m) \in Node
             /\ Moves(l, node_append_entries_from_leader(l, m))
  <2> HIDE DEF l
  <2> DEFINE e == MergeEntries(l, m)
             f == UpdateCommit(e, m, ReplacesApplied(l, m))
  <2>1. e \in Node /\ f \in Node
    BY <1>2, <1>3, MergeType, UpdateCommitType
  <2>2. Keeps(l, e)
    BY <1>2 DEF MergeEntries, Keeps, SameVote, Node
  <2> HIDE DEF e
  <2>3. Keeps(e, f)
    BY <2>1 DEF UpdateCommit, Keeps, SameVote, Node
  <2> HIDE DEF f
  <2>4. Moves(l, f)
    BY <1>2, <2>1, <2>2, <2>3, KeepsMoves, MovesTransitive
  <2> QED
    BY <2>1, <2>4, Zenon DEF node_append_entries_from_leader, e, f
<1>4. u \in Node /\ Moves(t, u)
  <2> HIDE DEF t, l
  <2>1. Moves(t, l) /\ Moves(t, t)
    BY <1>1, <1>2, KeepsMoves, MovesReflexive
  <2>2. ASSUME ok PROVE Moves(t, node_append_entries_from_leader(l, m))
    BY <1>1, <1>2, <1>3, <2>1, <2>2, MovesTransitive
  <2> QED
    BY <1>1, <1>2, <1>3, <2>1, <2>2, Zenon
<1>5. response \in Message /\ response.source = s.id /\ ~IsGrant(response)
  <2>1. ok \in BOOLEAN
    BY DEF PrevMatches
  <2> HIDE DEF u, ok
  <2>2. u.current_term \in Nat /\ node_last_log_index(u) \in Nat /\ s.id \in MaybeServer
    BY <1>4, NodeFields, LogIndexTypes DEF MaybeServer
  <2>3. response \in Message
    BY <2>1, <2>2, MessageFields, ZeroTypes, Zenon DEF Message, MessageKind
  <2>4. response.source = s.id /\ ~IsGrant(response)
    BY DEF ZeroMessage, IsGrant
  <2> QED
    BY <2>3, <2>4
<1>6. v = node_handle_append_entries(s, m)
  BY Zenon DEF node_handle_append_entries
<1> HIDE DEF t, u, response
<1>7. v \in Node /\ u.id = s.id
  BY <1>1, <1>4, <1>5, QueueType, Zenon DEF Moves
<1>8. Moves(u, v)
  BY <1>4, <1>5, <1>7, QueueKeeps, KeepsMoves
<1> HIDE DEF v
<1>9. Moves(s, u)
  BY <1>1, <1>4, MovesTransitive
<1> QED
  BY <1>4, <1>6, <1>7, <1>8, <1>9, MovesTransitive

\* node_handle_vote_response moves the node.
LEMMA VoteResponseMoves ==
    ASSUME NEW s \in Node, NEW m \in Message
    PROVE  Moves(s, node_handle_vote_response(s, m))
<1> DEFINE t == node_handle_term_update(s, m)
           u == [t EXCEPT !.votes_received = @ \cup {m.source}]
<1>1. t \in Node /\ Moves(s, t)
  BY TermUpdateType, TermUpdateMoves
<1>2. u \in Node /\ Moves(t, u)
  <2> HIDE DEF t
  <2>1. t.votes_received \cup {m.source} \in SUBSET MaybeServer
    BY <1>1, NodeFields, MessageFields
  <2>2. u \in Node
    BY <1>1, <2>1, Zenon DEF Node
  <2>3. Keeps(t, u)
    BY <1>1 DEF Keeps, SameVote, Node
  <2> QED
    BY <1>1, <2>2, <2>3, KeepsMoves
<1> HIDE DEF t, u
<1>3. Moves(s, u)
  BY <1>1, <1>2, MovesTransitive
<1> QED
  BY <1>1, <1>3, Zenon DEF node_handle_vote_response, t, u

\* node_handle_append_entries_response moves the node.
LEMMA AppendEntriesResponseMoves ==
    ASSUME NEW s \in Node, NEW m \in Message
    PROVE  Moves(s, node_handle_append_entries_response(s, m))
<1> DEFINE t == node_handle_term_update(s, m)
           k == node_peer_index(t, m.source)
           a == Acknowledged(t, k, m.match_index)
           b == BackedOff(t, k)
<1>1. t \in Node /\ Moves(s, t)
  BY TermUpdateType, TermUpdateMoves
<1> HIDE DEF t
<1>2. ASSUME k \in 1..RAFT_MAX_PEERS
      PROVE  /\ Moves(s, node_advance_commit_index(a))
             /\ Moves(s, node_send_append_entries_to(b, m.source))
  <2>1. m.source \in Server
    BY <1>1, <1>2, PeerIsServer
  <2> HIDE DEF k
  <2>2. a \in Node /\ b \in Node
    BY <1>1, <1>2, MessageFields, AcknowledgedType, BackedOffType
  <2>3. Keeps(t, a) /\ Keeps(t, b)
    BY <1>1 DEF Acknowledged, BackedOff, Keeps, SameVote, Node
  <2> HIDE DEF a, b
  <2>4. Moves(s, a) /\ Moves(s, b)
    BY <1>1, <2>2, <2>3, KeepsMoves, MovesTransitive
  <2>5. Moves(s, node_advance_commit_index(a))
    BY <2>2, <2>4, AdvanceCommitType, AdvanceCommitKeeps, KeepsMoves, MovesTransitive
  <2>6. Keeps(b, node_send_append_entries_to(b, m.source))
    BY <2>1, <2>2, AppendEntriesForType, AppendEntriesForKind, QueueKeeps
       DEF node_send_append_entries_to
  <2>7. node_send_append_entries_to(b, m.source) \in Node
    BY <2>1, <2>2, AppendEntriesForType, QueueType DEF node_send_append_entries_to
  <2>8. Moves(s, node_send_append_entries_to(b, m.source))
    BY <2>2, <2>4, <2>6, <2>7, KeepsMoves, MovesTransitive
  <2> QED
    BY <2>5, <2>8
<1> QED
  BY <1>1, <1>2, Zenon DEF node_handle_append_entries_response, t

-----------------------------------------------------------------------------
\* Applying a command, internal or not, keeps the vote.
LEMMA ApplyCommandKeeps ==
    ASSUME NEW s \in Node, NEW c \in Command
    PROVE  Keeps(s, node_apply_command(s, c))
<1>1. Keeps(s, s)
  BY DEF Keeps, SameVote
<1>2. Keeps(s, ApplySetMaxlog(s, c))
  BY <1>1 DEF ApplySetMaxlog, Keeps, SameVote, Node
<1>3. Keeps(s, ApplyEnterJoint(s, c))
  BY <1>1 DEF ApplyEnterJoint, Keeps, SameVote, Node
<1>4. Keeps(s, ApplyLeaveJoint(s, c))
  <2> DEFINE t == [s EXCEPT !.config_state = [old |-> c.members, new |-> {},
                                              index |-> s.last_applied],
                            !.membership_state = "STABLE",
                            !.final_config_index = s.last_applied,
                            !.joint_config_index = 0,
                            !.requested_membership = {},
                            !.requested_membership_pending = FALSE]
  <2>1. Keeps(s, t)
    BY DEF Keeps, SameVote, Node
  <2>2. Keeps(s, [t EXCEPT !.running = FALSE, !.leader_id = Nil,
                           !.votes_received = {}, !.role = "FOLLOWER"])
    BY DEF Keeps, SameVote, Node
  <2> HIDE DEF t
  <2> QED
    BY <1>1, <2>1, <2>2, Zenon DEF ApplyLeaveJoint, t
<1>5. Keeps(s, [s EXCEPT !.app = Append(@, c)])
  BY DEF Keeps, SameVote, Node
<1> QED
  BY <1>2, <1>3, <1>4, <1>5 DEF node_apply_command

\* Applying the next committed entry moves the node.
LEMMA ApplyNextMoves ==
    ASSUME NEW s \in Node
    PROVE  Moves(s, ApplyNext(s))
<1> DEFINE i == s.last_applied + 1
           t == [s EXCEPT !.last_applied = i, !.persist_dirty = TRUE]
           c == LogEntryAt(s, i).command
<1>1. i \in Nat
  BY NodeFields
<1>2. t \in Node /\ c \in Command
  <2> HIDE DEF i
  <2>1. t \in Node
    BY <1>1, Zenon DEF Node
  <2>2. c \in Command
    BY <1>1, LogEntryAtType DEF Entry
  <2> QED
    BY <2>1, <2>2
<1>3. Keeps(s, t)
  BY DEF Keeps, SameVote, Node
<1>4. ApplyNext(s) = node_apply_command(t, c)
  BY Zenon DEF ApplyNext
<1> HIDE DEF t, c
<1>5. Moves(s, t) /\ Moves(t, node_apply_command(t, c))
  BY <1>2, <1>3, ApplyCommandKeeps, ApplyCommandType, KeepsMoves
<1> QED
  BY <1>2, <1>4, <1>5, ApplyCommandType, MovesTransitive

\* node_append_internal_command moves the node.
LEMMA AppendInternalMoves ==
    ASSUME NEW s \in Node, NEW op \in InternalOp
    PROVE  Moves(s, AppendInternal(s, op))
<1>1. [op |-> op, value |-> 0, members |-> s.requested_membership] \in Command
  BY NodeFields DEF Command
<1>2. s.log_count < RAFT_MAX_LOG \/ s.log_count >= RAFT_MAX_LOG
  BY NodeFields, LimitAssumption
<1>3. CASE s.log_count >= RAFT_MAX_LOG
  BY <1>3, MovesReflexive, Zenon DEF AppendInternal
<1>4. CASE s.log_count < RAFT_MAX_LOG /\ ~(s.log_count >= RAFT_MAX_LOG)
  BY <1>1, <1>4, AppendAndBroadcastMoves, Zenon DEF AppendInternal
<1> QED
  BY <1>2, <1>3, <1>4

\* node_maybe_drive_membership moves the node.
LEMMA DriveMembershipMoves ==
    ASSUME NEW s \in Node
    PROVE  Moves(s, node_maybe_drive_membership(s))
<1> DEFINE u == node_maybe_drive_membership(s)
           joint == configuration_is_joint(s.config_state)
           i == AppendInternalIndex(s)
           enter == AppendInternal(s, "enter_joint")
           leave == AppendInternal(s, "leave_joint")
<1>1. /\ enter \in Node /\ Moves(s, enter)
      /\ leave \in Node /\ Moves(s, leave)
  BY AppendInternalType, AppendInternalMoves, Zenon DEF InternalOp
<1>2. u \in Node
  BY DriveMembershipType
<1> HIDE DEF enter, leave, i, joint
<1>3. /\ Keeps(enter, [enter EXCEPT !.joint_config_index = i,
                         !.membership_state = IF i > 0 THEN "JOINT_PENDING" ELSE @])
      /\ Keeps(leave, [leave EXCEPT !.final_config_index = i,
                         !.membership_state = IF i > 0 THEN "FINALIZING" ELSE @])
      /\ Keeps(s, [s EXCEPT !.membership_state = "JOINT"])
      /\ Keeps(s, [s EXCEPT !.membership_state = "STABLE"])
      /\ Keeps(s, s)
  BY <1>1 DEF Keeps, SameVote, Node
<1>4. \E t \in {s, enter, leave} : Keeps(t, u)
  BY <1>3 DEF node_maybe_drive_membership, enter, leave, i, joint
<1> HIDE DEF u
<1>5. ASSUME NEW t \in {s, enter, leave}, Keeps(t, u) PROVE Moves(s, u)
  <2>1. t \in Node /\ Moves(s, t)
    BY <1>1, MovesReflexive
  <2> QED
    BY <1>2, <1>5, <2>1, KeepsMoves, MovesTransitive
<1> QED
  BY <1>4, <1>5, Zenon DEF u

\* The membership driver and compaction move the node.
LEMMA CompactedMoves ==
    ASSUME NEW s \in Node
    PROVE  Moves(s, Compacted(s))
<1> DEFINE t == node_maybe_drive_membership(s)
<1>1. t \in Node /\ Moves(s, t)
  BY DriveMembershipType, DriveMembershipMoves
<1>2. Compacted(s) = IF Compacts(t) THEN node_do_compact(t) ELSE t
  BY Zenon DEF Compacted
<1> HIDE DEF t
<1>3. Keeps(t, node_do_compact(t))
  BY <1>1 DEF node_do_compact, Keeps, SameVote, Node
<1>4. CASE Compacts(t)
  <2>1. Moves(t, node_do_compact(t)) /\ node_do_compact(t) \in Node
    BY <1>1, <1>3, <1>4, DoCompactType, KeepsMoves
  <2> QED
    BY <1>1, <1>2, <1>4, <2>1, MovesTransitive
<1> QED
  BY <1>1, <1>2, <1>4

\* action_become_candidate moves the node: its vote is for a new term.
LEMMA BecomeCandidateMoves ==
    ASSUME NEW s \in Node
    PROVE  Moves(s, action_become_candidate(s))
<1> DEFINE t == [s EXCEPT !.current_term = @ + 1, !.voted_for = s.id,
                          !.votes_received = {s.id}, !.leader_id = Nil, !.persist_dirty = TRUE]
           RequestVoteFor(p) ==
               [ZeroMessage EXCEPT !.kind = "REQUEST_VOTE", !.term = t.current_term,
                                   !.source = s.id, !.target = p,
                                   !.last_log_index = node_last_log_index(s),
                                   !.last_log_term = node_last_log_term(s)]
           u == [t EXCEPT !.role = "CANDIDATE",
                          !.outbox = @ \cup {RequestVoteFor(p) : p \in Peers(s)}]
<1>1. u = action_become_candidate(s)
  BY Zenon DEF action_become_candidate
<1>2. \A p : RequestVoteFor(p).source = s.id /\ ~IsGrant(RequestVoteFor(p))
  <2> HIDE DEF t
  <2> QED
    BY DEF ZeroMessage, IsGrant
<1> HIDE DEF RequestVoteFor
<1>3. /\ u.id = s.id /\ u.current_term = s.current_term + 1 /\ u.persist_dirty
      /\ u.outbox = s.outbox \cup {RequestVoteFor(p) : p \in Peers(s)}
  BY DEF Node
<1> HIDE DEF u
<1>4. Follows(u, s)
  BY <1>3, NodeFields DEF Follows
<1>5. \A m \in u.outbox : m \in s.outbox \/ Queued(u, m)
  BY <1>2, <1>3, Zenon DEF Queued
<1> QED
  BY <1>1, <1>3, <1>4, <1>5, Zenon DEF Moves

\* action_back_to_follower_due_to_timeout moves the node.
LEMMA BackToFollowerMoves ==
    ASSUME NEW s \in Node
    PROVE  Moves(s, action_back_to_follower_due_to_timeout(s))
<1>1. Keeps(s, action_back_to_follower_due_to_timeout(s))
  BY DEF action_back_to_follower_due_to_timeout, Keeps, SameVote, Node
<1> QED
  BY <1>1, BackToFollowerType, KeepsMoves

\* action_become_leader moves the node.
LEMMA BecomeLeaderMoves ==
    ASSUME NEW s \in Node
    PROVE  Moves(s, action_become_leader(s))
<1> DEFINE next == [k \in 1..RAFT_MAX_PEERS |->
                       IF k \in PeerSlots(s) THEN node_last_log_index(s) + 1 ELSE s.next_index[k]]
           match == [k \in 1..RAFT_MAX_PEERS |->
                       IF k \in PeerSlots(s) THEN 0 ELSE s.match_index[k]]
           t == [s EXCEPT !.role = "LEADER", !.leader_id = s.id,
                          !.next_index = next, !.match_index = match]
<1>1. /\ next \in [1..RAFT_MAX_PEERS -> Nat]
      /\ match \in [1..RAFT_MAX_PEERS -> Nat]
  <2>1. node_last_log_index(s) + 1 \in Nat
    BY LogIndexTypes
  <2> QED
    BY <2>1, NodeFields
<1>2. action_become_leader(s) = node_broadcast_append_entries(t)
  BY Zenon DEF action_become_leader
<1> HIDE DEF next, match
<1>3. t \in Node
  <2>1. s.id \in MaybeServer
    BY NodeFields DEF MaybeServer
  <2> QED
    BY <1>1, <2>1, Zenon DEF Node, Role
<1>4. Keeps(s, t)
  BY DEF Keeps, SameVote, Node
<1> HIDE DEF t
<1>5. Moves(s, t) /\ Moves(t, node_broadcast_append_entries(t))
  BY <1>3, <1>4, BroadcastKeeps, BroadcastType, KeepsMoves
<1> QED
  BY <1>2, <1>3, <1>5, BroadcastType, MovesTransitive

\* A latch moves the node.
LEMMA LatchedMoves ==
    ASSUME NEW s \in Node, NEW r \in SUBSET Message,
           NEW commands, commands # << >> => commands \in Seq(Command)
    PROVE  Moves(s, Latched(s, r, commands))
<1> DEFINE responses == {m \in r : IsResponse(m)}
           m == CHOOSE m \in responses : TRUE
           t == IF responses = {} THEN s ELSE node_handle_append_entries_response(s, m)
<1>1. t \in Node /\ Moves(s, t)
  <2>1. CASE responses = {}
    BY <2>1, MovesReflexive, Zenon
  <2>2. CASE responses # {}
    <3>1. m \in Message
      BY <2>2
    <3> HIDE DEF m, responses
    <3> QED
      BY <2>2, <3>1, AppendEntriesResponseType, AppendEntriesResponseMoves, Zenon
  <2> QED
    BY <2>1, <2>2
<1>2. Latched(s, r, commands) =
        IF commands # << >> /\ node_is_leader(t) /\ t.log_count < RAFT_MAX_LOG
        THEN AppendAndBroadcast(t, Head(commands))
        ELSE t
  BY Zenon DEF Latched
<1> HIDE DEF t
<1>3. ASSUME commands # << >>, t.log_count < RAFT_MAX_LOG
      PROVE  Moves(s, AppendAndBroadcast(t, Head(commands)))
  <2>1. Head(commands) \in Command
    BY <1>3
  <2>2. /\ Moves(t, AppendAndBroadcast(t, Head(commands)))
        /\ AppendAndBroadcast(t, Head(commands)) \in Node
    BY <1>1, <1>3, <2>1, AppendAndBroadcastMoves, AppendAndBroadcastType
  <2> QED
    BY <1>1, <2>2, MovesTransitive
<1> QED
  BY <1>1, <1>2, <1>3

\* The beginning of a dump moves the node.
LEMMA AdvancedMoves ==
    ASSUME NEW s \in Node
    PROVE  Moves(s, Advanced(s))
<1>1. Moves(s, node_advance_commit_index(s))
  BY AdvanceCommitType, AdvanceCommitKeeps, KeepsMoves
<1> QED
  BY <1>1, MovesReflexive, Zenon DEF Advanced

-----------------------------------------------------------------------------
\* The durable vote of every node only moves forward in a step.
DiskVotesFollow == \A n \in Server : Follows(disk'[n].meta, disk[n].meta)

\* The same vote follows itself.
LEMMA FollowsSame ==
    ASSUME NEW x, NEW y, SameVote(x, y)
    PROVE  Follows(x, y)
BY DEF SameVote, Follows

\* Votes in flight stay backed when the disks only move forward.
LEMMA NetVotesStay ==
    ASSUME TypeOK, VoteInv, disk' \in [Server -> Disk], DiskVotesFollow, NEW m \in net
    PROVE  m.source \in Server /\ (IsGrant(m) => Backs(disk'[m.source].meta, m))
<1>1. m.source \in Server /\ (IsGrant(m) => Backs(disk[m.source].meta, m))
  BY DEF VoteInv
<1>2. /\ m.term \in Nat
      /\ disk[m.source].meta.current_term \in Nat /\ disk'[m.source].meta.current_term \in Nat
  BY <1>1, MessageFields, DiskFields DEF TypeOK
<1> QED
  BY <1>1, <1>2, BacksFollows DEF DiskVotesFollow

\* Saving writes the node's vote; writing only snapshot.bin leaves the durable vote alone.
LEMMA SavedVote ==
    ASSUME NEW d \in Disk, NEW s, NEW t \in Node
    PROVE  /\ DiskAfterCompaction(d, s, t).meta = d.meta
           /\ SameVote(raft_storage_node_save(DiskAfterCompaction(d, s, t), t).meta, t)
           /\ SameVote([DiskAfterCompaction(d, s, t) EXCEPT !.meta = write_meta(t)].meta, t)
<1> DEFINE f == DiskAfterCompaction(d, s, t)
<1>1. f \in Disk
  BY DiskAfterCompactionType
<1>2. f.meta = d.meta
  BY DEF DiskAfterCompaction, raft_storage_save_snapshot, Disk
<1> HIDE DEF f
<1>3. /\ raft_storage_node_save(f, t).meta = write_meta(t)
      /\ [f EXCEPT !.meta = write_meta(t)].meta = write_meta(t)
  BY <1>1 DEF raft_storage_node_save, Disk
<1>4. SameVote(write_meta(t), t)
  BY DEF write_meta, SameVote
<1> QED
  BY <1>2, <1>3, <1>4, Zenon DEF f

\* The end of a dump saves before it sends, and so keeps the invariant.
LEMMA FinishDumpVotes ==
    ASSUME TypeOK, VoteInv, NEW n \in Server, NEW s \in Node, Moves(node[n], s),
           tick.node \in {Nil, n}, NEW received, FinishDump(n, s, received)
    PROVE  VoteInv' /\ DiskVotesFollow
<1> DEFINE t == Compacted(s)
           d == DiskAfterCompaction(disk[n], s, t)
           saved == IF t.persist_dirty THEN raft_storage_node_save(d, t) ELSE d
           sent == [t EXCEPT !.persist_dirty = FALSE, !.outbox = {}]
<1>0. TypeOK'
  BY FinishDumpType
<1>1. t \in Node /\ Moves(node[n], t)
  BY CompactedType, CompactedMoves, MovesTransitive DEF TypeOK
<1>2. /\ disk' = [disk EXCEPT ![n] = saved]
      /\ node' = [node EXCEPT ![n] = sent]
      /\ Deliver(received, t.outbox)
      /\ tick' = NoTick
  BY Zenon DEF FinishDump
<1>3. node[n] \in Node /\ disk[n] \in Disk /\ saved = disk'[n] /\ sent = node'[n]
  BY <1>2, Zenon DEF TypeOK
<1> HIDE DEF t
<1>4. d.meta = disk[n].meta /\ SameVote(raft_storage_node_save(d, t).meta, t)
  BY <1>1, <1>3, SavedVote
<1>5. /\ sent.id = t.id /\ SameVote(sent, t) /\ ~sent.persist_dirty /\ sent.outbox = {}
  BY <1>1 DEF SameVote, Node
<1>6. SameVote(saved.meta, t)
  <2>1. CASE t.persist_dirty
    BY <1>4, <2>1, Zenon
  <2>2. CASE ~t.persist_dirty
    <3>1. SameVote(t, node[n]) /\ SameVote(node[n], disk[n].meta)
      BY <1>1, <2>2, Zenon DEF Moves, VoteInv
    <3> QED
      BY <1>4, <2>2, <3>1, Zenon DEF SameVote
  <2> QED
    BY <2>1, <2>2
<1> HIDE DEF d, saved, sent
<1>7. Follows(saved.meta, disk[n].meta)
  <2>1. Follows(t, node[n]) /\ Follows(node[n], disk[n].meta)
    BY <1>1, Zenon DEF Moves, VoteInv
  <2>2. Follows(t, disk[n].meta)
    BY <1>1, <1>3, <2>1, NodeFields, DiskFields, FollowsTransitive
  <2> QED
    BY <1>6, <2>2, Zenon DEF Follows, SameVote
<1>8. DiskVotesFollow
  <2>1. ASSUME NEW p \in Server, p # n PROVE Follows(disk'[p].meta, disk[p].meta)
    <3>1. disk'[p] = disk[p]
      BY <1>2, <2>1, Zenon DEF TypeOK
    <3> QED
      BY <3>1, FollowsSame, Zenon DEF SameVote
  <2> QED
    BY <1>3, <1>7, <2>1, Zenon DEF DiskVotesFollow
<1>9. ASSUME NEW m \in net'
      PROVE  m.source \in Server /\ (IsGrant(m) => Backs(disk'[m.source].meta, m))
  <2>1. m \in net \/ m \in t.outbox
    BY <1>2 DEF Deliver, Accepted
  <2>2. ASSUME m \in t.outbox PROVE Queued(t, m)
    <3>1. m \in node[n].outbox \/ Queued(t, m)
      BY <1>1, <2>2, Zenon DEF Moves
    <3>2. ASSUME m \in node[n].outbox PROVE Queued(t, m)
      <4>1. Queued(node[n], m) /\ m \in Message
        BY <1>3, <3>2, NodeFields DEF VoteInv
      <4> QED
        BY <1>1, <1>3, <4>1, QueuedStays
    <3> QED
      BY <3>1, <3>2
  <2>3. CASE m \in t.outbox
    <3>1. m.source = n /\ (IsGrant(m) => Backs(t, m))
      BY <1>1, <2>2, <2>3, Zenon DEF Queued, Moves, VoteInv
    <3> QED
      BY <1>3, <1>6, <3>1, Zenon DEF Backs, SameVote
  <2>4. CASE m \in net
    BY <1>0, <1>8, <2>4, NetVotesStay DEF TypeOK
  <2> QED
    BY <2>1, <2>3, <2>4
<1>10. ASSUME NEW p \in Server
       PROVE  /\ node'[p].id = p
              /\ Follows(node'[p], disk'[p].meta)
              /\ ~node'[p].persist_dirty => SameVote(node'[p], disk'[p].meta)
              /\ \A m \in node'[p].outbox : Queued(node'[p], m)
              /\ tick'.node # p => node'[p].outbox = {}
  <2>1. CASE p = n
    <3>1. SameVote(node'[p], disk'[p].meta)
      BY <1>3, <1>5, <1>6, <2>1, Zenon DEF SameVote
    <3>2. node'[p].id = p /\ node'[p].outbox = {}
      BY <1>1, <1>3, <1>5, <2>1, Zenon DEF Moves, VoteInv
    <3> QED
      BY <3>1, <3>2, FollowsSame, Zenon
  <2>2. CASE p # n
    <3>1. disk'[p] = disk[p] /\ node'[p] = node[p]
      BY <1>2, <2>2, Zenon DEF TypeOK
    <3>2. tick.node # p
      BY <2>2, ServerAssumption
    <3> QED
      BY <3>1, <3>2, Zenon DEF VoteInv
  <2> QED
    BY <2>1, <2>2
<1> QED
  BY <1>8, <1>9, <1>10, Zenon DEF VoteInv


\* A step of node n's tick that neither saves nor sends keeps the invariant.
LEMMA MemoryStepVotes ==
    ASSUME TypeOK, VoteInv, NEW n \in Server, NEW s \in Node, Moves(node[n], s),
           tick.node \in {Nil, n}, tick'.node = n,
           node' = [node EXCEPT ![n] = s], UNCHANGED <<disk, net>>
    PROVE  VoteInv' /\ DiskVotesFollow
<1>1. node[n] \in Node /\ disk[n] \in Disk /\ node'[n] = s
  BY Zenon DEF TypeOK
<1>2. ASSUME NEW p \in Server
      PROVE  /\ node'[p].id = p
             /\ Follows(node'[p], disk'[p].meta)
             /\ ~node'[p].persist_dirty => SameVote(node'[p], disk'[p].meta)
             /\ \A m \in node'[p].outbox : Queued(node'[p], m)
             /\ tick'.node # p => node'[p].outbox = {}
  <2>1. CASE p = n
    <3>1. Follows(s, node[n]) /\ Follows(node[n], disk[n].meta)
      BY Zenon DEF Moves, VoteInv
    <3>2. Follows(s, disk[n].meta)
      BY <1>1, <3>1, NodeFields, DiskFields, FollowsTransitive
    <3>3. s.id = n /\ (~s.persist_dirty => SameVote(s, disk[n].meta))
      BY Zenon DEF Moves, VoteInv, SameVote
    <3>4. ASSUME NEW m \in s.outbox PROVE Queued(s, m)
      <4>1. m \in Message
        BY <3>4, NodeFields
      <4>2. m \in node[n].outbox => Queued(node[n], m)
        BY Zenon DEF VoteInv
      <4> QED
        BY <1>1, <3>4, <4>1, <4>2, QueuedStays, Zenon DEF Moves
    <3> QED
      BY <1>1, <2>1, <3>2, <3>3, <3>4, Zenon
  <2>2. CASE p # n
    <3>1. disk'[p] = disk[p] /\ node'[p] = node[p]
      BY <2>2, Zenon DEF TypeOK
    <3>2. tick.node # p
      BY <2>2, ServerAssumption
    <3> QED
      BY <3>1, <3>2, Zenon DEF VoteInv
  <2> QED
    BY <2>1, <2>2
<1>3. DiskVotesFollow
  BY FollowsSame, Zenon DEF DiskVotesFollow, SameVote
<1>4. \A m \in net' : m.source \in Server /\ (IsGrant(m) => Backs(disk'[m.source].meta, m))
  BY Zenon DEF VoteInv
<1> QED
  BY <1>2, <1>3, <1>4, Zenon DEF VoteInv

\* The dump that ends or follows a row of the table keeps the invariant.
LEMMA DumpVotes ==
    ASSUME TypeOK, VoteInv, NEW n \in Server, NEW s \in Node, Moves(node[n], s),
           tick.node \in {Nil, n}, NEW r \in SUBSET Message, Dump(n, s, r)
    PROVE  VoteInv' /\ DiskVotesFollow
<1> DEFINE t == Advanced(s)
           received == tick.received \cup r
<1>1. t \in Node /\ node[n] \in Node
  BY AdvancedType, Zenon DEF TypeOK
<1>2. Moves(node[n], t)
  <2>1. Moves(s, t)
    BY AdvancedMoves
  <2> HIDE DEF t
  <2> QED
    BY <1>1, <2>1, MovesTransitive
<1>3. \/ /\ node' = [node EXCEPT ![n] = t]
         /\ tick' = [node |-> n, step |-> "dump", received |-> received]
         /\ UNCHANGED <<disk, net, crashes, calls>>
      \/ FinishDump(n, t, received)
  BY Zenon DEF Dump
<1> HIDE DEF t, received
<1>4. CASE FinishDump(n, t, received)
  BY <1>1, <1>2, <1>4, FinishDumpVotes, Zenon
<1>5. CASE /\ node' = [node EXCEPT ![n] = t]
           /\ tick' = [node |-> n, step |-> "dump", received |-> received]
           /\ UNCHANGED <<disk, net, crashes, calls>>
  <2>1. tick'.node = n
    BY <1>5
  <2> QED
    BY <1>1, <1>2, <1>5, <2>1, MemoryStepVotes, Zenon
<1> QED
  BY <1>3, <1>4, <1>5

\* Every row of RAFT_TRANSITIONS, with the dump after it, keeps the invariant.
LEMMA TransitionVotes ==
    ASSUME TypeOK, VoteInv, NEW n \in Server, NEW s \in Node, Moves(node[n], s),
           tick.node \in {Nil, n}, NEW r \in SUBSET net, Transition(n, s, r)
    PROVE  VoteInv' /\ DiskVotesFollow
<1>0. /\ node[n] \in Node
      /\ r \in SUBSET Message
      /\ \A m \in r : m \in Message /\ m.source # Nil
  <2>1. \A m \in r : m.source \in Server
    BY Zenon DEF VoteInv
  <2> QED
    BY <2>1, ServerAssumption DEF TypeOK
<1>a. ASSUME NEW t \in Node, Moves(s, t), Dump(n, t, r)
      PROVE  VoteInv' /\ DiskVotesFollow
  BY <1>0, <1>a, MovesTransitive, DumpVotes
<1>b. ASSUME NEW t \in Node, Moves(s, t), Dump(n, [t EXCEPT !.role = "FOLLOWER"], r)
      PROVE  VoteInv' /\ DiskVotesFollow
  <2> DEFINE f == [t EXCEPT !.role = "FOLLOWER"]
  <2>1. f \in Node
    BY Zenon DEF Node, Role
  <2>2. Keeps(t, f)
    BY DEF Keeps, SameVote, Node
  <2> HIDE DEF f
  <2>3. Moves(s, f)
    BY <1>b, <2>1, <2>2, KeepsMoves, MovesTransitive
  <2> QED
    BY <1>a, <1>b, <2>1, <2>3, Zenon DEF f
<1>1. CASE BecomeCandidate(n, s, r)
  BY <1>1, <1>a, BecomeCandidateType, BecomeCandidateMoves, Zenon DEF BecomeCandidate
<1>2. CASE BackToFollower(n, s, r)
  BY <1>2, <1>a, BackToFollowerType, BackToFollowerMoves, Zenon DEF BackToFollower
<1>3. CASE BecomeLeader(n, s, r)
  BY <1>3, <1>a, BecomeLeaderType, BecomeLeaderMoves, Zenon DEF BecomeLeader
<1>4. CASE HandleAppendEntries(n, s, r)
  <2>1. PICK m \in Pending(r, "APPEND_ENTRIES") :
          Dump(n, [node_handle_append_entries(s, m) EXCEPT !.role = "FOLLOWER"], r)
    BY <1>4, Zenon DEF HandleAppendEntries
  <2>2. m \in Message
    BY <1>0, <2>1, Zenon DEF Pending
  <2> QED
    BY <1>b, <2>1, <2>2, AppendEntriesType, AppendEntriesMoves, Zenon
<1>5. CASE HandleHigherVoteRequest(n, s, r)
  <2>1. PICK m \in Pending(r, "REQUEST_VOTE") :
          Dump(n, [node_handle_vote_request(s, m) EXCEPT !.role = "FOLLOWER"], r)
    BY <1>5, Zenon DEF HandleHigherVoteRequest
  <2>2. m \in Message /\ m.source # Nil
    BY <1>0, <2>1, Zenon DEF Pending
  <2> QED
    BY <1>b, <2>1, <2>2, VoteRequestType, VoteRequestMoves, Zenon
<1>6. CASE HandleVoteRequest(n, s, r)
  <2>1. PICK m \in Pending(r, "REQUEST_VOTE") :
          Dump(n, IF s.role = "LEADER" THEN s ELSE node_handle_vote_request(s, m), r)
    BY <1>6, Zenon DEF HandleVoteRequest
  <2>2. m \in Message /\ m.source # Nil
    BY <1>0, <2>1, Zenon DEF Pending
  <2>3. CASE s.role = "LEADER"
    BY <1>a, <2>1, <2>3, MovesReflexive, Zenon
  <2>4. CASE s.role # "LEADER"
    BY <1>a, <2>1, <2>2, <2>4, VoteRequestType, VoteRequestMoves, Zenon
  <2> QED
    BY <2>3, <2>4
<1>7. CASE HandleVote(n, s, r)
  <2>1. PICK m \in Pending(r, "REQUEST_VOTE_RESPONSE") :
          Dump(n, IF s.role = "CANDIDATE" THEN node_handle_vote_response(s, m) ELSE s, r)
    BY <1>7, Zenon DEF HandleVote
  <2>2. m \in Message
    BY <1>0, <2>1, Zenon DEF Pending
  <2>3. CASE s.role = "CANDIDATE"
    BY <1>a, <2>1, <2>2, <2>3, VoteResponseType, VoteResponseMoves, Zenon
  <2>4. CASE s.role # "CANDIDATE"
    BY <1>a, <2>1, <2>4, MovesReflexive, Zenon
  <2> QED
    BY <2>3, <2>4
<1>8. CASE SendHeartbeat(n, s, r)
  <2>1. Moves(s, node_broadcast_append_entries(s))
    BY BroadcastType, BroadcastKeeps, KeepsMoves
  <2> QED
    BY <1>8, <1>a, <2>1, BroadcastType, Zenon DEF SendHeartbeat
<1>9. CASE NoTransition(n, s, r)
  BY <1>9, <1>a, MovesReflexive, Zenon DEF NoTransition
<1> QED
  BY <1>1, <1>2, <1>3, <1>4, <1>5, <1>6, <1>7, <1>8, <1>9, Zenon DEF Transition

\* Every step of a node's tick keeps the invariant.
LEMMA TickVotes ==
    ASSUME TypeOK, VoteInv, NEW n \in Server, Tick(n)
    PROVE  VoteInv' /\ DiskVotesFollow
<1>0. node[n] \in Node /\ tick.received \in SUBSET Message /\ net \in SUBSET Message
  BY DEF TypeOK
<1>1. CASE LatchResponse(n)
  <2>1. PICK m \in Inbox(n) :
          /\ node' = [node EXCEPT ![n] = node_handle_append_entries_response(@, m)]
          /\ tick' = [node |-> n, step |-> "latch", received |-> tick.received \cup {m}]
    BY <1>1, Zenon DEF LatchResponse
  <2> DEFINE s == node_handle_append_entries_response(node[n], m)
  <2>2. m \in Message
    BY <1>0, <2>1, Zenon DEF Inbox
  <2>3. s \in Node /\ Moves(node[n], s)
    BY <1>0, <2>2, AppendEntriesResponseType, AppendEntriesResponseMoves
  <2>4. /\ tick.node \in {Nil, n}
        /\ node' = [node EXCEPT ![n] = s]
        /\ UNCHANGED <<disk, net>>
    BY <1>1, <2>1, Zenon DEF LatchResponse, Latching, InTick, TypeOK
  <2>5. tick'.node = n
    BY <2>1
  <2> HIDE DEF s
  <2> QED
    BY <2>3, <2>4, <2>5, MemoryStepVotes, Zenon
<1>2. CASE LatchAndRow(n)
  <2>1. PICK r \in Batches(n), commands \in Submitted(n) :
          Transition(n, Latched(node[n], r, commands), r)
    BY <1>2, Zenon DEF LatchAndRow
  <2>2. r \in SUBSET net /\ tick.node \in {Nil, n}
    <3>1. Latching(n) /\ r \in SUBSET Inbox(n)
      BY <2>1, Zenon DEF Batches
    <3> QED
      BY <3>1, Zenon DEF Latching, InTick, Inbox
  <2>3. commands # << >> => commands \in Seq(Command)
    <3>1. commands = << >> \/ \E c \in ClientCommands : commands = <<c>>
      BY <2>1, Zenon DEF Submitted
    <3>2. ClientCommands \subseteq Command
      BY BoundAssumption, Zenon
    <3>3. ASSUME NEW c \in Command PROVE <<c>> \in Seq(Command)
      OBVIOUS
    <3> QED
      BY <3>1, <3>2, <3>3, Zenon
  <2>4. r \in SUBSET Message
    BY <1>0, <2>2
  <2>5. Latched(node[n], r, commands) \in Node /\ Moves(node[n], Latched(node[n], r, commands))
    BY <1>0, <2>3, <2>4, LatchedType, LatchedMoves, Zenon
  <2> QED
    BY <2>1, <2>2, <2>5, TransitionVotes, Zenon
<1>3. CASE ApplyEntry(n)
  <2>1. /\ tick.node = n /\ tick'.node = n
        /\ node' = [node EXCEPT ![n] = ApplyNext(node[n])]
        /\ UNCHANGED <<disk, net>>
    BY <1>3, Zenon DEF ApplyEntry, InTick, TypeOK
  <2>2. ApplyNext(node[n]) \in Node /\ Moves(node[n], ApplyNext(node[n]))
    BY <1>0, ApplyNextType, ApplyNextMoves
  <2> QED
    BY <2>1, <2>2, MemoryStepVotes, Zenon
<1>4. CASE FinishTick(n)
  <2>1. tick.node = n /\ FinishDump(n, node[n], tick.received)
    BY <1>4, Zenon DEF FinishTick, AllApplied, InTick
  <2> QED
    BY <1>0, <2>1, FinishDumpVotes, MovesReflexive, Zenon
<1> QED
  BY <1>1, <1>2, <1>3, <1>4, Zenon DEF Tick

-----------------------------------------------------------------------------
\* Loading the files gives back the durable vote and leaves the outbox alone.
LEMMA LoadVote ==
    ASSUME NEW s \in Node, NEW d \in Disk
    PROVE  LET t == raft_storage_node_load(s, d)
           IN  t.id = s.id /\ SameVote(t, d.meta) /\ t.outbox = s.outbox
BY DEF raft_storage_node_load, SameVote, Node

\* Taking the configured members leaves id, vote and outbox alone.
LEMMA DefaultMembersKeeps ==
    ASSUME NEW s \in Node
    PROVE  LET t == DefaultMembers(s)
           IN  t.id = s.id /\ SameVote(t, s) /\ t.outbox = s.outbox
BY DEF DefaultMembers, SameVote, Node

\* A node booted from its files, and not made to forget them, has the durable vote and
\* nothing to send.
LEMMA BootVote ==
    ASSUME NEW n \in Server \ Learners, NEW d \in Disk
    PROVE  /\ raft_node_init(n, d).id = n
           /\ SameVote(raft_node_init(n, d), d.meta)
           /\ raft_node_init(n, d).outbox = {}
<1> DEFINE zero    == ZeroNode(n)
           loaded  == raft_storage_node_load(zero, d)
           checked == [loaded EXCEPT !.compaction_threshold = IF @ <= 0 THEN RAFT_MAX_LOG ELSE @]
           s       == DefaultMembers(checked)
           booted  == [s EXCEPT !.membership_state =
                          IF configuration_is_joint(s.config_state) THEN "JOINT" ELSE "STABLE"]
<1>1. zero \in Node /\ zero.id = n /\ zero.outbox = {}
  BY ZeroNodeType DEF ZeroNode
<1>2. raft_node_init(n, d) = booted
  BY Zenon DEF raft_node_init
<1> HIDE DEF zero
<1>3. loaded \in Node /\ loaded.id = n /\ SameVote(loaded, d.meta) /\ loaded.outbox = {}
  BY <1>1, LoadType, LoadVote
<1> HIDE DEF loaded
<1>4. checked \in Node
  <2>1. (IF loaded.compaction_threshold <= 0 THEN RAFT_MAX_LOG
         ELSE loaded.compaction_threshold) \in Nat
    BY <1>3, NodeFields, LimitAssumption
  <2> QED
    BY <1>3, <2>1, Zenon DEF Node
<1>5. checked.id = n /\ SameVote(checked, d.meta) /\ checked.outbox = {}
  BY <1>3 DEF SameVote, Node
<1> HIDE DEF checked
<1>6. s \in Node /\ s.id = n /\ SameVote(s, d.meta) /\ s.outbox = {}
  BY <1>4, <1>5, DefaultMembersType, DefaultMembersKeeps DEF SameVote
<1> HIDE DEF s
<1>7. booted.id = n /\ SameVote(booted, d.meta) /\ booted.outbox = {}
  BY <1>6 DEF SameVote, Node
<1> QED
  BY <1>2, <1>7, Zenon

\* A step after which node n holds the durable vote and an empty outbox, and nothing is
\* sent, keeps the invariant.
LEMMA CleanStepVotes ==
    ASSUME TypeOK, TypeOK', VoteInv, NEW n \in Server, tick.node \in {Nil, n},
           \A p \in Server \ {n} : node'[p] = node[p] /\ disk'[p] = disk[p],
           Follows(disk'[n].meta, disk[n].meta),
           node'[n].id = n, SameVote(node'[n], disk'[n].meta), node'[n].outbox = {},
           net' \subseteq net
    PROVE  VoteInv' /\ DiskVotesFollow
<1>1. DiskVotesFollow
  <2>1. ASSUME NEW p \in Server \ {n} PROVE Follows(disk'[p].meta, disk[p].meta)
    BY <2>1, FollowsSame, Zenon DEF SameVote
  <2> QED
    BY <2>1, Zenon DEF DiskVotesFollow
<1>2. ASSUME NEW m \in net'
      PROVE  m.source \in Server /\ (IsGrant(m) => Backs(disk'[m.source].meta, m))
  <2>1. m \in net /\ disk' \in [Server -> Disk]
    BY <1>2, Zenon DEF TypeOK
  <2> QED
    BY <1>1, <2>1, NetVotesStay
<1>3. ASSUME NEW p \in Server
      PROVE  /\ node'[p].id = p
             /\ Follows(node'[p], disk'[p].meta)
             /\ ~node'[p].persist_dirty => SameVote(node'[p], disk'[p].meta)
             /\ \A m \in node'[p].outbox : Queued(node'[p], m)
             /\ tick'.node # p => node'[p].outbox = {}
  <2>1. CASE p = n
    BY <2>1, FollowsSame, Zenon
  <2>2. CASE p # n
    <3>1. disk'[p] = disk[p] /\ node'[p] = node[p]
      BY <2>2, Zenon
    <3>2. tick.node # p
      BY <2>2, ServerAssumption
    <3> QED
      BY <3>1, <3>2, Zenon DEF VoteInv
  <2> QED
    BY <2>1, <2>2
<1> QED
  BY <1>1, <1>2, <1>3, Zenon DEF VoteInv

\* A crash anywhere in a tick keeps the invariant, whichever files had been written.
LEMMA FailVotes ==
    ASSUME TypeOK, VoteInv, Learners = {}, NEW n \in Server, Fail(n)
    PROVE  VoteInv' /\ DiskVotesFollow
<1> DEFINE t == Compacted(node[n])
           d == DiskAfterCompaction(disk[n], node[n], t)
           Files == {disk[n], d, [d EXCEPT !.meta = write_meta(t)], raft_storage_node_save(d, t)}
<1>1. node[n] \in Node /\ disk[n] \in Disk /\ TypeOK'
  BY FailType DEF TypeOK
<1>2. t \in Node /\ Moves(node[n], t)
  BY <1>1, CompactedType, CompactedMoves
<1>3. tick.node \in {Nil, n} /\ \E f \in Files : Reboot(n, f)
  BY Zenon DEF Fail, Crash, CrashAfterSnapshot, CrashAfterMeta, CrashAfterSave, AllApplied, InTick
<1> HIDE DEF t
<1>4. /\ d.meta = disk[n].meta
      /\ SameVote([d EXCEPT !.meta = write_meta(t)].meta, t)
      /\ SameVote(raft_storage_node_save(d, t).meta, t)
  BY <1>1, <1>2, SavedVote
<1> HIDE DEF d
<1>5. Follows(t, disk[n].meta)
  <2>1. Follows(t, node[n]) /\ Follows(node[n], disk[n].meta)
    BY <1>2, Zenon DEF Moves, VoteInv
  <2> QED
    BY <1>1, <1>2, <2>1, NodeFields, DiskFields, FollowsTransitive
<1>6. PICK f \in Files : Reboot(n, f)
  BY <1>3
<1>7. Follows(f.meta, disk[n].meta)
  <2>1. f.meta = disk[n].meta \/ SameVote(f.meta, t)
    BY <1>4, <1>6, Zenon
  <2> QED
    BY <1>5, <2>1, Zenon DEF Follows, SameVote
<1> HIDE DEF Files
<1>8. /\ disk' = [disk EXCEPT ![n] = f]
      /\ node' = [node EXCEPT ![n] = raft_node_init(n, f)]
      /\ Deliver(tick.received, {})
  BY <1>6, Zenon DEF Reboot
<1>9. /\ node'[n] = raft_node_init(n, f) /\ disk'[n] = f
      /\ \A p \in Server \ {n} : node'[p] = node[p] /\ disk'[p] = disk[p]
  BY <1>8, Zenon DEF TypeOK
<1>10. f \in Disk
  BY <1>1, <1>9, Zenon DEF TypeOK
<1>11. net' \subseteq net
  BY <1>8 DEF Deliver, Accepted
<1>12. /\ node'[n].id = n /\ SameVote(node'[n], disk'[n].meta) /\ node'[n].outbox = {}
  BY <1>9, <1>10, BootVote
<1> QED
  BY <1>1, <1>3, <1>7, <1>9, <1>11, <1>12, CleanStepVotes, Zenon

\* A call between ticks that leaves vote and dirty mark alone and the outbox empty keeps
\* the invariant.
LEMMA QuietCallVotes ==
    ASSUME TypeOK, VoteInv, NEW n \in Server, NEW t,
           t.id = node[n].id, SameVote(t, node[n]), t.outbox = {},
           t.persist_dirty = node[n].persist_dirty,
           node' = [node EXCEPT ![n] = t], UNCHANGED <<disk, net, tick>>
    PROVE  VoteInv' /\ DiskVotesFollow
<1>1. DiskVotesFollow
  BY FollowsSame, Zenon DEF DiskVotesFollow, SameVote
<1>2. ASSUME NEW p \in Server
      PROVE  /\ node'[p].id = p
             /\ Follows(node'[p], disk'[p].meta)
             /\ ~node'[p].persist_dirty => SameVote(node'[p], disk'[p].meta)
             /\ \A m \in node'[p].outbox : Queued(node'[p], m)
             /\ tick'.node # p => node'[p].outbox = {}
  <2>1. CASE p = n
    <3>1. node'[n] = t
      BY Zenon DEF TypeOK
    <3>2. /\ node[n].id = n /\ Follows(node[n], disk[n].meta)
          /\ ~node[n].persist_dirty => SameVote(node[n], disk[n].meta)
      BY Zenon DEF VoteInv
    <3>3. Follows(t, disk[n].meta)
      BY <3>2, Zenon DEF Follows, SameVote
    <3> QED
      BY <2>1, <3>1, <3>2, <3>3, Zenon DEF SameVote
  <2>2. CASE p # n
    <3>1. node'[p] = node[p]
      BY <2>2, Zenon DEF TypeOK
    <3> QED
      BY <3>1, Zenon DEF VoteInv
  <2> QED
    BY <2>1, <2>2
<1>3. \A m \in net' : m.source \in Server /\ (IsGrant(m) => Backs(disk'[m.source].meta, m))
  BY Zenon DEF VoteInv
<1> QED
  BY <1>1, <1>2, <1>3, Zenon DEF VoteInv

\* The application's calls keep the invariant.
LEMMA CallVotes ==
    ASSUME TypeOK, VoteInv, Rejoining = {}, NEW n \in Server, Call(n)
    PROVE  VoteInv' /\ DiskVotesFollow
<1>1. node[n] \in Node /\ disk[n] \in Disk /\ TypeOK'
  BY CallType DEF TypeOK
<1>2. ASSUME NEW p \in Server PROVE Follows(disk[p].meta, disk[p].meta)
  BY FollowsSame, Zenon DEF SameVote
<1>3. CASE Start(n)
  <2> DEFINE t == DefaultMembers(raft_storage_node_load(node[n], disk[n]))
  <2>1. /\ tick.node = Nil /\ UNCHANGED <<disk, net>>
        /\ node' = [node EXCEPT ![n] = raft_node_start(node[n], disk[n])]
    BY <1>3, Zenon DEF Start, Calls, TypeOK
  <2>2. node[n].id = n /\ node[n].outbox = {}
    BY <2>1, ServerAssumption DEF VoteInv
  <2>3. t \in Node /\ t.id = n /\ SameVote(t, disk[n].meta) /\ t.outbox = {}
    <3> DEFINE l == raft_storage_node_load(node[n], disk[n])
    <3>1. l \in Node /\ l.id = n /\ SameVote(l, disk[n].meta) /\ l.outbox = {}
      BY <1>1, <2>2, LoadType, LoadVote
    <3> HIDE DEF l
    <3>2. DefaultMembers(l) \in Node /\ DefaultMembers(l).id = n
          /\ SameVote(DefaultMembers(l), disk[n].meta) /\ DefaultMembers(l).outbox = {}
      BY <3>1, DefaultMembersType, DefaultMembersKeeps DEF SameVote
    <3> QED
      BY <3>2, Zenon DEF l
  <2>4. node'[n] = [t EXCEPT !.running = TRUE, !.role = "FOLLOWER"]
    BY <2>1, Zenon DEF raft_node_start, TypeOK
  <2> HIDE DEF t
  <2>5. node'[n].id = n /\ SameVote(node'[n], disk[n].meta) /\ node'[n].outbox = {}
    BY <2>3, <2>4 DEF SameVote, Node
  <2>6. \A p \in Server \ {n} : node'[p] = node[p] /\ disk'[p] = disk[p]
    BY <2>1, Zenon DEF TypeOK
  <2> QED
    BY <1>1, <1>2, <2>1, <2>5, <2>6, CleanStepVotes, Zenon
<1>4. CASE Stop(n)
  <2>1. /\ tick.node = Nil /\ UNCHANGED <<disk, net, tick>>
        /\ node' = [node EXCEPT ![n] = raft_node_stop(node[n])]
    BY <1>4, Zenon DEF Stop, Calls, TypeOK
  <2>2. LET t == raft_node_stop(node[n])
        IN  /\ t.id = node[n].id /\ SameVote(t, node[n]) /\ t.outbox = {}
            /\ t.persist_dirty = node[n].persist_dirty
    BY <1>1 DEF raft_node_stop, SameVote, Node
  <2> QED
    BY <1>1, <1>2, <2>1, <2>2, QuietCallVotes, Zenon
<1>5. CASE RequestMembershipChange(n)
  <2>1. PICK members \in Memberships :
          node' = [node EXCEPT ![n].requested_membership = members,
                               ![n].requested_membership_pending = @ \/ members # {}]
    BY <1>5, Zenon DEF RequestMembershipChange
  <2> DEFINE t == [node[n] EXCEPT !.requested_membership = members,
                                  !.requested_membership_pending = @ \/ members # {}]
  <2>2. node' = [node EXCEPT ![n] = t]
    BY <2>1 DEF TypeOK
  <2>3. tick.node = Nil /\ UNCHANGED <<disk, net, tick>>
    BY <1>5, Zenon DEF RequestMembershipChange, Calls
  <2>4. node[n].outbox = {}
    BY <2>3, ServerAssumption DEF VoteInv
  <2>5. /\ t.id = node[n].id /\ SameVote(t, node[n]) /\ t.outbox = {}
        /\ t.persist_dirty = node[n].persist_dirty
    BY <1>1, <2>4 DEF SameVote, Node
  <2> HIDE DEF t
  <2> QED
    BY <1>1, <2>2, <2>3, <2>5, QuietCallVotes, Zenon
<1>6. ~ResetForJoin(n)
  BY Zenon DEF ResetForJoin
<1> QED
  BY <1>3, <1>4, <1>5, <1>6, Zenon DEF Call

-----------------------------------------------------------------------------
\* The invariant holds when all nodes have booted from empty directories.
LEMMA VoteInvInit ==
    ASSUME Learners = {}, Init
    PROVE  VoteInv
<1>1. ASSUME NEW n \in Server
      PROVE  /\ node[n].id = n
             /\ SameVote(node[n], disk[n].meta)
             /\ node[n].outbox = {}
  BY BootVote, EmptyDiskType DEF Init
<1>2. net = {}
  BY DEF Init
<1> QED
  BY <1>1, <1>2, FollowsSame, Zenon DEF VoteInv

\* Every step keeps the invariant and moves the durable votes only forward.
LEMMA VoteInvStep ==
    ASSUME TypeOK, VoteInv, Learners = {}, Rejoining = {}, [Next]_vars
    PROVE  VoteInv' /\ DiskVotesFollow
<1>1. ASSUME NEW n \in Server, Tick(n) \/ Fail(n) \/ Call(n) PROVE VoteInv' /\ DiskVotesFollow
  BY <1>1, TickVotes, FailVotes, CallVotes, Zenon
<1>2. CASE UNCHANGED vars
  <2>1. UNCHANGED <<node, disk, net, tick>>
    BY <1>2, Zenon DEF vars
  <2>2. VoteInv'
    BY <2>1, Zenon DEF VoteInv
  <2> QED
    BY <2>1, <2>2, FollowsSame, Zenon DEF DiskVotesFollow, SameVote
<1>3. CASE QuietTicks
  BY <1>2, <1>3, Zenon DEF QuietTicks
<1> QED
  BY <1>1, <1>2, <1>3, Zenon DEF Next

\* Votes are durable before they are sent, in every behaviour of any number of nodes in
\* which nobody is made to forget its files: no crash between node_handle_vote_request and
\* the writes of dump_outputs lets a vote in flight be contradicted by the voter's disk.
THEOREM VotesDurable ==
    ASSUME Learners = {}, Rejoining = {}
    PROVE  Spec => []VotesAreDurable
<1>1. Init => VoteInv
  BY VoteInvInit
<1>2. TypeOK /\ VoteInv /\ [Next]_vars => VoteInv'
  BY VoteInvStep
<1>3. VoteInv => VotesAreDurable
  BY DEF VoteInv, VotesAreDurable, IsGrant, Backs
<1> QED
  BY <1>1, <1>2, <1>3, TypeCorrect, PTL DEF Spec

\* The durable term never decreases and the durable vote of a term never changes, in every
\* such behaviour.
THEOREM DurableVoteIsFinal ==
    ASSUME Learners = {}, Rejoining = {}
    PROVE  Spec => OneVotePerTerm
<1>1. Init => VoteInv
  BY VoteInvInit
<1>2. TypeOK /\ VoteInv /\ [Next]_vars => VoteInv'
  BY VoteInvStep
<1> DEFINE Final == \A n \in Server :
             LET old == disk[n].meta
                 new == disk'[n].meta
             IN  \/ new.current_term > old.current_term
                 \/ /\ new.current_term = old.current_term
                    /\ old.voted_for \in {Nil, new.voted_for}
<1>3. TypeOK /\ VoteInv /\ [Next]_vars => [Final]_vars
  <2> SUFFICES ASSUME TypeOK, VoteInv, [Next]_vars PROVE Final
    OBVIOUS
  <2>1. DiskVotesFollow
    BY VoteInvStep
  <2> QED
    BY <2>1, Zenon DEF DiskVotesFollow, Follows
<1>4. OneVotePerTerm <=> [][Final]_vars
  BY DEF OneVotePerTerm
<1> HIDE DEF Final
<1> QED
  BY <1>1, <1>2, <1>3, <1>4, TypeCorrect, PTL DEF Spec

=============================================================================
