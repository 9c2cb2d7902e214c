--------------------------- MODULE RaftTypeProofs ---------------------------
(***************************************************************************)
(* Type correctness of RaftCluster for every number of nodes, log size and *)
(* bound.  TypeOK is inductive as it stands: the module has one lemma per  *)
(* operator of RaftTypes, RaftStorage, RaftCore and RaftNode (well-typed   *)
(* in, well-typed out), one per action of RaftCluster, and the theorem.    *)
(* Where it is more than bookkeeping: the log array never overflows, reads *)
(* at log_count and at next_index - 1 are guarded, compaction never drops  *)
(* more than there is.                                                     *)
(***************************************************************************)
EXTENDS RaftCluster, FiniteSetTheorems, WellFoundedInduction, TLAPS

\* A non-empty set of naturals has its minimum (Min of FiniteSetsExt) as a member.
LEMMA NatMin ==
    ASSUME NEW S \in SUBSET Nat, S # {}
    PROVE  Min(S) \in S /\ \A y \in S : Min(S) <= y
<1>1. PICK x \in S : \A y \in S : ~ (<<y, x>> \in OpToRel(<, Nat))
  BY NatLessThanWellFounded, WFMin, Zenon
<1>2. \A y \in S : ~(y < x)
  BY <1>1, Zenon DEF OpToRel
<1>3. \A y \in S : x <= y
  BY <1>2
<1> QED
  BY <1>3 DEF Min

\* A non-empty subset of an interval has its maximum as a member.
LEMMA IntervalMax ==
    ASSUME NEW a \in Int, NEW b \in Int, NEW S \in SUBSET (a..b), S # {}
    PROVE  Max(S) \in S
<1> DEFINE D == {b - x : x \in S}
<1>1. D \in SUBSET Nat /\ D # {}
  OBVIOUS
<1>2. PICK d \in D : \A y \in D : d <= y
  BY <1>1, NatMin
<1>3. PICK x \in S : d = b - x
  BY <1>2
<1>4. \A y \in S : x >= y
  <2> TAKE y \in S
  <2>1. b - y \in D
    OBVIOUS
  <2>2. b - x <= b - y
    BY <1>2, <1>3, <2>1
  <2>3. x \in Int /\ y \in Int
    OBVIOUS
  <2> HIDE DEF D
  <2> QED
    BY <2>2, <2>3
<1> QED
  BY <1>4 DEF Max

\* The type of every field of struct raft_node.
LEMMA NodeFields ==
    ASSUME NEW s \in Node
    PROVE  /\ s.id \in Server /\ s.learner \in BOOLEAN /\ s.running \in BOOLEAN /\ s.role \in Role
           /\ s.current_term \in Nat /\ s.voted_for \in MaybeServer
           /\ s.log \in [1..RAFT_MAX_LOG -> Entry] /\ s.log_count \in 0..RAFT_MAX_LOG
           /\ s.snapshot_last_included_index \in Nat /\ s.snapshot_last_included_term \in Nat
           /\ s.commit_index \in Nat /\ s.last_applied \in Nat /\ s.leader_id \in MaybeServer
           /\ s.compaction_threshold \in Nat
           /\ s.config_state \in Configuration /\ s.membership_state \in MembershipState
           /\ s.requested_membership \in SUBSET Server
           /\ s.requested_membership_pending \in BOOLEAN
           /\ s.joint_config_index \in Nat \cup {-1} /\ s.final_config_index \in Nat \cup {-1}
           /\ s.votes_received \in SUBSET MaybeServer
           /\ s.next_index \in [1..RAFT_MAX_PEERS -> Nat]
           /\ s.match_index \in [1..RAFT_MAX_PEERS -> Nat]
           /\ s.outbox \in SUBSET Message /\ s.persist_dirty \in BOOLEAN
           /\ s.snapshot_buf \in Seq(Command) /\ s.app \in Seq(Command)
BY Zenon DEF Node

\* The type of every field of raft_message_t.
LEMMA MessageFields ==
    ASSUME NEW m \in Message
    PROVE  /\ m.kind \in MessageKind /\ m.term \in Nat
           /\ m.source \in MaybeServer /\ m.target \in MaybeServer
           /\ m.granted \in BOOLEAN /\ m.success \in BOOLEAN
           /\ m.prev_log_index \in Nat /\ m.prev_log_term \in Nat
           /\ m.prev_log_leader_id \in MaybeServer
           /\ m.leader_commit \in Nat /\ m.match_index \in Nat
           /\ m.last_log_index \in Nat /\ m.last_log_term \in Nat
           /\ m.entries \in Seq(Entry)
BY Zenon DEF Message

\* What memset leaves is of its type.
LEMMA ZeroTypes ==
    /\ ZeroCommand \in Command /\ ZeroEntry \in Entry
    /\ ZeroConfiguration \in Configuration /\ ZeroMessage \in Message
<1>1. ZeroCommand \in Command
  BY DEF ZeroCommand, Command
<1>2. ZeroEntry \in Entry
  BY <1>1 DEF ZeroEntry, Entry, MaybeServer
<1>3. ZeroConfiguration \in Configuration
  BY DEF ZeroConfiguration, Configuration
<1>4. ZeroMessage \in Message
  <2>1. << >> \in Seq(Entry)
    OBVIOUS
  <2>2. 0 \in Nat
    OBVIOUS
  <2> QED
    BY <2>1, <2>2, Zenon DEF ZeroMessage, Message, MessageKind, MaybeServer
<1> QED
  BY <1>1, <1>2, <1>3, <1>4

\* The index helpers return naturals.
LEMMA LogIndexTypes ==
    ASSUME NEW s \in Node
    PROVE  /\ node_last_log_index(s) \in Nat
           /\ node_log_base_index(s) \in Nat \ {0}
           /\ s.log_count \in Nat
BY NodeFields, LimitAssumption DEF node_last_log_index, node_log_base_index

\* Reading the log array, even out of bounds, yields an entry.
LEMMA LogEntryAtType ==
    ASSUME NEW s \in Node, NEW i \in Int
    PROVE  LogEntryAt(s, i) \in Entry
BY NodeFields, OutOfBoundsAssumption DEF LogEntryAt, node_physical_index

\* node_term_at_index returns a term.
LEMMA TermAtType ==
    ASSUME NEW s \in Node, NEW i \in Int
    PROVE  node_term_at_index(s, i) \in Nat
BY NodeFields, LogEntryAtType DEF node_term_at_index, Entry

\* node_leader_at_index returns a node id or the empty id.
LEMMA LeaderAtType ==
    ASSUME NEW s \in Node, NEW i \in Int
    PROVE  node_leader_at_index(s, i) \in MaybeServer
<1>1. LogEntryAt(s, i).leader_id \in MaybeServer
  BY LogEntryAtType DEF Entry
<1>2. Nil \in MaybeServer
  BY DEF MaybeServer
<1> QED
  BY <1>1, <1>2 DEF node_leader_at_index

\* node_last_log_term returns a term: slot log_count exists when the log is not empty.
LEMMA LastTermType ==
    ASSUME NEW s \in Node
    PROVE  node_last_log_term(s) \in Nat
BY NodeFields, LimitAssumption DEF node_last_log_term, Entry

-----------------------------------------------------------------------------
\* node_send_append_entries_to builds a message, whatever next_index holds.
LEMMA AppendEntriesForType ==
    ASSUME NEW s \in Node, NEW p \in Server
    PROVE  AppendEntriesFor(s, p) \in Message
<1> DEFINE k    == node_peer_index(s, p)
           last == node_last_log_index(s)
           want == IF k \in 1..RAFT_MAX_PEERS THEN s.next_index[k] ELSE last + 1
           next == Larger(want, node_log_base_index(s))
           n    == IF next > last THEN 0 ELSE Smaller(last + 1 - next, RAFT_MAX_BATCH)
           es   == [j \in 1..n |-> LogEntryAt(s, next + j - 1)]
<1>1. last \in Nat /\ node_log_base_index(s) \in Nat \ {0}
  BY LogIndexTypes
<1>2. want \in Nat
  <2> HIDE DEF k, last
  <2>1. ASSUME k \in 1..RAFT_MAX_PEERS PROVE s.next_index[k] \in Nat
    BY <2>1, NodeFields
  <2> QED
    BY <1>1, <2>1
<1>3. next \in Nat \ {0}
  BY <1>1, <1>2 DEF Larger
<1>4. n \in Nat
  BY <1>1, <1>3, LimitAssumption DEF Smaller
<1>5. es \in Seq(Entry)
  <2>1. \A j \in 1..n : LogEntryAt(s, next + j - 1) \in Entry
    BY <1>3, <1>4, LogEntryAtType
  <2> QED
    BY <1>4, <2>1
<1>6. next - 1 \in Nat
  BY <1>3
<1>7. node_term_at_index(s, next - 1) \in Nat /\ node_leader_at_index(s, next - 1) \in MaybeServer
  BY <1>6, TermAtType, LeaderAtType
<1>8. p \in MaybeServer /\ s.id \in MaybeServer /\ s.commit_index \in Nat /\ s.current_term \in Nat
  BY NodeFields DEF MaybeServer
<1> DEFINE msg == [ZeroMessage EXCEPT
            !.kind = "APPEND_ENTRIES", !.term = s.current_term,
            !.source = s.id, !.target = p,
            !.prev_log_index = next - 1,
            !.prev_log_term = node_term_at_index(s, next - 1),
            !.prev_log_leader_id = node_leader_at_index(s, next - 1),
            !.leader_commit = s.commit_index,
            !.entries = es]
<1>9. AppendEntriesFor(s, p) = msg
  BY Zenon DEF AppendEntriesFor
<1>10. msg \in Message
  <2> HIDE DEF next, es, n, want, last, k
  <2>1. "APPEND_ENTRIES" \in MessageKind
    BY DEF MessageKind
  <2> QED
    BY <1>5, <1>6, <1>7, <1>8, <2>1, ZeroTypes, Zenon DEF Message
<1> QED
  BY <1>9, <1>10, Zenon

\* Peers are nodes of the deployment.
LEMMA PeersAreServers ==
    ASSUME NEW s \in Node
    PROVE  Peers(s) \in SUBSET Server
BY NodeFields DEF Peers, Configuration

\* node_queue_message keeps the node well typed.
LEMMA QueueType ==
    ASSUME NEW s \in Node, NEW m \in Message
    PROVE  node_queue_message(s, m) \in Node
BY Zenon DEF node_queue_message, Node

\* node_broadcast_append_entries keeps the node well typed.
LEMMA BroadcastType ==
    ASSUME NEW s \in Node
    PROVE  node_broadcast_append_entries(s) \in Node
<1>1. {AppendEntriesFor(s, p) : p \in Peers(s)} \in SUBSET Message
  BY PeersAreServers, AppendEntriesForType
<1> QED
  BY <1>1, Zenon DEF node_broadcast_append_entries, Node

\* node_advance_commit_index sets commit_index to an index of the log.
LEMMA AdvanceCommitType ==
    ASSUME NEW s \in Node
    PROVE  node_advance_commit_index(s) \in Node
<1> DEFINE ready == {i \in (s.commit_index + 1)..node_last_log_index(s) :
                        /\ node_term_at_index(s, i) = s.current_term
                        /\ node_is_committed_under_current_configuration(s, i)}
<1>1. CASE ready = {}
  BY <1>1, Zenon DEF node_advance_commit_index
<1>2. CASE ready # {}
  <2>1. Max(ready) \in ready
    <3>1. s.commit_index + 1 \in Int /\ node_last_log_index(s) \in Int
      BY NodeFields, LogIndexTypes
    <3>2. ready \in SUBSET ((s.commit_index + 1)..node_last_log_index(s))
      OBVIOUS
    <3> HIDE DEF ready
    <3> QED
      BY <1>2, <3>1, <3>2, IntervalMax
  <2>2. Max(ready) \in Nat
    BY <2>1, NodeFields, LogIndexTypes
  <2>3. node_advance_commit_index(s)
          = [s EXCEPT !.commit_index = Max(ready), !.persist_dirty = TRUE]
    BY <1>2, Zenon DEF node_advance_commit_index
  <2>4. [s EXCEPT !.commit_index = Max(ready), !.persist_dirty = TRUE] \in Node
    <3> HIDE DEF ready
    <3> QED
      BY <2>2, Zenon DEF Node
  <2> HIDE DEF ready
  <2> QED
    BY <2>3, <2>4, Zenon
<1> QED
  BY <1>1, <1>2

\* Appending a command stays inside the log array if there is room.
LEMMA AppendedType ==
    ASSUME NEW s \in Node, NEW c \in Command, s.log_count < RAFT_MAX_LOG
    PROVE  Appended(s, c) \in Node
<1> DEFINE e == [index |-> node_last_log_index(s) + 1, term |-> s.current_term,
                 leader_id |-> s.id, command |-> c]
           t == [s EXCEPT !.log[s.log_count + 1] = e, !.log_count = @ + 1,
                          !.persist_dirty = TRUE]
<1>1. e \in Entry
  BY LogIndexTypes, NodeFields DEF Entry, MaybeServer
<1>2. s.log_count + 1 \in 1..RAFT_MAX_LOG /\ s.log_count + 1 \in 0..RAFT_MAX_LOG
  BY NodeFields, LimitAssumption
<1>3. [s.log EXCEPT ![s.log_count + 1] = e] \in [1..RAFT_MAX_LOG -> Entry]
  BY <1>1, <1>2, NodeFields, Zenon
<1>4. t \in Node
  <2> HIDE DEF e
  <2> QED
    BY <1>2, <1>3, Zenon DEF Node
<1> QED
  BY <1>4, Zenon DEF Appended

\* Appending and broadcasting keeps the node well typed.
LEMMA AppendAndBroadcastType ==
    ASSUME NEW s \in Node, NEW c \in Command, s.log_count < RAFT_MAX_LOG
    PROVE  AppendAndBroadcast(s, c) \in Node
BY AppendedType, BroadcastType, Zenon DEF AppendAndBroadcast

\* node_handle_term_update keeps the node well typed.
LEMMA TermUpdateType ==
    ASSUME NEW s \in Node, NEW m \in Message
    PROVE  node_handle_term_update(s, m) \in Node
<1>1. [s EXCEPT !.current_term = m.term, !.voted_for = Nil, !.leader_id = Nil,
                !.persist_dirty = TRUE] \in Node
  BY MessageFields, Zenon DEF Node, MaybeServer
<1> QED
  BY <1>1 DEF node_handle_term_update

\* node_handle_vote_request keeps the node well typed.
LEMMA VoteRequestType ==
    ASSUME NEW s \in Node, NEW m \in Message
    PROVE  node_handle_vote_request(s, m) \in Node
<1> DEFINE t == node_handle_term_update(s, m)
           v == IF GrantsVote(t, m)
                THEN [t EXCEPT !.voted_for = m.source, !.persist_dirty = TRUE]
                ELSE t
           response == [ZeroMessage EXCEPT
                          !.kind = "REQUEST_VOTE_RESPONSE", !.term = t.current_term,
                          !.granted = GrantsVote(t, m), !.source = s.id, !.target = m.source]
<1>1. t \in Node
  BY TermUpdateType
<1>2. v \in Node
  <2>1. [t EXCEPT !.voted_for = m.source, !.persist_dirty = TRUE] \in Node
    <3> HIDE DEF t
    <3> QED
      BY <1>1, MessageFields, Zenon DEF Node
  <2> QED
    BY <1>1, <2>1, Zenon
<1>3. response \in Message
  <2>1. GrantsVote(t, m) \in BOOLEAN
    BY DEF GrantsVote
  <2>2. t.current_term \in Nat /\ s.id \in MaybeServer
    BY <1>1, NodeFields DEF MaybeServer
  <2> HIDE DEF t
  <2> QED
    BY <2>1, <2>2, MessageFields, ZeroTypes, Zenon DEF Message, MessageKind
<1> QED
  BY <1>2, <1>3, QueueType, Zenon DEF node_handle_vote_request

\* The merged log is a log array.
LEMMA MergedLogType ==
    ASSUME NEW s \in Node, NEW m \in Message
    PROVE  MergedLog(s, m) \in [1..RAFT_MAX_LOG -> Entry]
<1>1. \A k \in 1..Len(m.entries) : m.entries[k] \in Entry
  BY MessageFields
<1>2. \A p \in 1..RAFT_MAX_LOG : s.log[p] \in Entry
  BY NodeFields
<1> QED
  BY <1>1, <1>2, Zenon DEF MergedLog

\* The merged log has between 0 and RAFT_MAX_LOG entries once the consistency check holds.
LEMMA MergedCountType ==
    ASSUME NEW s \in Node, NEW m \in Message, PrevMatches(s, m)
    PROVE  MergedCount(s, m) \in 0..RAFT_MAX_LOG
<1>1. m.prev_log_index \in Nat /\ Len(m.entries) \in Nat /\ s.snapshot_last_included_index \in Nat
  BY MessageFields, NodeFields
<1>2. m.prev_log_index >= s.snapshot_last_included_index
  BY DEF PrevMatches
<1> QED
  BY <1>1, <1>2, NodeFields, LimitAssumption DEF MergedCount, Smaller

\* The loop of node_append_entries_from_leader keeps the node well typed.
LEMMA MergeType ==
    ASSUME NEW s \in Node, NEW m \in Message, PrevMatches(s, m)
    PROVE  MergeEntries(s, m) \in Node
<1>1. (s.persist_dirty \/ LogChanges(s, m)) \in BOOLEAN
  OBVIOUS
<1> QED
  BY <1>1, MergedLogType, MergedCountType, Zenon DEF MergeEntries, Node

\* What follows the loop keeps the node well typed.
LEMMA UpdateCommitType ==
    ASSUME NEW s \in Node, NEW m \in Message, NEW rebuild
    PROVE  UpdateCommit(s, m, rebuild) \in Node
<1> DEFINE last == node_last_log_index(s)
           restored == IF s.snapshot_last_included_index > 0 THEN s.snapshot_buf ELSE << >>
<1>1. restored \in Seq(Command)
  BY NodeFields
<1>2. last \in Nat /\ Smaller(m.leader_commit, last) \in Nat
  BY LogIndexTypes, MessageFields DEF Smaller
<1>3. /\ [s EXCEPT !.commit_index = Smaller(m.leader_commit, last), !.app = restored,
                   !.last_applied = s.snapshot_last_included_index,
                   !.persist_dirty = TRUE] \in Node
      /\ [s EXCEPT !.commit_index = Smaller(m.leader_commit, last),
                   !.persist_dirty = TRUE] \in Node
      /\ [s EXCEPT !.commit_index = last, !.persist_dirty = TRUE] \in Node
  <2> HIDE DEF last, restored
  <2> QED
    BY <1>1, <1>2, NodeFields, Zenon DEF Node
<1> QED
  BY <1>3, Zenon DEF UpdateCommit

\* node_handle_append_entries keeps the node well typed.
LEMMA AppendEntriesType ==
    ASSUME NEW s \in Node, NEW m \in Message
    PROVE  node_handle_append_entries(s, m) \in Node
<1> DEFINE t  == node_handle_term_update(s, m)
           l  == [t EXCEPT !.leader_id = m.source]
           ok == m.term = t.current_term /\ PrevMatches(l, m)
           u  == IF m.term # t.current_term THEN t
                 ELSE IF ok THEN node_append_entries_from_leader(l, m) ELSE l
           response == [ZeroMessage EXCEPT
                          !.kind = "APPEND_ENTRIES_RESPONSE", !.term = u.current_term,
                          !.success = ok, !.match_index = node_last_log_index(u),
                          !.source = s.id, !.target = m.source]
<1>1. t \in Node
  BY TermUpdateType
<1>2. l \in Node
  <2> HIDE DEF t
  <2> QED
    BY <1>1, MessageFields, Zenon DEF Node
<1>3. ASSUME ok PROVE node_append_entries_from_leader(l, m) \in Node
  <2> HIDE DEF l
  <2>1. MergeEntries(l, m) \in Node
    BY <1>2, <1>3, MergeType
  <2> QED
    BY <2>1, UpdateCommitType, Zenon DEF node_append_entries_from_leader
<1>4. u \in Node
  BY <1>1, <1>2, <1>3, Zenon
<1>5. response \in Message
  <2>1. ok \in BOOLEAN
    BY DEF PrevMatches
  <2> HIDE DEF u, ok
  <2>2. u.current_term \in Nat /\ node_last_log_index(u) \in Nat /\ s.id \in MaybeServer
    BY <1>4, NodeFields, LogIndexTypes DEF MaybeServer
  <2> QED
    BY <2>1, <2>2, MessageFields, ZeroTypes, Zenon DEF Message, MessageKind
<1> QED
  BY <1>4, <1>5, QueueType, Zenon DEF node_handle_append_entries

\* node_handle_vote_response keeps the node well typed.
LEMMA VoteResponseType ==
    ASSUME NEW s \in Node, NEW m \in Message
    PROVE  node_handle_vote_response(s, m) \in Node
<1> DEFINE t == node_handle_term_update(s, m)
<1>1. t \in Node
  BY TermUpdateType
<1>2. [t EXCEPT !.votes_received = @ \cup {m.source}] \in Node
  <2> HIDE DEF t
  <2>1. t.votes_received \cup {m.source} \in SUBSET MaybeServer
    BY <1>1, NodeFields, MessageFields
  <2> QED
    BY <1>1, <2>1, Zenon DEF Node
<1> QED
  BY <1>1, <1>2, Zenon DEF node_handle_vote_response

\* Recording a success response keeps the node well typed.
LEMMA AcknowledgedType ==
    ASSUME NEW s \in Node, NEW k \in 1..RAFT_MAX_PEERS, NEW i \in Nat
    PROVE  Acknowledged(s, k, i) \in Node
<1>1. i + 1 \in Nat
  OBVIOUS
<1>2. /\ [s.match_index EXCEPT ![k] = i] \in [1..RAFT_MAX_PEERS -> Nat]
      /\ [s.next_index EXCEPT ![k] = i + 1] \in [1..RAFT_MAX_PEERS -> Nat]
  BY <1>1, NodeFields, Zenon
<1> QED
  BY <1>2, Zenon DEF Acknowledged, Node

\* Backing off never takes next_index below zero.
LEMMA BackedOffType ==
    ASSUME NEW s \in Node, NEW k \in 1..RAFT_MAX_PEERS
    PROVE  BackedOff(s, k) \in Node
<1> DEFINE v == IF s.next_index[k] > node_log_base_index(s) THEN s.next_index[k] - 1
                ELSE s.next_index[k]
<1>1. s.next_index \in [1..RAFT_MAX_PEERS -> Nat]
  BY NodeFields
<1>2. s.next_index[k] \in Nat
  BY <1>1
<1>3. v \in Nat
  BY <1>2, LogIndexTypes
<1>4. [s.next_index EXCEPT ![k] = v] \in [1..RAFT_MAX_PEERS -> Nat]
  BY <1>1, <1>3, Zenon
<1>5. BackedOff(s, k) = [s EXCEPT !.next_index[k] = v]
  BY Zenon DEF BackedOff
<1> HIDE DEF v
<1>6. [s EXCEPT !.next_index[k] = v] \in Node
  BY <1>4, Zenon DEF Node
<1> QED
  BY <1>5, <1>6, Zenon

\* node_peer_index gives positions to members of the configuration only.
LEMMA PeerIsServer ==
    ASSUME NEW s \in Node, NEW p, node_peer_index(s, p) \in 1..RAFT_MAX_PEERS
    PROVE  p \in Server
<1>1. s.config_state.old \cup s.config_state.new \in SUBSET Server
  BY NodeFields DEF Configuration
<1>2. node_peer_index(s, p) # 0
  OBVIOUS
<1> QED
  BY <1>1, <1>2 DEF node_peer_index

\* node_handle_append_entries_response keeps the node well typed.
LEMMA AppendEntriesResponseType ==
    ASSUME NEW s \in Node, NEW m \in Message
    PROVE  node_handle_append_entries_response(s, m) \in Node
<1> DEFINE t == node_handle_term_update(s, m)
           k == node_peer_index(t, m.source)
<1>1. t \in Node
  BY TermUpdateType
<1> HIDE DEF t
<1>2. ASSUME k \in 1..RAFT_MAX_PEERS
      PROVE  /\ node_advance_commit_index(Acknowledged(t, k, m.match_index)) \in Node
             /\ node_send_append_entries_to(BackedOff(t, k), m.source) \in Node
  <2>1. m.source \in Server
    BY <1>1, <1>2, PeerIsServer
  <2> HIDE DEF k
  <2>2. Acknowledged(t, k, m.match_index) \in Node /\ BackedOff(t, k) \in Node
    BY <1>1, <1>2, MessageFields, AcknowledgedType, BackedOffType
  <2> QED
    BY <2>1, <2>2, AdvanceCommitType, AppendEntriesForType, QueueType
       DEF node_send_append_entries_to
<1> QED
  BY <1>1, <1>2, Zenon DEF node_handle_append_entries_response, t

-----------------------------------------------------------------------------
\* The type of every field of raft_command_t.
LEMMA CommandFields ==
    ASSUME NEW c \in Command
    PROVE  c.value \in Nat /\ c.members \in SUBSET Server
BY DEF Command

\* Applying a command keeps the node well typed.
LEMMA ApplyCommandType ==
    ASSUME NEW s \in Node, NEW c \in Command
    PROVE  node_apply_command(s, c) \in Node
<1>1. ApplySetMaxlog(s, c) \in Node
  <2>1. [s EXCEPT !.compaction_threshold = c.value] \in Node
    BY CommandFields, Zenon DEF Node
  <2> QED
    BY <2>1 DEF ApplySetMaxlog
<1>2. ApplyEnterJoint(s, c) \in Node
  <2>1. [old |-> s.config_state.old, new |-> c.members, index |-> s.last_applied]
          \in Configuration
    BY NodeFields, CommandFields DEF Configuration
  <2>2. s.last_applied \in Nat \cup {-1}
    BY NodeFields
  <2>3. [s EXCEPT !.config_state = [old |-> @.old, new |-> c.members, index |-> s.last_applied],
                  !.membership_state = "JOINT",
                  !.joint_config_index = s.last_applied,
                  !.requested_membership = c.members,
                  !.requested_membership_pending = TRUE] \in Node
    BY <2>1, <2>2, CommandFields, Zenon DEF Node, MembershipState
  <2> QED
    BY <2>3, Zenon DEF ApplyEnterJoint
<1>3. ApplyLeaveJoint(s, c) \in Node
  <2> DEFINE t == [s EXCEPT !.config_state = [old |-> c.members, new |-> {},
                                              index |-> s.last_applied],
                            !.membership_state = "STABLE",
                            !.final_config_index = s.last_applied,
                            !.joint_config_index = 0,
                            !.requested_membership = {},
                            !.requested_membership_pending = FALSE]
  <2>1. [old |-> c.members, new |-> {}, index |-> s.last_applied] \in Configuration
    BY NodeFields, CommandFields DEF Configuration
  <2>2. s.last_applied \in Nat \cup {-1} /\ 0 \in Nat \cup {-1}
    BY NodeFields
  <2>3. t \in Node
    BY <2>1, <2>2, Zenon DEF Node, MembershipState
  <2>4. [t EXCEPT !.running = FALSE, !.leader_id = Nil,
                  !.votes_received = {}, !.role = "FOLLOWER"] \in Node
    <3> HIDE DEF t
    <3> QED
      BY <2>3, Zenon DEF Node, Role, MaybeServer
  <2> QED
    BY <2>3, <2>4, Zenon DEF ApplyLeaveJoint
<1>4. [s EXCEPT !.app = Append(@, c)] \in Node
  <2>1. Append(s.app, c) \in Seq(Command)
    BY NodeFields
  <2> QED
    BY <2>1, Zenon DEF Node
<1> QED
  BY <1>1, <1>2, <1>3, <1>4 DEF node_apply_command

\* Applying the next committed entry keeps the node well typed.
LEMMA ApplyNextType ==
    ASSUME NEW s \in Node
    PROVE  ApplyNext(s) \in Node
<1>1. s.last_applied + 1 \in Nat
  BY NodeFields
<1>2. [s EXCEPT !.last_applied = s.last_applied + 1, !.persist_dirty = TRUE] \in Node
  BY <1>1, Zenon DEF Node
<1>3. LogEntryAt(s, s.last_applied + 1).command \in Command
  BY <1>1, LogEntryAtType DEF Entry
<1> QED
  BY <1>2, <1>3, ApplyCommandType, Zenon DEF ApplyNext

\* node_append_internal_command keeps the node well typed.
LEMMA AppendInternalType ==
    ASSUME NEW s \in Node, NEW op \in InternalOp
    PROVE  /\ AppendInternal(s, op) \in Node
           /\ AppendInternalIndex(s) \in Nat \cup {-1}
<1>1. [op |-> op, value |-> 0, members |-> s.requested_membership] \in Command
  BY NodeFields DEF Command
<1>2. s.log_count < RAFT_MAX_LOG \/ s.log_count >= RAFT_MAX_LOG
  BY NodeFields, LimitAssumption
<1>3. AppendInternal(s, op) \in Node
  BY <1>1, <1>2, AppendAndBroadcastType DEF AppendInternal
<1>4. AppendInternalIndex(s) \in Nat \cup {-1}
  BY LogIndexTypes DEF AppendInternalIndex
<1> QED
  BY <1>3, <1>4

\* node_maybe_drive_membership keeps the node well typed; a full log gives index -1.
LEMMA DriveMembershipType ==
    ASSUME NEW s \in Node
    PROVE  node_maybe_drive_membership(s) \in Node
<1> DEFINE joint == configuration_is_joint(s.config_state)
           i == AppendInternalIndex(s)
           enter == AppendInternal(s, "enter_joint")
           leave == AppendInternal(s, "leave_joint")
<1>1. enter \in Node /\ leave \in Node /\ i \in Nat \cup {-1}
  BY AppendInternalType, Zenon DEF InternalOp
<1>2. ASSUME NEW t \in Node, NEW state \in MembershipState
      PROVE  /\ [t EXCEPT !.joint_config_index = i,
                          !.membership_state = IF i > 0 THEN state ELSE @] \in Node
             /\ [t EXCEPT !.final_config_index = i,
                          !.membership_state = IF i > 0 THEN state ELSE @] \in Node
             /\ [t EXCEPT !.membership_state = state] \in Node
  <2> HIDE DEF i
  <2> DEFINE new == IF i > 0 THEN state ELSE t.membership_state
  <2>1. new \in MembershipState
    BY NodeFields, Zenon
  <2> HIDE DEF new
  <2>2. /\ [t EXCEPT !.joint_config_index = i, !.membership_state = new] \in Node
        /\ [t EXCEPT !.final_config_index = i, !.membership_state = new] \in Node
        /\ [t EXCEPT !.membership_state = state] \in Node
    BY <1>1, <2>1, Zenon DEF Node
  <2> QED
    BY <2>2, Zenon DEF new
<1>3. /\ "JOINT_PENDING" \in MembershipState /\ "FINALIZING" \in MembershipState
      /\ "JOINT" \in MembershipState /\ "STABLE" \in MembershipState
  BY DEF MembershipState
<1> HIDE DEF enter, leave, i, joint
<1>4. /\ [enter EXCEPT !.joint_config_index = i,
                       !.membership_state = IF i > 0 THEN "JOINT_PENDING" ELSE @] \in Node
      /\ [leave EXCEPT !.final_config_index = i,
                       !.membership_state = IF i > 0 THEN "FINALIZING" ELSE @] \in Node
      /\ [s EXCEPT !.membership_state = "JOINT"] \in Node
      /\ [s EXCEPT !.membership_state = "STABLE"] \in Node
  BY <1>1, <1>2, <1>3, Zenon
<1> QED
  BY <1>4 DEF node_maybe_drive_membership, enter, leave, i, joint

\* node_compactible_index returns an index.
LEMMA CompactibleType ==
    ASSUME NEW s \in Node
    PROVE  node_compactible_index(s) \in Nat
<1> DEFINE S == {s.last_applied} \cup {s.match_index[k] : k \in PeerSlots(s)}
<1>1. S \in SUBSET Nat /\ S # {}
  <2>1. PeerSlots(s) \subseteq 1..RAFT_MAX_PEERS
    BY DEF PeerSlots
  <2>2. \A k \in PeerSlots(s) : s.match_index[k] \in Nat
    BY <2>1, NodeFields, Zenon
  <2>3. s.last_applied \in Nat
    BY NodeFields
  <2> QED
    BY <2>2, <2>3, Zenon
<1>2. Min(S) \in Nat
  BY <1>1, NatMin
<1> QED
  BY <1>2, NodeFields DEF node_compactible_index

\* Compaction under its guards leaves a log of between 0 and RAFT_MAX_LOG entries.
LEMMA DoCompactType ==
    ASSUME NEW s \in Node, Compacts(s)
    PROVE  node_do_compact(s) \in Node
<1> DEFINE target == node_compactible_index(s)
           from == target - s.snapshot_last_included_index
           keep == s.log_count - from
           log == [p \in 1..RAFT_MAX_LOG |-> IF p <= keep THEN s.log[p + from] ELSE s.log[p]]
<1>1. target \in Nat /\ s.snapshot_last_included_index \in Nat /\ s.log_count \in 0..RAFT_MAX_LOG
  BY CompactibleType, NodeFields
<1>2. target > s.snapshot_last_included_index /\ target <= node_last_log_index(s)
  BY DEF Compacts
<1>3. from \in 1..s.log_count /\ keep \in 0..RAFT_MAX_LOG
  <2> HIDE DEF target
  <2> QED
    BY <1>1, <1>2, LimitAssumption DEF node_last_log_index
<1>4. log \in [1..RAFT_MAX_LOG -> Entry]
  <2>1. ASSUME NEW p \in 1..RAFT_MAX_LOG
        PROVE  (IF p <= keep THEN s.log[p + from] ELSE s.log[p]) \in Entry
    <3> HIDE DEF from, target
    <3>1. p <= keep => p + from \in 1..RAFT_MAX_LOG
      BY <1>1, <1>3, LimitAssumption
    <3> HIDE DEF keep
    <3> QED
      BY <3>1, NodeFields
  <2> QED
    BY <2>1, Zenon
<1>5. node_term_at_index(s, target) \in Nat
  BY <1>1, TermAtType
<1>6. [s EXCEPT !.snapshot_buf = s.app, !.log = log, !.log_count = keep,
                !.snapshot_last_included_index = target,
                !.snapshot_last_included_term = node_term_at_index(s, target),
                !.persist_dirty = TRUE] \in Node
  <2> HIDE DEF log, keep, target
  <2> QED
    BY <1>1, <1>3, <1>4, <1>5, NodeFields, Zenon DEF Node
<1> QED
  BY <1>6, Zenon DEF node_do_compact

\* The node after the membership driver and compaction is well typed.
LEMMA CompactedType ==
    ASSUME NEW s \in Node
    PROVE  Compacted(s) \in Node
BY DriveMembershipType, DoCompactType DEF Compacted

\* action_become_candidate keeps the node well typed.
LEMMA BecomeCandidateType ==
    ASSUME NEW s \in Node
    PROVE  action_become_candidate(s) \in Node
<1> DEFINE t == [s EXCEPT !.current_term = @ + 1, !.voted_for = s.id,
                          !.votes_received = {s.id}, !.leader_id = Nil, !.persist_dirty = TRUE]
           RequestVoteFor(p) ==
               [ZeroMessage EXCEPT !.kind = "REQUEST_VOTE", !.term = t.current_term,
                                   !.source = s.id, !.target = p,
                                   !.last_log_index = node_last_log_index(s),
                                   !.last_log_term = node_last_log_term(s)]
<1>1. t \in Node
  <2>1. s.current_term + 1 \in Nat /\ s.id \in MaybeServer /\ {s.id} \in SUBSET MaybeServer
    BY NodeFields DEF MaybeServer
  <2> QED
    BY <2>1, Zenon DEF Node, MaybeServer
<1>2. ASSUME NEW p \in Peers(s) PROVE RequestVoteFor(p) \in Message
  <2>1. p \in MaybeServer /\ s.id \in MaybeServer
    BY PeersAreServers, NodeFields DEF MaybeServer
  <2>2. /\ t.current_term \in Nat /\ node_last_log_index(s) \in Nat
        /\ node_last_log_term(s) \in Nat
    BY <1>1, NodeFields, LogIndexTypes, LastTermType
  <2> HIDE DEF t
  <2> QED
    BY <2>1, <2>2, ZeroTypes, Zenon DEF Message, MessageKind
<1>3. [t EXCEPT !.role = "CANDIDATE",
                !.outbox = @ \cup {RequestVoteFor(p) : p \in Peers(s)}] \in Node
  <2> HIDE DEF t, RequestVoteFor
  <2>1. t.outbox \cup {RequestVoteFor(p) : p \in Peers(s)} \in SUBSET Message
    BY <1>1, <1>2, NodeFields
  <2> QED
    BY <1>1, <2>1, Zenon DEF Node, Role
<1> QED
  BY <1>3, Zenon DEF action_become_candidate

\* action_back_to_follower_due_to_timeout keeps the node well typed.
LEMMA BackToFollowerType ==
    ASSUME NEW s \in Node
    PROVE  action_back_to_follower_due_to_timeout(s) \in Node
BY Zenon DEF action_back_to_follower_due_to_timeout, Node, Role, MaybeServer

\* action_become_leader keeps the node well typed.
LEMMA BecomeLeaderType ==
    ASSUME NEW s \in Node
    PROVE  action_become_leader(s) \in Node
<1> DEFINE next == [k \in 1..RAFT_MAX_PEERS |->
                       IF k \in PeerSlots(s) THEN node_last_log_index(s) + 1 ELSE s.next_index[k]]
           match == [k \in 1..RAFT_MAX_PEERS |->
                       IF k \in PeerSlots(s) THEN 0 ELSE s.match_index[k]]
           t == [s EXCEPT !.role = "LEADER", !.leader_id = s.id,
                          !.next_index = next, !.match_index = match]
<1>1. /\ next \in [1..RAFT_MAX_PEERS -> Nat]
      /\ match \in [1..RAFT_MAX_PEERS -> Nat]
  <2>1. node_last_log_index(s) + 1 \in Nat
    BY LogIndexTypes
  <2> QED
    BY <2>1, NodeFields
<1>2. t \in Node
  <2>1. s.id \in MaybeServer
    BY NodeFields DEF MaybeServer
  <2> HIDE DEF next, match
  <2> QED
    BY <1>1, <2>1, Zenon DEF Node, Role
<1>3. action_become_leader(s) = node_broadcast_append_entries(t)
  BY Zenon DEF action_become_leader
<1> HIDE DEF t
<1> QED
  BY <1>2, <1>3, BroadcastType

-----------------------------------------------------------------------------
\* The type of every file and of every line of meta.txt.
LEMMA DiskFields ==
    ASSUME NEW d \in Disk
    PROVE  /\ d.meta \in Meta /\ d.log \in Seq(Entry) /\ d.snapshot \in Snapshot
           /\ d.meta.current_term \in Nat /\ d.meta.voted_for \in MaybeServer
           /\ d.meta.compaction_threshold \in Nat /\ d.meta.commit_index \in Nat
           /\ d.meta.snapshot_last_included_index \in Nat
           /\ d.meta.snapshot_last_included_term \in Nat
           /\ d.meta.config_state \in Configuration
           /\ d.snapshot.data \in Seq(Command)
BY Zenon DEF Disk, Meta, Snapshot

\* An empty directory is a directory.
LEMMA EmptyDiskType == EmptyDisk \in Disk
<1>1. NoMeta \in Meta
  <2>1. 0 \in Nat /\ RAFT_MAX_LOG \in Nat
    BY LimitAssumption
  <2> QED
    BY <2>1, ZeroTypes, Zenon DEF NoMeta, Meta, MaybeServer
<1>2. NoSnapshot \in Snapshot
  BY DEF NoSnapshot, Snapshot
<1> QED
  BY <1>1, <1>2 DEF EmptyDisk, Disk

\* write_meta and write_log write well-typed files.
LEMMA WriteTypes ==
    ASSUME NEW s \in Node
    PROVE  write_meta(s) \in Meta /\ write_log(s) \in Seq(Entry)
<1>1. write_meta(s) \in Meta
  BY NodeFields, Zenon DEF write_meta, Meta
<1>2. write_log(s) \in Seq(Entry)
  <2>1. s.log_count \in Nat /\ \A p \in 1..s.log_count : s.log[p] \in Entry
    BY NodeFields, LimitAssumption
  <2> QED
    BY <2>1 DEF write_log
<1> QED
  BY <1>1, <1>2

\* raft_storage_node_save leaves a well-typed directory.
LEMMA SaveType ==
    ASSUME NEW s \in Node, NEW d \in Disk
    PROVE  raft_storage_node_save(d, s) \in Disk
BY WriteTypes, Zenon DEF raft_storage_node_save, Disk

\* raft_storage_save_snapshot leaves a well-typed directory.
LEMMA SaveSnapshotType ==
    ASSUME NEW s \in Node, NEW d \in Disk, NEW i \in Nat, NEW t \in Nat
    PROVE  raft_storage_save_snapshot(d, s, i, t) \in Disk
<1>1. [index |-> i, term |-> t, data |-> s.snapshot_buf] \in Snapshot
  BY NodeFields DEF Snapshot
<1> QED
  BY <1>1, Zenon DEF raft_storage_save_snapshot, Disk

\* load never reads more than RAFT_MAX_LOG entries, nor past the end of log.txt.
LEMMA LoadedCountType ==
    ASSUME NEW d \in Disk
    PROVE  LoadedCount(d) \in 0..RAFT_MAX_LOG /\ SkippedLines(d) \in 0..Len(d.log)
           /\ LoadedCount(d) + SkippedLines(d) <= Len(d.log)
<1> DEFINE S == {i \in 1..Len(d.log) : d.log[i].index <= d.meta.snapshot_last_included_index}
<1>1. Len(d.log) \in Nat
  BY DiskFields
<1>2. IsFiniteSet(1..Len(d.log)) /\ Cardinality(1..Len(d.log)) = Len(d.log)
  BY <1>1, FS_Interval
<1>3. S \in SUBSET (1..Len(d.log))
  OBVIOUS
<1>4. IsFiniteSet(S) /\ Cardinality(S) <= Len(d.log)
  <2> HIDE DEF S
  <2> QED
    BY <1>2, <1>3, FS_Subset
<1>5. Cardinality(S) \in Nat
  <2> HIDE DEF S
  <2> QED
    BY <1>4, FS_CardinalityType
<1>6. SkippedLines(d) \in 0..Len(d.log)
  BY <1>1, <1>4, <1>5 DEF SkippedLines
<1> QED
  BY <1>1, <1>6, LimitAssumption DEF LoadedCount, Smaller

\* raft_storage_node_load keeps the node well typed.
LEMMA LoadType ==
    ASSUME NEW s \in Node, NEW d \in Disk
    PROVE  raft_storage_node_load(s, d) \in Node
<1> DEFINE snap == d.meta.snapshot_last_included_index
           buf == IF SnapshotMatches(d) THEN d.snapshot.data ELSE << >>
           commit == Smaller(d.meta.commit_index, snap + LoadedCount(d))
           applied == IF SnapshotMatches(d) THEN snap ELSE 0
<1>1. snap \in Nat /\ commit \in Nat /\ applied \in Nat /\ LoadedCount(d) \in 0..RAFT_MAX_LOG
  BY DiskFields, LoadedCountType, LimitAssumption DEF Smaller
<1>2. buf \in Seq(Command)
  BY DiskFields
<1>3. LoadedLog(d) \in [1..RAFT_MAX_LOG -> Entry]
  <2>1. ASSUME NEW p \in 1..RAFT_MAX_LOG, p <= LoadedCount(d)
        PROVE  d.log[p + SkippedLines(d)] \in Entry
    <3>1. p + SkippedLines(d) \in 1..Len(d.log)
      BY <2>1, LoadedCountType, DiskFields, LimitAssumption
    <3> QED
      BY <3>1, DiskFields
  <2> QED
    BY <2>1, ZeroTypes, Zenon DEF LoadedLog
<1>4. [s EXCEPT !.current_term = d.meta.current_term,
                !.voted_for = d.meta.voted_for,
                !.compaction_threshold = d.meta.compaction_threshold,
                !.config_state = d.meta.config_state,
                !.snapshot_last_included_index = snap,
                !.snapshot_last_included_term = d.meta.snapshot_last_included_term,
                !.log = LoadedLog(d),
                !.log_count = LoadedCount(d),
                !.commit_index = commit,
                !.snapshot_buf = buf,
                !.app = buf,
                !.last_applied = applied] \in Node
  <2> HIDE DEF snap, buf, commit, applied
  <2> QED
    BY <1>1, <1>2, <1>3, DiskFields, Zenon DEF Node
<1> QED
  BY <1>4, Zenon DEF raft_storage_node_load

\* The node raft_node_init starts from is well typed.
LEMMA ZeroNodeType ==
    ASSUME NEW n \in Server
    PROVE  ZeroNode(n) \in Node
<1>1. /\ 0 \in Nat /\ 0 \in Nat \cup {-1} /\ 0 \in 0..RAFT_MAX_LOG /\ RAFT_MAX_LOG \in Nat
      /\ << >> \in Seq(Command)
  BY LimitAssumption
<1>2. (n \in Learners) \in BOOLEAN
  OBVIOUS
<1> QED
  BY <1>1, <1>2, ZeroTypes, Zenon DEF ZeroNode, Node, Role, MembershipState, MaybeServer

\* Taking the configured members keeps the node well typed.
LEMMA DefaultMembersType ==
    ASSUME NEW s \in Node
    PROVE  DefaultMembers(s) \in Node
<1>1. [old |-> InitialMembers[s.id], new |-> {}, index |-> 0] \in Configuration
  BY NodeFields, DeploymentAssumption DEF Configuration
<1>2. [s EXCEPT !.config_state = [old |-> InitialMembers[s.id], new |-> {}, index |-> 0]] \in Node
  BY <1>1, Zenon DEF Node
<1> QED
  BY <1>2, Zenon DEF DefaultMembers

\* Discarding the persisted state keeps the node well typed.
LEMMA ForgetType ==
    ASSUME NEW s \in Node
    PROVE  Forget(s) \in Node
<1>1. 0 \in Nat /\ 0 \in 0..RAFT_MAX_LOG
  BY LimitAssumption
<1> QED
  BY <1>1, ZeroTypes, Zenon DEF Forget, Node, MaybeServer

\* raft_node_init boots a well-typed node from any directory.
LEMMA InitNodeType ==
    ASSUME NEW n \in Server, NEW d \in Disk
    PROVE  raft_node_init(n, d) \in Node
<1> DEFINE loaded == raft_storage_node_load(ZeroNode(n), d)
           threshold == IF loaded.compaction_threshold <= 0 THEN RAFT_MAX_LOG
                        ELSE loaded.compaction_threshold
           checked == [loaded EXCEPT !.compaction_threshold =
                                         IF @ <= 0 THEN RAFT_MAX_LOG ELSE @]
           s == DefaultMembers(IF n \in Learners THEN Forget(checked) ELSE checked)
<1>1. loaded \in Node
  BY ZeroNodeType, LoadType
<1>2. checked \in Node
  <2> HIDE DEF loaded
  <2>1. threshold \in Nat
    BY <1>1, NodeFields, LimitAssumption
  <2>2. checked = [loaded EXCEPT !.compaction_threshold = threshold]
    BY Zenon
  <2> HIDE DEF checked, threshold
  <2> QED
    BY <1>1, <2>1, <2>2, Zenon DEF Node
<1>3. s \in Node
  <2> HIDE DEF checked
  <2> QED
    BY <1>2, ForgetType, DefaultMembersType, Zenon
<1>4. [s EXCEPT !.membership_state =
          IF configuration_is_joint(s.config_state) THEN "JOINT" ELSE "STABLE"] \in Node
  <2> HIDE DEF s
  <2>1. (IF configuration_is_joint(s.config_state) THEN "JOINT" ELSE "STABLE")
           \in MembershipState
    BY DEF MembershipState
  <2> QED
    BY <1>3, <2>1, Zenon DEF Node
<1> QED
  BY <1>4, Zenon DEF raft_node_init

\* raft_node_stop keeps the node well typed.
LEMMA StopType ==
    ASSUME NEW s \in Node
    PROVE  raft_node_stop(s) \in Node
BY Zenon DEF raft_node_stop, Node, Role

\* raft_node_start keeps the node well typed.
LEMMA StartType ==
    ASSUME NEW s \in Node, NEW d \in Disk
    PROVE  raft_node_start(s, d) \in Node
<1> DEFINE t == DefaultMembers(raft_storage_node_load(s, d))
<1>1. t \in Node
  BY LoadType, DefaultMembersType, Zenon
<1>2. [t EXCEPT !.running = TRUE, !.role = "FOLLOWER"] \in Node
  <2> HIDE DEF t
  <2> QED
    BY <1>1, Zenon DEF Node, Role
<1> QED
  BY <1>2, Zenon DEF raft_node_start

\* raft_node_reset_for_join keeps the node well typed.
LEMMA ResetType ==
    ASSUME NEW s \in Node
    PROVE  raft_node_reset_for_join(s) \in Node
<1> DEFINE t == Forget(s)
<1>1. t \in Node
  BY ForgetType
<1>2. [t EXCEPT !.log = [p \in 1..RAFT_MAX_LOG |-> ZeroEntry],
                !.leader_id = Nil, !.votes_received = {}, !.outbox = {},
                !.learner = TRUE, !.membership_state = "STABLE",
                !.running = TRUE, !.role = "FOLLOWER", !.persist_dirty = FALSE] \in Node
  <2> HIDE DEF t
  <2> QED
    BY <1>1, ZeroTypes, ZenonT(60) DEF Node, Role, MembershipState, MaybeServer
<1> QED
  BY <1>2, Zenon DEF raft_node_reset_for_join

-----------------------------------------------------------------------------
\* The node after a latch is well typed.
LEMMA LatchedType ==
    ASSUME NEW s \in Node, NEW r \in SUBSET Message,
           NEW commands, commands # << >> => commands \in Seq(Command)
    PROVE  Latched(s, r, commands) \in Node
<1> DEFINE responses == {m \in r : IsResponse(m)}
           m == CHOOSE m \in responses : TRUE
           t == IF responses = {} THEN s ELSE node_handle_append_entries_response(s, m)
<1>1. t \in Node
  <2>1. CASE responses = {}
    BY <2>1, Zenon
  <2>2. CASE responses # {}
    <3>1. m \in Message
      BY <2>2
    <3> HIDE DEF m, responses
    <3> QED
      BY <2>2, <3>1, AppendEntriesResponseType, Zenon
  <2> QED
    BY <2>1, <2>2
<1>2. Latched(s, r, commands) =
        IF commands # << >> /\ node_is_leader(t) /\ t.log_count < RAFT_MAX_LOG
        THEN AppendAndBroadcast(t, Head(commands))
        ELSE t
  BY Zenon DEF Latched
<1> HIDE DEF t
<1>3. ASSUME commands # << >> PROVE Head(commands) \in Command
  BY <1>3
<1> QED
  BY <1>1, <1>2, <1>3, AppendAndBroadcastType

\* The node at the beginning of a dump is well typed.
LEMMA AdvancedType ==
    ASSUME NEW s \in Node
    PROVE  Advanced(s) \in Node
BY AdvanceCommitType, Zenon DEF Advanced

\* The directory after compaction is well typed.
LEMMA DiskAfterCompactionType ==
    ASSUME NEW d \in Disk, NEW s, NEW t \in Node
    PROVE  DiskAfterCompaction(d, s, t) \in Disk
BY NodeFields, SaveSnapshotType, Zenon DEF DiskAfterCompaction

\* net' after a Deliver holds messages.
LEMMA DeliverType ==
    ASSUME net \in SUBSET Message, NEW received, NEW out \in SUBSET Message,
           Deliver(received, out)
    PROVE  net' \in SUBSET Message
BY DEF Deliver, Accepted

\* The end of a dump keeps TypeOK.
LEMMA FinishDumpType ==
    ASSUME TypeOK, NEW n \in Server, NEW s \in Node, NEW received, FinishDump(n, s, received)
    PROVE  TypeOK'
<1> DEFINE t == Compacted(s)
           d == DiskAfterCompaction(disk[n], s, t)
           saved == IF t.persist_dirty THEN raft_storage_node_save(d, t) ELSE d
           sent == [t EXCEPT !.persist_dirty = FALSE, !.outbox = {}]
<1>1. t \in Node
  BY CompactedType
<1>2. d \in Disk
  <2> HIDE DEF t
  <2> QED
    BY <1>1, DiskAfterCompactionType DEF TypeOK
<1>3. saved \in Disk /\ sent \in Node
  <2> HIDE DEF t, d
  <2> QED
    BY <1>1, <1>2, SaveType, Zenon DEF Node
<1>4. /\ disk' = [disk EXCEPT ![n] = saved]
      /\ node' = [node EXCEPT ![n] = sent]
      /\ Deliver(received, t.outbox)
      /\ tick' = NoTick
      /\ UNCHANGED <<crashes, calls>>
  BY Zenon DEF FinishDump
<1> HIDE DEF t, saved, sent
<1>5. net' \in SUBSET Message
  BY <1>1, <1>4, NodeFields, DeliverType DEF TypeOK
<1>6. node' \in [Server -> Node] /\ disk' \in [Server -> Disk]
  BY <1>3, <1>4, Zenon DEF TypeOK
<1> QED
  BY <1>4, <1>5, <1>6, Zenon DEF TypeOK, NoTick, MaybeServer

\* The dump after a row keeps TypeOK.
LEMMA DumpType ==
    ASSUME TypeOK, NEW n \in Server, NEW s \in Node, NEW r \in SUBSET Message, Dump(n, s, r)
    PROVE  TypeOK'
<1> DEFINE t == Advanced(s)
           received == tick.received \cup r
<1>1. t \in Node /\ received \in SUBSET Message
  BY AdvancedType DEF TypeOK
<1>2. \/ /\ node' = [node EXCEPT ![n] = t]
         /\ tick' = [node |-> n, step |-> "dump", received |-> received]
         /\ UNCHANGED <<disk, net, crashes, calls>>
      \/ FinishDump(n, t, received)
  BY Zenon DEF Dump
<1> HIDE DEF t, received
<1>3. CASE FinishDump(n, t, received)
  BY <1>1, <1>3, FinishDumpType
<1>4. CASE /\ node' = [node EXCEPT ![n] = t]
           /\ tick' = [node |-> n, step |-> "dump", received |-> received]
           /\ UNCHANGED <<disk, net, crashes, calls>>
  <2>1. node' \in [Server -> Node]
    BY <1>1, <1>4, Zenon DEF TypeOK
  <2>2. tick' \in [node : MaybeServer, step : {"latch", "dump"}, received : SUBSET Message]
    BY <1>1, <1>4 DEF MaybeServer
  <2> QED
    BY <1>4, <2>1, <2>2, Zenon DEF TypeOK
<1> QED
  BY <1>2, <1>3, <1>4

\* Every row of RAFT_TRANSITIONS keeps TypeOK.
LEMMA TransitionType ==
    ASSUME TypeOK, NEW n \in Server, NEW s \in Node, NEW r \in SUBSET Message,
           Transition(n, s, r)
    PROVE  TypeOK'
<1>1. CASE BecomeCandidate(n, s, r)
  BY <1>1, BecomeCandidateType, DumpType, Zenon DEF BecomeCandidate
<1>2. CASE BackToFollower(n, s, r)
  BY <1>2, BackToFollowerType, DumpType, Zenon DEF BackToFollower
<1>3. CASE BecomeLeader(n, s, r)
  BY <1>3, BecomeLeaderType, DumpType, Zenon DEF BecomeLeader
<1>4. ASSUME NEW t \in Node PROVE [t EXCEPT !.role = "FOLLOWER"] \in Node
  BY Zenon DEF Node, Role
<1>5. CASE HandleAppendEntries(n, s, r)
  <2>1. PICK m \in Pending(r, "APPEND_ENTRIES") :
          Dump(n, [node_handle_append_entries(s, m) EXCEPT !.role = "FOLLOWER"], r)
    BY <1>5, Zenon DEF HandleAppendEntries
  <2>2. m \in Message
    BY <2>1, Zenon DEF Pending
  <2>3. [node_handle_append_entries(s, m) EXCEPT !.role = "FOLLOWER"] \in Node
    BY <1>4, <2>2, AppendEntriesType
  <2> QED
    BY <2>1, <2>3, DumpType, Zenon
<1>6. CASE HandleHigherVoteRequest(n, s, r)
  <2>1. PICK m \in Pending(r, "REQUEST_VOTE") :
          Dump(n, [node_handle_vote_request(s, m) EXCEPT !.role = "FOLLOWER"], r)
    BY <1>6, Zenon DEF HandleHigherVoteRequest
  <2>2. m \in Message
    BY <2>1, Zenon DEF Pending
  <2>3. [node_handle_vote_request(s, m) EXCEPT !.role = "FOLLOWER"] \in Node
    BY <1>4, <2>2, VoteRequestType
  <2> QED
    BY <2>1, <2>3, DumpType, Zenon
<1>7. CASE HandleVoteRequest(n, s, r)
  <2>1. PICK m \in Pending(r, "REQUEST_VOTE") :
          Dump(n, IF s.role = "LEADER" THEN s ELSE node_handle_vote_request(s, m), r)
    BY <1>7, Zenon DEF HandleVoteRequest
  <2>2. m \in Message
    BY <2>1, Zenon DEF Pending
  <2>3. (IF s.role = "LEADER" THEN s ELSE node_handle_vote_request(s, m)) \in Node
    BY <2>2, VoteRequestType, Zenon
  <2> QED
    BY <2>1, <2>3, DumpType, Zenon
<1>8. CASE HandleVote(n, s, r)
  <2>1. PICK m \in Pending(r, "REQUEST_VOTE_RESPONSE") :
          Dump(n, IF s.role = "CANDIDATE" THEN node_handle_vote_response(s, m) ELSE s, r)
    BY <1>8, Zenon DEF HandleVote
  <2>2. m \in Message
    BY <2>1, Zenon DEF Pending
  <2>3. (IF s.role = "CANDIDATE" THEN node_handle_vote_response(s, m) ELSE s) \in Node
    BY <2>2, VoteResponseType, Zenon
  <2> QED
    BY <2>1, <2>3, DumpType, Zenon
<1>9. CASE SendHeartbeat(n, s, r)
  BY <1>9, BroadcastType, DumpType, Zenon DEF SendHeartbeat
<1>10. CASE NoTransition(n, s, r)
  BY <1>10, DumpType, Zenon DEF NoTransition
<1> QED
  BY <1>1, <1>2, <1>3, <1>5, <1>6, <1>7, <1>8, <1>9, <1>10, Zenon DEF Transition

\* A crash and restart from a well-typed directory keeps TypeOK.
LEMMA RebootType ==
    ASSUME TypeOK, NEW n \in Server, NEW d \in Disk, Reboot(n, d)
    PROVE  TypeOK'
<1>1. node' \in [Server -> Node] /\ disk' \in [Server -> Disk]
  BY InitNodeType, Zenon DEF Reboot, TypeOK
<1>2. net' \in SUBSET Message
  <2>1. Deliver(tick.received, {}) /\ {} \in SUBSET Message /\ net \in SUBSET Message
    BY Zenon DEF Reboot, TypeOK
  <2> QED
    BY <2>1, DeliverType
<1>3. crashes' \in 0..MaxCrashes
  BY BoundAssumption DEF Reboot, TypeOK
<1> QED
  BY <1>1, <1>2, <1>3, Zenon DEF Reboot, TypeOK, NoTick, MaybeServer

\* Every step of a tick keeps TypeOK.
LEMMA TickTypeStep ==
    ASSUME TypeOK, NEW n \in Server, Tick(n)
    PROVE  TypeOK'
<1>0. node[n] \in Node /\ tick.received \in SUBSET Message /\ net \in SUBSET Message
  BY DEF TypeOK
<1>1. CASE LatchResponse(n)
  <2>1. PICK m \in Inbox(n) :
          /\ node' = [node EXCEPT ![n] = node_handle_append_entries_response(@, m)]
          /\ tick' = [node |-> n, step |-> "latch", received |-> tick.received \cup {m}]
    BY <1>1, Zenon DEF LatchResponse
  <2>2. m \in Message
    BY <1>0, <2>1, Zenon DEF Inbox
  <2>3. node' \in [Server -> Node]
    BY <1>0, <2>1, <2>2, AppendEntriesResponseType, Zenon DEF TypeOK
  <2>4. tick' \in [node : MaybeServer, step : {"latch", "dump"}, received : SUBSET Message]
    BY <1>0, <2>1, <2>2 DEF MaybeServer
  <2> QED
    BY <1>1, <2>3, <2>4, Zenon DEF LatchResponse, TypeOK
<1>2. CASE LatchAndRow(n)
  <2>1. PICK r \in Batches(n), commands \in Submitted(n) :
          Transition(n, Latched(node[n], r, commands), r)
    BY <1>2, Zenon DEF LatchAndRow
  <2>2. r \in SUBSET Message
    BY <1>0, <2>1 DEF Batches, Inbox
  <2>3. commands # << >> => commands \in Seq(Command)
    <3>1. commands = << >> \/ \E c \in ClientCommands : commands = <<c>>
      BY <2>1, Zenon DEF Submitted
    <3>2. ClientCommands \subseteq Command
      BY BoundAssumption, Zenon
    <3>3. ASSUME NEW c \in Command PROVE <<c>> \in Seq(Command)
      OBVIOUS
    <3> QED
      BY <3>1, <3>2, <3>3, Zenon
  <2> QED
    BY <1>0, <2>1, <2>2, <2>3, LatchedType, TransitionType, Zenon
<1>3. CASE ApplyEntry(n)
  <2>1. node' \in [Server -> Node]
    BY <1>0, <1>3, ApplyNextType, Zenon DEF ApplyEntry, TypeOK
  <2> QED
    BY <1>3, <2>1, Zenon DEF ApplyEntry, TypeOK
<1>4. CASE FinishTick(n)
  BY <1>0, <1>4, FinishDumpType, Zenon DEF FinishTick
<1> QED
  BY <1>1, <1>2, <1>3, <1>4, Zenon DEF Tick

\* Every crash keeps TypeOK.
LEMMA FailType ==
    ASSUME TypeOK, NEW n \in Server, Fail(n)
    PROVE  TypeOK'
<1> DEFINE t == Compacted(node[n])
           d == DiskAfterCompaction(disk[n], node[n], t)
<1>1. node[n] \in Node /\ disk[n] \in Disk
  BY DEF TypeOK
<1>2. t \in Node
  BY <1>1, CompactedType
<1>3. d \in Disk
  <2> HIDE DEF t
  <2> QED
    BY <1>1, <1>2, DiskAfterCompactionType
<1>4. [d EXCEPT !.meta = write_meta(t)] \in Disk
  <2> HIDE DEF t, d
  <2> QED
    BY <1>2, <1>3, WriteTypes, Zenon DEF Disk
<1>5. raft_storage_node_save(d, t) \in Disk
  <2> HIDE DEF t, d
  <2> QED
    BY <1>2, <1>3, SaveType
<1>6. \E f \in {disk[n], d, [d EXCEPT !.meta = write_meta(t)], raft_storage_node_save(d, t)} :
          Reboot(n, f)
  BY Zenon DEF Fail, Crash, CrashAfterSnapshot, CrashAfterMeta, CrashAfterSave
<1> HIDE DEF t, d
<1> QED
  BY <1>1, <1>3, <1>4, <1>5, <1>6, RebootType, Zenon

\* Every call of the application keeps TypeOK.
LEMMA CallType ==
    ASSUME TypeOK, NEW n \in Server, Call(n)
    PROVE  TypeOK'
<1>0. node[n] \in Node /\ disk[n] \in Disk
  BY DEF TypeOK
<1>1. ASSUME Calls(n) PROVE calls' \in 0..MaxApiCalls
  BY <1>1, BoundAssumption DEF Calls, TypeOK
<1>2. CASE Stop(n)
  <2>1. node' \in [Server -> Node]
    BY <1>0, <1>2, StopType, Zenon DEF Stop, TypeOK
  <2> QED
    BY <1>1, <1>2, <2>1, Zenon DEF Stop, TypeOK
<1>3. CASE Start(n)
  <2>1. node' \in [Server -> Node]
    BY <1>0, <1>3, StartType, Zenon DEF Start, TypeOK
  <2> QED
    BY <1>1, <1>3, <2>1, Zenon DEF Start, TypeOK
<1>4. CASE RequestMembershipChange(n)
  <2>1. PICK members \in Memberships :
          node' = [node EXCEPT ![n].requested_membership = members,
                               ![n].requested_membership_pending = @ \/ members # {}]
    BY <1>4, Zenon DEF RequestMembershipChange
  <2>2. members \in SUBSET Server
    BY <2>1, BoundAssumption
  <2> DEFINE pending == node[n].requested_membership_pending \/ members # {}
             t == [node[n] EXCEPT !.requested_membership = members,
                                  !.requested_membership_pending = pending]
  <2>3. t \in Node
    <3>1. pending \in BOOLEAN
      OBVIOUS
    <3> HIDE DEF pending
    <3> QED
      BY <1>0, <2>2, <3>1, Zenon DEF Node
  <2>4. node' = [node EXCEPT ![n] = t]
    BY <2>1 DEF TypeOK
  <2> HIDE DEF t
  <2>5. node' \in [Server -> Node]
    BY <2>3, <2>4, Zenon DEF TypeOK
  <2> QED
    BY <1>1, <1>4, <2>5, Zenon DEF RequestMembershipChange, TypeOK
<1>5. CASE ResetForJoin(n)
  <2> DEFINE s == raft_node_reset_for_join(node[n])
  <2>1. s \in Node
    BY <1>0, ResetType
  <2>2. [s EXCEPT !.app = << >>] \in Node
    <3> HIDE DEF s
    <3>1. << >> \in Seq(Command)
      OBVIOUS
    <3> QED
      BY <2>1, <3>1, Zenon DEF Node
  <2>3. /\ node' = [node EXCEPT ![n] = [s EXCEPT !.app = << >>]]
        /\ disk' = [disk EXCEPT ![n] = raft_storage_node_save(@, s)]
    BY <1>5, Zenon DEF ResetForJoin
  <2> HIDE DEF s
  <2>4. node' \in [Server -> Node] /\ disk' \in [Server -> Disk]
    BY <1>0, <2>1, <2>2, <2>3, SaveType, Zenon DEF TypeOK
  <2> QED
    BY <1>1, <1>5, <2>4, Zenon DEF ResetForJoin, TypeOK
<1> QED
  BY <1>2, <1>3, <1>4, <1>5, Zenon DEF Call

\* Every field of every node, file and message has its type, in every behaviour of any
\* number of nodes: in particular log_count never leaves 0..RAFT_MAX_LOG through appends,
\* merges, compaction and restarts, and no index becomes negative.
THEOREM TypeCorrect == Spec => []TypeOK
<1>1. Init => TypeOK
  <2> SUFFICES ASSUME Init PROVE TypeOK
    OBVIOUS
  <2>1. node \in [Server -> Node] /\ disk \in [Server -> Disk]
    BY EmptyDiskType, InitNodeType, Zenon DEF Init
  <2>2. crashes \in 0..MaxCrashes /\ calls \in 0..MaxApiCalls
    BY BoundAssumption DEF Init
  <2>3. tick \in [node : MaybeServer, step : {"latch", "dump"}, received : SUBSET Message]
    BY Zenon DEF Init, NoTick, MaybeServer
  <2>4. net \subseteq Message
    BY DEF Init
  <2> QED
    BY <2>1, <2>2, <2>3, <2>4, Zenon DEF TypeOK
<1>2. TypeOK /\ [Next]_vars => TypeOK'
  <2> SUFFICES ASSUME TypeOK, [Next]_vars PROVE TypeOK'
    OBVIOUS
  <2>1. ASSUME NEW n \in Server, Tick(n) \/ Fail(n) \/ Call(n) PROVE TypeOK'
    BY <2>1, TickTypeStep, FailType, CallType, Zenon
  <2>2. CASE QuietTicks
    BY <2>2, Zenon DEF QuietTicks, TypeOK, vars
  <2>3. CASE UNCHANGED vars
    BY <2>3, Zenon DEF TypeOK, vars
  <2> QED
    BY <2>1, <2>2, <2>3, Zenon DEF Next
<1> QED
  BY <1>1, <1>2, PTL DEF Spec

=============================================================================
