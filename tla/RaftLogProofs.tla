--------------------------- MODULE RaftLogProofs ---------------------------
(***************************************************************************)
(* Logs and restarts, for any number of nodes, entries and API calls:      *)
(* every entry sits at the slot its index names, a leader never            *)
(* loses an entry of its own, a clean node loses nothing in a restart, and *)
(* the entry to apply next is in the log.                                  *)
(*                                                                         *)
(* None of this is inductive by itself.  An entry in place may come from a *)
(* message, so messages must number their entries (Ordered), in flight and *)
(* in the outbox; or from log.txt, of which meta.txt may be a newer        *)
(* version, so log.txt may only start too early (LogBase).  A restart      *)
(* gives back the commit index only because it is never past the log, and  *)
(* the members only because they are never empty.  What a handler does to  *)
(* one node is said by Preserves, which composes; the steps of the cluster *)
(* are then a few cases of what happens to memory and files.               *)
(***************************************************************************)
EXTENDS RaftProperties, RaftTypeProofs

\* Where the files of a node that crashes may be trusted: a learner discards its files
\* when it boots and overwrites them later, meta.txt first.
LogsSurvive == Learners = {} \/ MaxCrashes = 0

\* A deployment in which the nodes that are not started with --join have members and are
\* not reset.
MembersKnown ==
    /\ Rejoining \subseteq Learners
    /\ \A n \in Server \ Learners : InitialMembers[n] # {}

-----------------------------------------------------------------------------
(* One node.                                                               *)

InPlace(s) == \A p \in 1..s.log_count : s.log[p].index = s.snapshot_last_included_index + p

Ordered(m) == \A k \in 1..Len(m.entries) : m.entries[k].index = m.prev_log_index + k

Sound(s) ==
    /\ InPlace(s)
    /\ s.commit_index <= node_last_log_index(s)
    /\ \A m \in s.outbox : Ordered(m)

Configured(s) == ~s.learner /\ s.compaction_threshold > 0 /\ s.config_state.old # {}

AppliedSnapshot(s) == s.snapshot_last_included_index <= s.last_applied

SameSnapshot(s, t) ==
    /\ t.snapshot_last_included_index = s.snapshot_last_included_index
    /\ t.snapshot_last_included_term = s.snapshot_last_included_term

\* What every handler does to a node.
Preserves(s, t) ==
    /\ t.id = s.id
    /\ s.snapshot_last_included_index <= t.snapshot_last_included_index
    /\ LogsSurvive /\ Sound(s) => Sound(t)
    /\ Configured(s) => Configured(t)
    /\ AppliedSnapshot(s) => AppliedSnapshot(t)
    /\ \/ t.persist_dirty
       \/ ~s.persist_dirty /\ PersistentState(t) = PersistentState(s)

\* Entry p of s is compacted in t or still in t's log.
Survives(s, t, p) ==
    LET q == s.snapshot_last_included_index + p - t.snapshot_last_included_index
    IN  q > 0 => q <= t.log_count /\ t.log[q] = s.log[p]

Grows(s, t) ==
    /\ s.snapshot_last_included_index <= t.snapshot_last_included_index
    /\ \A p \in 1..s.log_count : Survives(s, t, p)

\* The log grows and nobody is promoted.
Stays(s, t) == Grows(s, t) /\ t.role \in {s.role, "FOLLOWER"}

-----------------------------------------------------------------------------
(* A node and its files.                                                   *)

Consecutive(log, b) == \A i \in 1..Len(log) : log[i].index = b + i

\* log.txt starts with or before the entry that follows index i.
LogBase(d, i) == \E b \in 0..i : Consecutive(d.log, b)

FilesInPlace(s, d) ==
    /\ LogBase(d, d.meta.snapshot_last_included_index)
    /\ LogBase(d, s.snapshot_last_included_index)

FilesConfigured(d) ==
    /\ d.meta.compaction_threshold > 0
    /\ d.meta.config_state.old # {} \/ d.log = << >>

\* A restart gives back a clean node.
Restarts(n, s, d) ==
    ~s.persist_dirty => PersistentState(raft_node_init(n, d)) = PersistentState(s)

\* meta.txt names the snapshot the node has, and snapshot.bin is that one.
SnapshotSaved(s, d) ==
    /\ SameSnapshot(s, d.meta)
    /\ d.meta.snapshot_last_included_index = 0 \/ SnapshotMatches(d)

Process(n, s, d) ==
    /\ s.id = n
    /\ LogsSurvive => Sound(s) /\ FilesInPlace(s, d)
    /\ LogsSurvive /\ MembersKnown /\ n \notin Learners =>
          Configured(s) /\ FilesConfigured(d) /\ Restarts(n, s, d)
    /\ MaxCrashes = 0 => AppliedSnapshot(s) /\ SnapshotSaved(s, d)

LogInv ==
    /\ \A n \in Server : Process(n, node[n], disk[n])
    /\ LogsSurvive => \A m \in net : Ordered(m)

\* What a step does to the log of a node that goes on leading.
LeadersGrow ==
    \A n \in Server :
        node[n].role = "LEADER" /\ node'[n].role = "LEADER" => Grows(node[n], node'[n])

-----------------------------------------------------------------------------
(* Composing handlers.                                                     *)

Handled(s, t) == Preserves(s, t) /\ SameSnapshot(s, t) /\ Stays(s, t)

\* t differs from s in nothing that the log, the members or a restart depend on, except
\* that it may be marked dirty.
Quiet(s, t) ==
    /\ t.id = s.id /\ t.learner = s.learner
    /\ t.log = s.log /\ t.log_count = s.log_count /\ SameSnapshot(s, t)
    /\ t.commit_index = s.commit_index /\ t.last_applied = s.last_applied
    /\ t.config_state = s.config_state /\ t.compaction_threshold = s.compaction_threshold
    /\ \/ t.persist_dirty
       \/ ~s.persist_dirty /\ t.current_term = s.current_term /\ t.voted_for = s.voted_for
    /\ \A m \in t.outbox : m \in s.outbox \/ (Sound(s) => Ordered(m))

\* The same log, with the same snapshot before it, has grown.
LEMMA SameLogGrows ==
    ASSUME NEW s \in Node, NEW t, t.log = s.log, t.log_count = s.log_count, SameSnapshot(s, t)
    PROVE  Grows(s, t)
<1>1. s.log_count \in Nat /\ s.snapshot_last_included_index \in Nat
  BY NodeFields, LimitAssumption
<1> QED
  BY <1>1 DEF Grows, Survives, SameSnapshot

\* Growing is transitive.
LEMMA GrowsTransitive ==
    ASSUME NEW s \in Node, NEW t \in Node, NEW u \in Node, Grows(s, t), Grows(t, u)
    PROVE  Grows(s, u)
<1>1. /\ s.log_count \in Nat /\ t.log_count \in Nat /\ u.log_count \in Nat
      /\ s.snapshot_last_included_index \in Nat /\ t.snapshot_last_included_index \in Nat
      /\ u.snapshot_last_included_index \in Nat
  BY NodeFields, LimitAssumption
<1>2. /\ s.snapshot_last_included_index <= t.snapshot_last_included_index
      /\ t.snapshot_last_included_index <= u.snapshot_last_included_index
  BY DEF Grows
<1>3. ASSUME NEW p \in 1..s.log_count
      PROVE  Survives(s, u, p)
  <2> DEFINE q == s.snapshot_last_included_index + p - t.snapshot_last_included_index
             r == s.snapshot_last_included_index + p - u.snapshot_last_included_index
  <2>1. q \in Int /\ r \in Int /\ r <= q
        /\ t.snapshot_last_included_index + q - u.snapshot_last_included_index = r
    BY <1>1, <1>2
  <2>2. SUFFICES ASSUME r > 0 PROVE r <= u.log_count /\ u.log[r] = s.log[p]
    BY DEF Survives
  <2>3. q <= t.log_count /\ t.log[q] = s.log[p]
    BY <2>1, <2>2, <1>3 DEF Grows, Survives
  <2>4. q \in 1..t.log_count
    BY <1>1, <2>1, <2>2, <2>3
  <2>5. Survives(t, u, q)
    BY <2>4 DEF Grows
  <2> HIDE DEF q, r
  <2>6. r <= u.log_count /\ u.log[r] = t.log[q]
    BY <2>1, <2>2, <2>5 DEF Survives
  <2> QED
    BY <2>3, <2>6
<1> QED
  BY <1>1, <1>2, <1>3 DEF Grows

\* Handlers compose.
LEMMA PreservesTransitive ==
    ASSUME NEW s \in Node, NEW t \in Node, NEW u \in Node, Preserves(s, t), Preserves(t, u)
    PROVE  Preserves(s, u)
<1>1. s.snapshot_last_included_index <= u.snapshot_last_included_index
  <2>1. /\ s.snapshot_last_included_index \in Nat /\ t.snapshot_last_included_index \in Nat
        /\ u.snapshot_last_included_index \in Nat
    BY NodeFields
  <2> QED
    BY <2>1 DEF Preserves
<1>2. \/ u.persist_dirty
      \/ ~s.persist_dirty /\ PersistentState(u) = PersistentState(s)
  BY Zenon DEF Preserves
<1> QED
  BY <1>1, <1>2, Zenon DEF Preserves

\* Handlers that leave the snapshot alone and promote nobody compose.
LEMMA HandledTransitive ==
    ASSUME NEW s \in Node, NEW t \in Node, NEW u \in Node, Handled(s, t), Handled(t, u)
    PROVE  Handled(s, u)
<1>1. Preserves(s, u)
  BY PreservesTransitive DEF Handled
<1>2. SameSnapshot(s, u)
  BY Zenon DEF Handled, SameSnapshot
<1>3. Stays(s, u)
  <2>1. Grows(s, u)
    BY GrowsTransitive DEF Handled, Stays
  <2> QED
    BY <2>1, Zenon DEF Handled, Stays
<1> QED
  BY <1>1, <1>2, <1>3 DEF Handled

\* The fields that PersistentState is made of.
LEMMA SamePersistentState ==
    ASSUME NEW s, NEW t,
           t.current_term = s.current_term, t.voted_for = s.voted_for,
           t.log = s.log, t.log_count = s.log_count, t.commit_index = s.commit_index,
           t.config_state = s.config_state, t.compaction_threshold = s.compaction_threshold,
           SameSnapshot(s, t)
    PROVE  PersistentState(t) = PersistentState(s)
BY Zenon DEF PersistentState, LogOf, SameSnapshot

\* A quiet handler is a handler.
LEMMA QuietPreserves ==
    ASSUME NEW s \in Node, NEW t \in Node, Quiet(s, t)
    PROVE  Preserves(s, t) /\ SameSnapshot(s, t) /\ Grows(s, t)
<1>1. SameSnapshot(s, t) /\ Grows(s, t)
  BY SameLogGrows, Zenon DEF Quiet
<1>2. s.snapshot_last_included_index <= t.snapshot_last_included_index
  BY <1>1 DEF Grows
<1>3. Sound(s) => Sound(t)
  <2>1. InPlace(s) => InPlace(t)
    BY Zenon DEF InPlace, Quiet, SameSnapshot
  <2>2. node_last_log_index(t) = node_last_log_index(s) /\ t.commit_index = s.commit_index
    BY Zenon DEF node_last_log_index, Quiet, SameSnapshot
  <2>3. Sound(s) => \A m \in t.outbox : Ordered(m)
    BY Zenon DEF Sound, Quiet
  <2> QED
    BY <2>1, <2>2, <2>3, Zenon DEF Sound
<1>4. Configured(s) => Configured(t)
  BY Zenon DEF Configured, Quiet
<1>5. AppliedSnapshot(s) => AppliedSnapshot(t)
  BY Zenon DEF AppliedSnapshot, Quiet, SameSnapshot
<1>6. \/ t.persist_dirty
      \/ ~s.persist_dirty /\ PersistentState(t) = PersistentState(s)
  <2>1. CASE t.persist_dirty
    BY <2>1
  <2>2. CASE ~t.persist_dirty
    <3>1. /\ ~s.persist_dirty /\ t.current_term = s.current_term /\ t.voted_for = s.voted_for
          /\ t.log = s.log /\ t.log_count = s.log_count /\ t.commit_index = s.commit_index
          /\ t.config_state = s.config_state /\ t.compaction_threshold = s.compaction_threshold
      BY <2>2, Zenon DEF Quiet
    <3>2. PersistentState(t) = PersistentState(s)
      BY <1>1, <3>1, SamePersistentState
    <3> QED
      BY <3>1, <3>2
  <2> QED
    BY <2>1, <2>2
<1>7. t.id = s.id
  BY DEF Quiet
<1> QED
  BY <1>1, <1>2, <1>3, <1>4, <1>5, <1>6, <1>7, Zenon DEF Preserves

\* A quiet handler that promotes nobody.
LEMMA QuietHandled ==
    ASSUME NEW s \in Node, NEW t \in Node, Quiet(s, t), t.role \in {s.role, "FOLLOWER"}
    PROVE  Handled(s, t)
BY QuietPreserves, Zenon DEF Handled, Stays

\* Doing nothing.
LEMMA HandledReflexive ==
    ASSUME NEW s \in Node
    PROVE  Handled(s, s) /\ Quiet(s, s)
<1>1. Quiet(s, s)
  <2>1. s.persist_dirty \in BOOLEAN
    BY NodeFields
  <2> QED
    BY <2>1, Zenon DEF Quiet, SameSnapshot
<1> QED
  BY <1>1, QuietHandled, Zenon

-----------------------------------------------------------------------------
(* Handlers that leave the log alone.                                      *)

\* A message without entries is in order.
LEMMA NoEntriesOrdered ==
    ASSUME NEW m, m.entries = << >>
    PROVE  Ordered(m)
BY DEF Ordered

\* The entries of an AppendEntries message follow its prev_log_index.
LEMMA AppendEntriesForOrdered ==
    ASSUME NEW s \in Node, NEW p, Sound(s)
    PROVE  Ordered(AppendEntriesFor(s, p))
<1> DEFINE k    == node_peer_index(s, p)
           last == node_last_log_index(s)
           want == IF k \in 1..RAFT_MAX_PEERS THEN s.next_index[k] ELSE last + 1
           next == Larger(want, node_log_base_index(s))
           n    == IF next > last THEN 0 ELSE Smaller(last + 1 - next, RAFT_MAX_BATCH)
           es   == [j \in 1..n |-> LogEntryAt(s, next + j - 1)]
           msg  == AppendEntriesFor(s, p)
<1>1. last \in Nat /\ node_log_base_index(s) \in Nat \ {0}
  BY LogIndexTypes
<1>2. want \in Nat
  <2> HIDE DEF k, last
  <2>1. ASSUME k \in 1..RAFT_MAX_PEERS PROVE s.next_index[k] \in Nat
    BY <2>1, NodeFields
  <2> QED
    BY <1>1, <2>1
<1>3. next \in Nat /\ next >= node_log_base_index(s)
  BY <1>1, <1>2 DEF Larger
<1>4. n \in Nat /\ \A j \in 1..n : next + j - 1 <= last
  BY <1>1, <1>3, LimitAssumption DEF Smaller
<1>5. msg.prev_log_index = next - 1 /\ msg.entries = es
  <2>1. msg = [ZeroMessage EXCEPT
            !.kind = "APPEND_ENTRIES", !.term = s.current_term,
            !.source = s.id, !.target = p,
            !.prev_log_index = next - 1,
            !.prev_log_term = node_term_at_index(s, next - 1),
            !.prev_log_leader_id = node_leader_at_index(s, next - 1),
            !.leader_commit = s.commit_index,
            !.entries = es]
    BY Zenon DEF AppendEntriesFor
  <2> HIDE DEF msg, next, es
  <2> QED
    BY <2>1 DEF ZeroMessage
<1> HIDE DEF msg, want, k
<1>6. ASSUME NEW j \in 1..n PROVE es[j].index = (next - 1) + j
  <2> DEFINE i == next + j - 1
             q == i - s.snapshot_last_included_index
  <2>1. /\ s.snapshot_last_included_index \in Nat /\ s.log_count \in Nat
        /\ RAFT_MAX_LOG \in Nat /\ s.log_count <= RAFT_MAX_LOG
    BY NodeFields, LimitAssumption
  <2>2. q \in 1..s.log_count
    BY <1>3, <1>4, <2>1 DEF node_log_base_index, node_last_log_index
  <2>3. es[j] = LogEntryAt(s, i)
    OBVIOUS
  <2>4. LogEntryAt(s, i) = s.log[q]
    BY <2>1, <2>2 DEF LogEntryAt, node_physical_index
  <2>5. s.log[q].index = s.snapshot_last_included_index + q
    BY <2>2 DEF Sound, InPlace
  <2>6. s.snapshot_last_included_index + q = (next - 1) + j
    BY <1>3, <1>4, <2>1
  <2> QED
    BY <2>3, <2>4, <2>5, <2>6, Zenon
<1>7. Len(es) = n
  BY <1>4
<1> HIDE DEF es, n, next
<1>8. Ordered(msg)
  BY <1>5, <1>6, <1>7, Zenon DEF Ordered
<1> QED
  BY <1>8 DEF msg

\* Queueing a message whose entries are in order.
LEMMA QueueHandled ==
    ASSUME NEW s \in Node, NEW m \in Message, Sound(s) => Ordered(m)
    PROVE  Handled(s, node_queue_message(s, m))
<1> DEFINE t == node_queue_message(s, m)
<1>1. t \in Node
  BY QueueType
<1>2. /\ t.role = s.role /\ t.outbox = s.outbox \cup {m}
      /\ t.id = s.id /\ t.learner = s.learner
      /\ t.log = s.log /\ t.log_count = s.log_count /\ SameSnapshot(s, t)
      /\ t.commit_index = s.commit_index /\ t.last_applied = s.last_applied
      /\ t.config_state = s.config_state /\ t.compaction_threshold = s.compaction_threshold
      /\ t.current_term = s.current_term /\ t.voted_for = s.voted_for
      /\ t.persist_dirty = s.persist_dirty
  BY DEF node_queue_message, SameSnapshot, Node
<1> HIDE DEF t
<1>3. Quiet(s, t)
  BY <1>2, Zenon DEF Quiet
<1> QED
  BY <1>1, <1>2, <1>3, QuietHandled DEF t

\* Broadcasting the log.
LEMMA BroadcastHandled ==
    ASSUME NEW s \in Node
    PROVE  Handled(s, node_broadcast_append_entries(s))
<1> DEFINE t == node_broadcast_append_entries(s)
<1>1. t \in Node
  BY BroadcastType
<1>2. /\ t.role = s.role
      /\ t.outbox = s.outbox \cup {AppendEntriesFor(s, p) : p \in Peers(s)}
      /\ t.id = s.id /\ t.learner = s.learner
      /\ t.log = s.log /\ t.log_count = s.log_count /\ SameSnapshot(s, t)
      /\ t.commit_index = s.commit_index /\ t.last_applied = s.last_applied
      /\ t.config_state = s.config_state /\ t.compaction_threshold = s.compaction_threshold
      /\ t.current_term = s.current_term /\ t.voted_for = s.voted_for
      /\ t.persist_dirty = s.persist_dirty
  BY DEF node_broadcast_append_entries, SameSnapshot, Node
<1> HIDE DEF t
<1>3. Quiet(s, t)
  BY <1>2, AppendEntriesForOrdered, Zenon DEF Quiet
<1> QED
  BY <1>1, <1>2, <1>3, QuietHandled DEF t

\* node_handle_term_update.
LEMMA TermUpdateHandled ==
    ASSUME NEW s \in Node, NEW m \in Message
    PROVE  Handled(s, node_handle_term_update(s, m))
<1> DEFINE t == [s EXCEPT !.current_term = m.term, !.voted_for = Nil, !.leader_id = Nil,
                          !.persist_dirty = TRUE]
<1>1. CASE m.term > s.current_term
  <2>1. t = node_handle_term_update(s, m)
    BY <1>1, Zenon DEF node_handle_term_update
  <2>2. Quiet(s, t) /\ t.role = s.role
    BY DEF Quiet, SameSnapshot, Node
  <2> HIDE DEF t
  <2>3. t \in Node
    BY <2>1, TermUpdateType
  <2> QED
    BY <2>1, <2>2, <2>3, QuietHandled
<1>2. CASE ~(m.term > s.current_term)
  BY <1>2, HandledReflexive, Zenon DEF node_handle_term_update
<1> QED
  BY <1>1, <1>2

\* node_handle_vote_request.
LEMMA VoteRequestHandled ==
    ASSUME NEW s \in Node, NEW m \in Message
    PROVE  Handled(s, node_handle_vote_request(s, m))
<1> DEFINE t == node_handle_term_update(s, m)
           w == [t EXCEPT !.voted_for = m.source, !.persist_dirty = TRUE]
           v == IF GrantsVote(t, m) THEN w ELSE t
           response == [ZeroMessage EXCEPT
                          !.kind = "REQUEST_VOTE_RESPONSE", !.term = t.current_term,
                          !.granted = GrantsVote(t, m), !.source = s.id, !.target = m.source]
<1>1. t \in Node /\ Handled(s, t)
  BY TermUpdateType, TermUpdateHandled
<1>2. response \in Message
  <2>1. GrantsVote(t, m) \in BOOLEAN
    BY DEF GrantsVote
  <2>2. t.current_term \in Nat /\ s.id \in MaybeServer
    BY <1>1, NodeFields DEF MaybeServer
  <2> HIDE DEF t
  <2> QED
    BY <2>1, <2>2, MessageFields, ZeroTypes, Zenon DEF Message, MessageKind
<1>3. response.entries = << >>
  <2> HIDE DEF t
  <2> QED
    BY DEF ZeroMessage
<1>4. node_handle_vote_request(s, m) = node_queue_message(v, response)
  BY Zenon DEF node_handle_vote_request
<1> HIDE DEF t, response
<1>5. w \in Node /\ Quiet(t, w) /\ w.role = t.role
  <2>1. w \in Node
    BY <1>1, MessageFields, Zenon DEF Node
  <2>2. Quiet(t, w) /\ w.role = t.role
    BY <1>1 DEF Quiet, SameSnapshot, Node
  <2> QED
    BY <2>1, <2>2
<1> HIDE DEF w
<1>6. v \in Node /\ Handled(s, v)
  <2>1. Handled(t, w)
    BY <1>1, <1>5, QuietHandled
  <2>2. Handled(s, w)
    BY <1>1, <1>5, <2>1, HandledTransitive
  <2> QED
    BY <1>1, <1>5, <2>2
<1> HIDE DEF v
<1>7. node_queue_message(v, response) \in Node /\ Handled(v, node_queue_message(v, response))
  BY <1>2, <1>3, <1>6, QueueType, QueueHandled, NoEntriesOrdered
<1> QED
  BY <1>4, <1>6, <1>7, HandledTransitive

\* node_handle_vote_response.
LEMMA VoteResponseHandled ==
    ASSUME NEW s \in Node, NEW m \in Message
    PROVE  Handled(s, node_handle_vote_response(s, m))
<1> DEFINE t == node_handle_term_update(s, m)
           u == [t EXCEPT !.votes_received = @ \cup {m.source}]
<1>1. t \in Node /\ Handled(s, t)
  BY TermUpdateType, TermUpdateHandled
<1>2. node_handle_vote_response(s, m) \in {t, u}
  BY Zenon DEF node_handle_vote_response
<1>3. u \in Node /\ Handled(t, u)
  <2> HIDE DEF t
  <2>1. t.votes_received \cup {m.source} \in SUBSET MaybeServer
    BY <1>1, NodeFields, MessageFields
  <2>2. u \in Node
    BY <1>1, <2>1, Zenon DEF Node
  <2>3. Quiet(t, u) /\ u.role = t.role
    BY <1>1, NodeFields DEF Quiet, SameSnapshot, Node
  <2> HIDE DEF u
  <2> QED
    BY <1>1, <2>2, <2>3, QuietHandled
<1> HIDE DEF t, u
<1> QED
  BY <1>1, <1>2, <1>3, HandledTransitive

\* action_back_to_follower_due_to_timeout.
LEMMA BackToFollowerHandled ==
    ASSUME NEW s \in Node
    PROVE  Handled(s, action_back_to_follower_due_to_timeout(s))
<1> DEFINE t == action_back_to_follower_due_to_timeout(s)
<1>1. Quiet(s, t) /\ t.role = "FOLLOWER"
  BY NodeFields DEF action_back_to_follower_due_to_timeout, Quiet, SameSnapshot, Node
<1>2. t \in Node
  BY BackToFollowerType
<1> HIDE DEF t
<1> QED
  BY <1>1, <1>2, QuietHandled DEF t

\* What a row of the transition table does.
Acted(s, t) ==
    Preserves(s, t) /\ SameSnapshot(s, t) /\ (Grows(s, t) \/ t.role = "FOLLOWER")

\* A node becomes a candidate.
LEMMA BecomeCandidateActed ==
    ASSUME NEW s \in Node
    PROVE  Acted(s, action_become_candidate(s))
<1> DEFINE t == [s EXCEPT !.current_term = @ + 1, !.voted_for = s.id,
                          !.votes_received = {s.id}, !.leader_id = Nil, !.persist_dirty = TRUE]
           RequestVoteFor(p) ==
               [ZeroMessage EXCEPT !.kind = "REQUEST_VOTE", !.term = t.current_term,
                                   !.source = s.id, !.target = p,
                                   !.last_log_index = node_last_log_index(s),
                                   !.last_log_term = node_last_log_term(s)]
           u == [t EXCEPT !.role = "CANDIDATE",
                          !.outbox = @ \cup {RequestVoteFor(p) : p \in Peers(s)}]
<1>1. u = action_become_candidate(s)
  BY Zenon DEF action_become_candidate
<1>2. \A p : Ordered(RequestVoteFor(p))
  <2> HIDE DEF t
  <2>1. \A p : RequestVoteFor(p).entries = << >>
    BY DEF ZeroMessage
  <2> HIDE DEF RequestVoteFor
  <2> QED
    BY <2>1, NoEntriesOrdered
<1> HIDE DEF RequestVoteFor
<1>3. /\ u.outbox = s.outbox \cup {RequestVoteFor(p) : p \in Peers(s)}
      /\ u.id = s.id /\ u.learner = s.learner
      /\ u.log = s.log /\ u.log_count = s.log_count /\ SameSnapshot(s, u)
      /\ u.commit_index = s.commit_index /\ u.last_applied = s.last_applied
      /\ u.config_state = s.config_state /\ u.compaction_threshold = s.compaction_threshold
      /\ u.persist_dirty
  BY DEF SameSnapshot, Node
<1> HIDE DEF u
<1>4. Quiet(s, u)
  BY <1>2, <1>3, Zenon DEF Quiet
<1>5. u \in Node
  BY <1>1, BecomeCandidateType
<1> QED
  BY <1>1, <1>4, <1>5, QuietPreserves DEF Acted

\* A candidate becomes the leader.
LEMMA BecomeLeaderActed ==
    ASSUME NEW s \in Node
    PROVE  Acted(s, action_become_leader(s))
<1> DEFINE next == [k \in 1..RAFT_MAX_PEERS |->
                       IF k \in PeerSlots(s) THEN node_last_log_index(s) + 1 ELSE s.next_index[k]]
           match == [k \in 1..RAFT_MAX_PEERS |->
                       IF k \in PeerSlots(s) THEN 0 ELSE s.match_index[k]]
           t == [s EXCEPT !.role = "LEADER", !.leader_id = s.id,
                          !.next_index = next, !.match_index = match]
<1>1. /\ next \in [1..RAFT_MAX_PEERS -> Nat]
      /\ match \in [1..RAFT_MAX_PEERS -> Nat]
  <2>1. node_last_log_index(s) + 1 \in Nat
    BY LogIndexTypes
  <2> QED
    BY <2>1, NodeFields
<1>2. action_become_leader(s) = node_broadcast_append_entries(t)
  BY Zenon DEF action_become_leader
<1> HIDE DEF next, match
<1>3. t \in Node
  <2>1. s.id \in MaybeServer
    BY NodeFields DEF MaybeServer
  <2> QED
    BY <1>1, <2>1, Zenon DEF Node, Role
<1>4. Quiet(s, t)
  BY NodeFields DEF Quiet, SameSnapshot, Node
<1> HIDE DEF t
<1>6. Preserves(s, t) /\ SameSnapshot(s, t) /\ Grows(s, t)
  BY <1>3, <1>4, QuietPreserves
<1> DEFINE u == node_broadcast_append_entries(t)
<1>7. u \in Node /\ Preserves(t, u) /\ SameSnapshot(t, u) /\ Grows(t, u)
  BY <1>3, BroadcastType, BroadcastHandled DEF Handled, Stays
<1> HIDE DEF u
<1>8. Preserves(s, u) /\ Grows(s, u)
  BY <1>3, <1>6, <1>7, PreservesTransitive, GrowsTransitive
<1>9. SameSnapshot(s, u)
  BY <1>6, <1>7, Zenon DEF SameSnapshot
<1> QED
  BY <1>2, <1>8, <1>9, Zenon DEF Acted, u

-----------------------------------------------------------------------------
(* Handlers that change the log, the commit index or the members.          *)

\* The commit index advances to an entry of the log.
LEMMA AdvanceCommitHandled ==
    ASSUME NEW s \in Node
    PROVE  Handled(s, node_advance_commit_index(s))
<1> DEFINE ready == {i \in (s.commit_index + 1)..node_last_log_index(s) :
                        /\ node_term_at_index(s, i) = s.current_term
                        /\ node_is_committed_under_current_configuration(s, i)}
           t == [s EXCEPT !.commit_index = Max(ready), !.persist_dirty = TRUE]
<1>1. CASE ready = {}
  BY <1>1, HandledReflexive, Zenon DEF node_advance_commit_index
<1>2. CASE ready # {}
  <2>1. Max(ready) \in ready
    <3>1. s.commit_index + 1 \in Int /\ node_last_log_index(s) \in Int
      BY NodeFields, LogIndexTypes
    <3>2. ready \in SUBSET ((s.commit_index + 1)..node_last_log_index(s))
      OBVIOUS
    <3> HIDE DEF ready
    <3> QED
      BY <1>2, <3>1, <3>2, IntervalMax
  <2>2. Max(ready) <= node_last_log_index(s)
    BY <2>1, NodeFields, LogIndexTypes
  <2>3. node_advance_commit_index(s) = t
    BY <1>2, Zenon DEF node_advance_commit_index
  <2> HIDE DEF ready
  <2>4. /\ t.role = s.role /\ t.outbox = s.outbox /\ t.persist_dirty
        /\ t.id = s.id /\ t.learner = s.learner
        /\ t.log = s.log /\ t.log_count = s.log_count /\ SameSnapshot(s, t)
        /\ t.commit_index = Max(ready) /\ t.last_applied = s.last_applied
        /\ t.config_state = s.config_state /\ t.compaction_threshold = s.compaction_threshold
    BY DEF SameSnapshot, Node
  <2> HIDE DEF t
  <2>5. SameSnapshot(s, t) /\ Grows(s, t)
    BY <2>4, SameLogGrows, Zenon
  <2>6. Sound(s) => Sound(t)
    <3>1. InPlace(s) => InPlace(t)
      BY <2>4, Zenon DEF InPlace, SameSnapshot
    <3>2. node_last_log_index(t) = node_last_log_index(s)
      BY <2>4, Zenon DEF node_last_log_index, SameSnapshot
    <3> QED
      BY <2>2, <2>4, <3>1, <3>2, Zenon DEF Sound
  <2>8. Configured(s) => Configured(t)
    BY <2>4, Zenon DEF Configured
  <2>9. AppliedSnapshot(s) => AppliedSnapshot(t)
    BY <2>4, Zenon DEF AppliedSnapshot, SameSnapshot
  <2>10. Preserves(s, t)
    BY <2>4, <2>5, <2>6, <2>8, <2>9, Zenon DEF Preserves, Grows
  <2> QED
    BY <2>3, <2>4, <2>5, <2>10, Zenon DEF Handled, Stays
<1> QED
  BY <1>1, <1>2

\* A command is appended at the end of the log.
LEMMA AppendedHandled ==
    ASSUME NEW s \in Node, NEW c \in Command, s.log_count < RAFT_MAX_LOG
    PROVE  Handled(s, Appended(s, c))
<1> DEFINE e == [index |-> node_last_log_index(s) + 1, term |-> s.current_term,
                 leader_id |-> s.id, command |-> c]
           t == Appended(s, c)
           last == s.log_count + 1
<1>1. /\ s.log_count \in Nat /\ s.snapshot_last_included_index \in Nat /\ s.commit_index \in Nat
      /\ last \in 1..RAFT_MAX_LOG /\ s.log \in [1..RAFT_MAX_LOG -> Entry]
  BY NodeFields, LimitAssumption
<1>2. /\ t.role = s.role /\ t.outbox = s.outbox /\ t.persist_dirty
      /\ t.id = s.id /\ t.learner = s.learner
      /\ t.log = [s.log EXCEPT ![last] = e] /\ t.log_count = last /\ SameSnapshot(s, t)
      /\ t.commit_index = s.commit_index /\ t.last_applied = s.last_applied
      /\ t.config_state = s.config_state /\ t.compaction_threshold = s.compaction_threshold
  BY DEF Appended, SameSnapshot, Node
<1>3. e.index = node_last_log_index(s) + 1
  OBVIOUS
<1> HIDE DEF t, e
<1>4. t.log[last] = e /\ \A p \in 1..s.log_count : t.log[p] = s.log[p]
  <2>1. t.log[last] = e
    BY <1>1, <1>2, Zenon
  <2>2. ASSUME NEW p \in 1..s.log_count PROVE t.log[p] = s.log[p]
    <3>1. p \in 1..RAFT_MAX_LOG /\ p # last
      BY <1>1, LimitAssumption
    <3> HIDE DEF last
    <3> QED
      BY <1>1, <1>2, <3>1, Zenon
  <2> QED
    BY <2>1, <2>2
<1>5. t.snapshot_last_included_index = s.snapshot_last_included_index
  BY <1>2, Zenon DEF SameSnapshot
<1>6. Grows(s, t)
  BY <1>1, <1>2, <1>4, <1>5 DEF Grows, Survives
<1>7. Sound(s) => Sound(t)
  <2>1. InPlace(s) => InPlace(t)
    BY <1>1, <1>2, <1>3, <1>4, <1>5 DEF InPlace, node_last_log_index
  <2>2. s.commit_index <= node_last_log_index(s) => t.commit_index <= node_last_log_index(t)
    BY <1>1, <1>2, <1>5 DEF node_last_log_index
  <2> QED
    BY <1>2, <2>1, <2>2, Zenon DEF Sound
<1>9. Configured(s) => Configured(t)
  BY <1>2, Zenon DEF Configured
<1>10. AppliedSnapshot(s) => AppliedSnapshot(t)
  BY <1>2, <1>5, Zenon DEF AppliedSnapshot
<1>11. Preserves(s, t)
  BY <1>2, <1>6, <1>7, <1>9, <1>10, Zenon DEF Preserves, Grows
<1> QED
  BY <1>2, <1>6, <1>11, Zenon DEF Handled, Stays, t

\* Appending and broadcasting a command.
LEMMA AppendAndBroadcastHandled ==
    ASSUME NEW s \in Node, NEW c \in Command, s.log_count < RAFT_MAX_LOG
    PROVE  Handled(s, AppendAndBroadcast(s, c))
<1> DEFINE t == Appended(s, c)
<1>1. t \in Node /\ Handled(s, t)
  BY AppendedType, AppendedHandled
<1> HIDE DEF t
<1>2. Handled(t, node_broadcast_append_entries(t)) /\ node_broadcast_append_entries(t) \in Node
  BY <1>1, BroadcastHandled, BroadcastType
<1> QED
  BY <1>1, <1>2, HandledTransitive DEF AppendAndBroadcast, t

\* node_append_internal_command.
LEMMA AppendInternalHandled ==
    ASSUME NEW s \in Node, NEW op \in InternalOp
    PROVE  Handled(s, AppendInternal(s, op))
<1>1. [op |-> op, value |-> 0, members |-> s.requested_membership] \in Command
  BY NodeFields DEF Command
<1>2. s.log_count < RAFT_MAX_LOG \/ s.log_count >= RAFT_MAX_LOG
  BY NodeFields, LimitAssumption
<1>3. CASE s.log_count >= RAFT_MAX_LOG
  BY <1>3, HandledReflexive, Zenon DEF AppendInternal
<1>4. CASE s.log_count < RAFT_MAX_LOG /\ ~(s.log_count >= RAFT_MAX_LOG)
  BY <1>1, <1>4, AppendAndBroadcastHandled, Zenon DEF AppendInternal
<1> QED
  BY <1>2, <1>3, <1>4

\* node_maybe_drive_membership.
LEMMA DriveMembershipHandled ==
    ASSUME NEW s \in Node
    PROVE  Handled(s, node_maybe_drive_membership(s))
<1> DEFINE u == node_maybe_drive_membership(s)
           joint == configuration_is_joint(s.config_state)
           i == AppendInternalIndex(s)
           enter == AppendInternal(s, "enter_joint")
           leave == AppendInternal(s, "leave_joint")
           Keeps(a, b) == Quiet(a, b) /\ b.role = a.role
<1>1. /\ enter \in Node /\ Handled(s, enter)
      /\ leave \in Node /\ Handled(s, leave)
  BY AppendInternalType, AppendInternalHandled, Zenon DEF InternalOp
<1>2. u \in Node
  BY DriveMembershipType
<1> HIDE DEF enter, leave, i, joint
<1>3. /\ Keeps(enter, [enter EXCEPT !.joint_config_index = i,
                         !.membership_state = IF i > 0 THEN "JOINT_PENDING" ELSE @])
      /\ Keeps(leave, [leave EXCEPT !.final_config_index = i,
                         !.membership_state = IF i > 0 THEN "FINALIZING" ELSE @])
      /\ Keeps(s, [s EXCEPT !.membership_state = "JOINT"])
      /\ Keeps(s, [s EXCEPT !.membership_state = "STABLE"])
      /\ Keeps(s, s)
  BY <1>1, NodeFields DEF Quiet, SameSnapshot, Node
<1>4. \E t \in {s, enter, leave} : Keeps(t, u)
  <2> HIDE DEF Keeps
  <2> QED
    BY <1>3 DEF node_maybe_drive_membership, enter, leave, i, joint
<1> HIDE DEF u
<1>5. ASSUME NEW t \in {s, enter, leave}, Keeps(t, u) PROVE Handled(s, u)
  <2>1. t \in Node /\ Handled(s, t)
    BY <1>1, HandledReflexive
  <2>2. Handled(t, u)
    BY <1>2, <1>5, <2>1, QuietHandled
  <2> QED
    BY <1>2, <2>1, <2>2, HandledTransitive
<1> QED
  BY <1>4, <1>5, Zenon DEF u

\* node_handle_append_entries_response.
LEMMA AppendEntriesResponseHandled ==
    ASSUME NEW s \in Node, NEW m \in Message
    PROVE  Handled(s, node_handle_append_entries_response(s, m))
<1> DEFINE t == node_handle_term_update(s, m)
           k == node_peer_index(t, m.source)
           a == Acknowledged(t, k, m.match_index)
           b == BackedOff(t, k)
<1>1. t \in Node /\ Handled(s, t)
  BY TermUpdateType, TermUpdateHandled
<1> HIDE DEF t
<1>2. ASSUME k \in 1..RAFT_MAX_PEERS
      PROVE  /\ Handled(s, node_advance_commit_index(a))
             /\ Handled(s, node_send_append_entries_to(b, m.source))
  <2>1. m.source \in Server
    BY <1>1, <1>2, PeerIsServer
  <2> HIDE DEF k
  <2>2. a \in Node /\ b \in Node
    BY <1>1, <1>2, MessageFields, AcknowledgedType, BackedOffType
  <2>3. Quiet(t, a) /\ a.role = t.role /\ Quiet(t, b) /\ b.role = t.role
    BY <1>1, NodeFields DEF Acknowledged, BackedOff, Quiet, SameSnapshot, Node
  <2> HIDE DEF a, b
  <2>4. Handled(t, a) /\ Handled(t, b)
    BY <1>1, <2>2, <2>3, QuietHandled
  <2>5. Handled(s, a) /\ Handled(s, b)
    BY <1>1, <2>2, <2>4, HandledTransitive
  <2>6. Handled(s, node_advance_commit_index(a))
    BY <2>2, <2>5, AdvanceCommitType, AdvanceCommitHandled, HandledTransitive
  <2>7. AppendEntriesFor(b, m.source) \in Message
    BY <2>1, <2>2, AppendEntriesForType
  <2>8. /\ Handled(b, node_send_append_entries_to(b, m.source))
        /\ node_send_append_entries_to(b, m.source) \in Node
    BY <2>2, <2>7, AppendEntriesForOrdered, QueueHandled, QueueType
       DEF node_send_append_entries_to
  <2>9. Handled(s, node_send_append_entries_to(b, m.source))
    BY <2>2, <2>5, <2>8, HandledTransitive
  <2> QED
    BY <2>6, <2>9
<1> QED
  BY <1>1, <1>2, Zenon DEF node_handle_append_entries_response, t

\* A latch.
LEMMA LatchedHandled ==
    ASSUME NEW s \in Node, NEW r \in SUBSET Message,
           NEW commands, commands # << >> => commands \in Seq(Command)
    PROVE  Handled(s, Latched(s, r, commands))
<1> DEFINE responses == {m \in r : IsResponse(m)}
           m == CHOOSE m \in responses : TRUE
           t == IF responses = {} THEN s ELSE node_handle_append_entries_response(s, m)
<1>1. t \in Node /\ Handled(s, t)
  <2>1. CASE responses = {}
    BY <2>1, HandledReflexive, Zenon
  <2>2. CASE responses # {}
    <3>1. m \in Message
      BY <2>2
    <3> HIDE DEF m, responses
    <3> QED
      BY <2>2, <3>1, AppendEntriesResponseType, AppendEntriesResponseHandled, Zenon
  <2> QED
    BY <2>1, <2>2
<1>2. Latched(s, r, commands) =
        IF commands # << >> /\ node_is_leader(t) /\ t.log_count < RAFT_MAX_LOG
        THEN AppendAndBroadcast(t, Head(commands))
        ELSE t
  BY Zenon DEF Latched
<1> HIDE DEF t
<1>3. ASSUME commands # << >>, t.log_count < RAFT_MAX_LOG
      PROVE  Handled(s, AppendAndBroadcast(t, Head(commands)))
  <2>1. Head(commands) \in Command
    BY <1>3
  <2>2. /\ Handled(t, AppendAndBroadcast(t, Head(commands)))
        /\ AppendAndBroadcast(t, Head(commands)) \in Node
    BY <1>1, <1>3, <2>1, AppendAndBroadcastHandled, AppendAndBroadcastType
  <2> QED
    BY <1>1, <2>2, HandledTransitive
<1> QED
  BY <1>1, <1>2, <1>3

\* The beginning of a dump.
LEMMA AdvancedHandled ==
    ASSUME NEW s \in Node
    PROVE  Handled(s, Advanced(s))
BY AdvanceCommitHandled, HandledReflexive, Zenon DEF Advanced

\* What applying a command does to a node: the log stays.
Applied(s, t) ==
    /\ t.id = s.id /\ t.learner = s.learner /\ t.persist_dirty = s.persist_dirty
    /\ t.log = s.log /\ t.log_count = s.log_count /\ SameSnapshot(s, t)
    /\ t.commit_index = s.commit_index /\ t.last_applied = s.last_applied
    /\ t.outbox = s.outbox /\ t.role \in {s.role, "FOLLOWER"}
    /\ t.current_term = s.current_term
    /\ Configured(s) => Configured(t)

\* set_maxlog never sets the threshold to zero.
LEMMA SetMaxlogApplied ==
    ASSUME NEW s \in Node, NEW c \in Command
    PROVE  Applied(s, ApplySetMaxlog(s, c))
<1> DEFINE t == [s EXCEPT !.compaction_threshold = c.value]
<1>1. CASE c.value > 0
  <2>1. Applied(s, t)
    BY <1>1 DEF Applied, SameSnapshot, Configured, Node
  <2> QED
    BY <1>1, <2>1, Zenon DEF ApplySetMaxlog
<1>2. CASE ~(c.value > 0)
  <2>1. Applied(s, s)
    BY DEF Applied, SameSnapshot
  <2> QED
    BY <1>2, <2>1, Zenon DEF ApplySetMaxlog
<1> QED
  BY <1>1, <1>2

\* enter_joint keeps the old members.
LEMMA EnterJointApplied ==
    ASSUME NEW s \in Node, NEW c \in Command
    PROVE  Applied(s, ApplyEnterJoint(s, c))
<1> DEFINE t == [s EXCEPT !.config_state = [old |-> @.old, new |-> c.members,
                                            index |-> s.last_applied],
                          !.membership_state = "JOINT",
                          !.joint_config_index = s.last_applied,
                          !.requested_membership = c.members,
                          !.requested_membership_pending = TRUE]
<1>1. Applied(s, s)
  BY DEF Applied, SameSnapshot
<1>2. Applied(s, t)
  BY DEF Applied, SameSnapshot, Configured, Node
<1> HIDE DEF t
<1> QED
  BY <1>1, <1>2, Zenon DEF ApplyEnterJoint, t

\* leave_joint leaves somebody in the configuration.
LEMMA LeaveJointApplied ==
    ASSUME NEW s \in Node, NEW c \in Command
    PROVE  Applied(s, ApplyLeaveJoint(s, c))
<1> DEFINE t == [s EXCEPT !.config_state = [old |-> c.members, new |-> {},
                                            index |-> s.last_applied],
                          !.membership_state = "STABLE",
                          !.final_config_index = s.last_applied,
                          !.joint_config_index = 0,
                          !.requested_membership = {},
                          !.requested_membership_pending = FALSE]
           u == [t EXCEPT !.running = FALSE, !.leader_id = Nil,
                          !.votes_received = {}, !.role = "FOLLOWER"]
<1>1. CASE s.last_applied <= s.config_state.index \/ c.members = {}
  <2>1. Applied(s, s)
    BY DEF Applied, SameSnapshot
  <2> QED
    BY <1>1, <2>1, Zenon DEF ApplyLeaveJoint
<1>2. CASE ~(s.last_applied <= s.config_state.index \/ c.members = {})
  <2>1. Applied(s, t)
    BY <1>2 DEF Applied, SameSnapshot, Configured, Node
  <2>2. Applied(s, u)
    BY <1>2 DEF Applied, SameSnapshot, Configured, Node
  <2> HIDE DEF t
  <2> QED
    BY <1>2, <2>1, <2>2, Zenon DEF ApplyLeaveJoint, t
<1> QED
  BY <1>1, <1>2

\* Applying a command.
LEMMA ApplyCommandApplied ==
    ASSUME NEW s \in Node, NEW c \in Command
    PROVE  Applied(s, node_apply_command(s, c))
<1>1. Applied(s, [s EXCEPT !.app = Append(@, c)])
  BY DEF Applied, SameSnapshot, Configured, Node
<1> QED
  BY <1>1, SetMaxlogApplied, EnterJointApplied, LeaveJointApplied DEF node_apply_command

\* Applying the next committed entry.
LEMMA ApplyNextHandled ==
    ASSUME NEW s \in Node
    PROVE  Handled(s, ApplyNext(s))
<1> DEFINE i == s.last_applied + 1
           a == [s EXCEPT !.last_applied = i, !.persist_dirty = TRUE]
           c == LogEntryAt(s, i).command
           t == node_apply_command(a, c)
<1>1. i \in Nat /\ i >= s.last_applied /\ s.snapshot_last_included_index \in Nat
      /\ s.last_applied \in Nat
  BY NodeFields
<1>2. a \in Node /\ c \in Command
  <2> HIDE DEF i
  <2>1. a \in Node
    BY <1>1, Zenon DEF Node
  <2>2. c \in Command
    BY <1>1, LogEntryAtType DEF Entry
  <2> QED
    BY <2>1, <2>2
<1>3. /\ a.id = s.id /\ a.learner = s.learner /\ a.persist_dirty
      /\ a.log = s.log /\ a.log_count = s.log_count /\ SameSnapshot(s, a)
      /\ a.commit_index = s.commit_index /\ a.last_applied = i
      /\ a.outbox = s.outbox /\ a.role = s.role
      /\ Configured(s) => Configured(a)
  <2> HIDE DEF i
  <2> QED
    BY DEF SameSnapshot, Configured, Node
<1>4. ApplyNext(s) = t
  BY Zenon DEF ApplyNext
<1> HIDE DEF a, c
<1>5. t \in Node /\ Applied(a, t)
  BY <1>2, ApplyCommandType, ApplyCommandApplied
<1> HIDE DEF t, i
<1>6. /\ t.id = s.id /\ t.persist_dirty
      /\ t.log = s.log /\ t.log_count = s.log_count /\ SameSnapshot(s, t)
      /\ t.commit_index = s.commit_index /\ t.last_applied = i
      /\ t.outbox = s.outbox /\ t.role \in {s.role, "FOLLOWER"}
      /\ Configured(s) => Configured(t)
  BY <1>3, <1>5, Zenon DEF Applied, SameSnapshot
<1>7. Grows(s, t)
  BY <1>6, SameLogGrows, Zenon
<1>8. Sound(s) => Sound(t)
  BY <1>6, Zenon DEF Sound, InPlace, SameSnapshot, node_last_log_index
<1>9. AppliedSnapshot(s) => AppliedSnapshot(t)
  BY <1>1, <1>6 DEF AppliedSnapshot, SameSnapshot
<1>10. Preserves(s, t)
  BY <1>6, <1>7, <1>8, <1>9, Zenon DEF Preserves, Grows
<1> QED
  BY <1>4, <1>6, <1>7, <1>10, Zenon DEF Handled, Stays

-----------------------------------------------------------------------------
(* The entries of a leader.                                                *)

\* The numbers behind the consistency check.
LEMMA MergeNumbers ==
    ASSUME NEW s \in Node, NEW m \in Message, PrevMatches(s, m)
    PROVE  /\ s.snapshot_last_included_index \in Nat /\ s.log_count \in Nat
           /\ m.prev_log_index \in Nat /\ Len(m.entries) \in Nat
           /\ s.snapshot_last_included_index <= m.prev_log_index
           /\ m.prev_log_index <= s.snapshot_last_included_index + s.log_count
           /\ RAFT_MAX_LOG \in Nat /\ s.log_count <= RAFT_MAX_LOG
<1>1. /\ m.prev_log_index >= s.snapshot_last_included_index
      /\ m.prev_log_index <= s.snapshot_last_included_index + s.log_count
  BY DEF PrevMatches, node_last_log_index
<1>2. m.prev_log_index \in Nat /\ Len(m.entries) \in Nat
  BY MessageFields
<1> QED
  BY <1>1, <1>2, NodeFields, LimitAssumption

\* Slot p of the merged log holds an entry of the message, or the entry it held and that
\* was inside the log or behind its end.
LEMMA MergedSlot ==
    ASSUME NEW s \in Node, NEW m \in Message, PrevMatches(s, m), NEW p \in 1..RAFT_MAX_LOG
    PROVE  LET k == s.snapshot_last_included_index + p - m.prev_log_index
           IN  \/ /\ MergedLog(s, m)[p] = m.entries[k] /\ k \in 1..Len(m.entries)
                  /\ p > s.log_count \/ \E j \in 1..k : Conflicts(s, m, j)
               \/ /\ MergedLog(s, m)[p] = s.log[p]
                  /\ k \in 1..Len(m.entries) => p <= s.log_count
<1> DEFINE k == s.snapshot_last_included_index + p - m.prev_log_index
           n == Len(m.entries)
           Written == \/ ~node_has_log_index(s, m.prev_log_index + k)
                      \/ \E j \in 1..k : Conflicts(s, m, j)
<1>1. MergedLog(s, m)[p] = IF k \in 1..n /\ Written THEN m.entries[k] ELSE s.log[p]
  BY Zenon DEF MergedLog
<1>2. /\ s.snapshot_last_included_index \in Nat /\ s.log_count \in Nat
      /\ m.prev_log_index \in Nat /\ RAFT_MAX_LOG \in Nat
  BY MergeNumbers
<1>3. m.prev_log_index + k = s.snapshot_last_included_index + p
  BY <1>2
<1>4. node_has_log_index(s, m.prev_log_index + k) <=> p <= s.log_count
  BY <1>2, <1>3 DEF node_has_log_index, node_log_base_index, node_last_log_index
<1>5. ~(p <= s.log_count) => p > s.log_count
  BY <1>2
<1> HIDE DEF k, n
<1> QED
  BY <1>1, <1>4, <1>5, Zenon DEF k, n

\* Merging entries that are in order leaves every entry in place.
LEMMA MergeInPlace ==
    ASSUME NEW s \in Node, NEW m \in Message, PrevMatches(s, m), Ordered(m), InPlace(s),
           NEW p \in 1..MergedCount(s, m)
    PROVE  MergedLog(s, m)[p].index = s.snapshot_last_included_index + p
<1> DEFINE k == s.snapshot_last_included_index + p - m.prev_log_index
           n == Len(m.entries)
<1>1. /\ s.snapshot_last_included_index \in Nat /\ s.log_count \in Nat
      /\ m.prev_log_index \in Nat /\ n \in Nat
      /\ s.snapshot_last_included_index <= m.prev_log_index
      /\ m.prev_log_index <= s.snapshot_last_included_index + s.log_count
      /\ RAFT_MAX_LOG \in Nat
  BY MergeNumbers
<1>2. MergedCount(s, m) \in 0..RAFT_MAX_LOG
  BY MergedCountType
<1>3. p \in 1..RAFT_MAX_LOG /\ p <= MergedCount(s, m)
  BY <1>1, <1>2
<1>4. \/ MergedLog(s, m)[p] = m.entries[k] /\ k \in 1..n
      \/ MergedLog(s, m)[p] = s.log[p] /\ (k \in 1..n => p <= s.log_count)
  BY <1>3, MergedSlot, Zenon
<1>5. CASE MergedLog(s, m)[p] = m.entries[k] /\ k \in 1..n
  <2>1. m.entries[k].index = m.prev_log_index + k
    BY <1>5 DEF Ordered
  <2>2. m.prev_log_index + k = s.snapshot_last_included_index + p
    BY <1>1, <1>3
  <2> QED
    BY <1>5, <2>1, <2>2, Zenon
<1>6. CASE MergedLog(s, m)[p] = s.log[p] /\ (k \in 1..n => p <= s.log_count)
  <2>1. p <= s.log_count
    <3>1. CASE MergedCount(s, m) = s.log_count
      BY <1>3, <3>1
    <3>2. CASE MergedCount(s, m) = Smaller(RAFT_MAX_LOG,
                 m.prev_log_index + n - s.snapshot_last_included_index)
      <4>1. p <= m.prev_log_index + n - s.snapshot_last_included_index
        BY <1>1, <1>3, <3>2 DEF Smaller
      <4>2. k <= n
        BY <1>1, <1>3, <4>1
      <4>3. k \in 1..n \/ k <= 0
        BY <1>1, <1>3, <4>2
      <4>4. CASE k <= 0
        BY <1>1, <1>3, <4>4
      <4> QED
        BY <1>6, <4>3, <4>4
    <3> QED
      BY <3>1, <3>2 DEF MergedCount
  <2>2. p \in 1..s.log_count
    BY <1>1, <1>3, <2>1
  <2> QED
    BY <1>6, <2>2 DEF InPlace
<1> QED
  BY <1>4, <1>5, <1>6

\* A merge that does not mark the node dirty changes no entry of the log.
LEMMA MergeWithoutChange ==
    ASSUME NEW s \in Node, NEW m \in Message, PrevMatches(s, m), ~LogChanges(s, m)
    PROVE  /\ MergedCount(s, m) = s.log_count
           /\ \A p \in 1..s.log_count : MergedLog(s, m)[p] = s.log[p]
<1>1. MergedCount(s, m) = s.log_count
  BY Zenon DEF MergedCount
<1>2. ASSUME NEW p \in 1..s.log_count PROVE MergedLog(s, m)[p] = s.log[p]
  <2> DEFINE k == s.snapshot_last_included_index + p - m.prev_log_index
             n == Len(m.entries)
  <2>1. s.log_count \in Nat /\ RAFT_MAX_LOG \in Nat /\ s.log_count <= RAFT_MAX_LOG
        /\ n \in Nat
    BY MergeNumbers
  <2>2. p \in 1..RAFT_MAX_LOG /\ ~(p > s.log_count)
    BY <2>1
  <2>3. \A j \in 1..n : ~Conflicts(s, m, j)
    BY Zenon DEF LogChanges
  <2>4. \/ MergedLog(s, m)[p] = s.log[p]
        \/ k \in 1..n /\ (p > s.log_count \/ \E j \in 1..k : Conflicts(s, m, j))
    BY <2>2, MergedSlot, Zenon
  <2>5. ASSUME k \in 1..n PROVE \A j \in 1..k : j \in 1..n
    BY <2>1, <2>5
  <2> HIDE DEF k, n
  <2> QED
    BY <2>2, <2>3, <2>4, <2>5, Zenon
<1> QED
  BY <1>1, <1>2

\* What follows the loop leaves the log alone and never commits past its end.
LEMMA UpdateCommitFields ==
    ASSUME NEW s \in Node, NEW m \in Message, NEW rebuild \in BOOLEAN
    PROVE  LET t == UpdateCommit(s, m, rebuild)
           IN  /\ t.id = s.id /\ t.learner = s.learner /\ t.outbox = s.outbox
               /\ t.log = s.log /\ t.log_count = s.log_count /\ SameSnapshot(s, t)
               /\ t.config_state = s.config_state
               /\ t.requested_membership = s.requested_membership
               /\ t.requested_membership_pending = s.requested_membership_pending
               /\ t.compaction_threshold = s.compaction_threshold
               /\ t.current_term = s.current_term /\ t.voted_for = s.voted_for
               /\ t.commit_index <= node_last_log_index(s)
               /\ t.last_applied \in {s.last_applied, s.snapshot_last_included_index}
               /\ t.persist_dirty \/ t = s
<1> DEFINE last == node_last_log_index(s)
           restored == IF s.snapshot_last_included_index > 0 THEN s.snapshot_buf ELSE << >>
           commit == Smaller(m.leader_commit, last)
           a == [s EXCEPT !.commit_index = commit, !.app = restored,
                          !.last_applied = s.snapshot_last_included_index,
                          !.persist_dirty = TRUE]
           b == [s EXCEPT !.commit_index = commit, !.persist_dirty = TRUE]
           c == [s EXCEPT !.commit_index = last, !.persist_dirty = TRUE]
           Good(t) == /\ t.id = s.id /\ t.learner = s.learner /\ t.outbox = s.outbox
                      /\ t.log = s.log /\ t.log_count = s.log_count /\ SameSnapshot(s, t)
                      /\ t.config_state = s.config_state
                      /\ t.requested_membership = s.requested_membership
                      /\ t.requested_membership_pending = s.requested_membership_pending
                      /\ t.compaction_threshold = s.compaction_threshold
                      /\ t.current_term = s.current_term /\ t.voted_for = s.voted_for
                      /\ t.commit_index <= node_last_log_index(s)
                      /\ t.last_applied \in {s.last_applied, s.snapshot_last_included_index}
                      /\ t.persist_dirty \/ t = s
<1>1. last \in Nat /\ m.leader_commit \in Nat /\ s.commit_index \in Nat
  BY LogIndexTypes, MessageFields, NodeFields
<1>2. commit <= last /\ last <= last
  BY <1>1 DEF Smaller
<1>3. UpdateCommit(s, m, rebuild) =
        IF rebuild THEN a ELSE IF m.leader_commit > s.commit_index THEN b
        ELSE IF s.commit_index > last THEN c ELSE s
  BY Zenon DEF UpdateCommit
<1>4. ~(s.commit_index > last) => s.commit_index <= last
  BY <1>1
<1> HIDE DEF commit, restored
<1>5. Good(a)
  BY <1>2 DEF SameSnapshot, Node
<1>6. Good(b)
  BY <1>2 DEF SameSnapshot, Node
<1>7. Good(c)
  BY <1>2 DEF SameSnapshot, Node
<1>8. ~(s.commit_index > last) => Good(s)
  BY <1>4 DEF SameSnapshot
<1> HIDE DEF Good, a, b, c, last
<1>9. Good(UpdateCommit(s, m, rebuild))
  BY <1>3, <1>5, <1>6, <1>7, <1>8, Zenon
<1> QED
  BY <1>9, Zenon DEF Good

\* Merging the entries of a leader, and what follows it.
LEMMA MergePreserves ==
    ASSUME NEW s \in Node, NEW m \in Message, PrevMatches(s, m), LogsSurvive => Ordered(m)
    PROVE  LET t == node_append_entries_from_leader(s, m)
           IN  t \in Node /\ Preserves(s, t) /\ SameSnapshot(s, t)
<1> DEFINE e == MergeEntries(s, m)
           rebuild == ReplacesApplied(s, m)
           t == UpdateCommit(e, m, rebuild)
<1>1. e \in Node /\ rebuild \in BOOLEAN
  BY MergeType DEF ReplacesApplied
<1>2. t = node_append_entries_from_leader(s, m)
  BY Zenon DEF node_append_entries_from_leader
<1>3. /\ e.id = s.id /\ e.learner = s.learner /\ e.outbox = s.outbox
      /\ e.log = MergedLog(s, m) /\ e.log_count = MergedCount(s, m) /\ SameSnapshot(s, e)
      /\ e.config_state = s.config_state
      /\ e.compaction_threshold = s.compaction_threshold
      /\ e.current_term = s.current_term /\ e.voted_for = s.voted_for
      /\ e.commit_index = s.commit_index /\ e.last_applied = s.last_applied
      /\ e.persist_dirty = (s.persist_dirty \/ LogChanges(s, m))
  BY DEF MergeEntries, SameSnapshot, Node
<1> HIDE DEF e, rebuild
<1>4. t \in Node
  BY <1>1, UpdateCommitType
<1>5. /\ t.id = e.id /\ t.learner = e.learner /\ t.outbox = e.outbox
      /\ t.log = e.log /\ t.log_count = e.log_count /\ SameSnapshot(e, t)
      /\ t.config_state = e.config_state
      /\ t.compaction_threshold = e.compaction_threshold
      /\ t.current_term = e.current_term /\ t.voted_for = e.voted_for
      /\ t.commit_index <= node_last_log_index(e)
      /\ t.last_applied \in {e.last_applied, e.snapshot_last_included_index}
      /\ t.persist_dirty \/ t = e
  BY <1>1, UpdateCommitFields
<1> HIDE DEF t
<1>6. /\ t.id = s.id /\ t.learner = s.learner /\ t.outbox = s.outbox
      /\ t.log = MergedLog(s, m) /\ t.log_count = MergedCount(s, m) /\ SameSnapshot(s, t)
      /\ t.config_state = s.config_state
      /\ t.compaction_threshold = s.compaction_threshold
  BY <1>3, <1>5, Zenon DEF SameSnapshot
<1>7. s.snapshot_last_included_index <= t.snapshot_last_included_index
  BY <1>6, NodeFields DEF SameSnapshot
<1>8. ASSUME LogsSurvive, Sound(s) PROVE Sound(t)
  <2>1. ASSUME NEW p \in 1..t.log_count
        PROVE  t.log[p].index = t.snapshot_last_included_index + p
    <3>1. InPlace(s) /\ Ordered(m) /\ p \in 1..MergedCount(s, m)
      BY <1>6, <1>8, <2>1, Zenon DEF Sound
    <3>2. MergedLog(s, m)[p].index = s.snapshot_last_included_index + p
      BY <3>1, MergeInPlace
    <3> QED
      BY <1>6, <3>2, Zenon DEF SameSnapshot
  <2>2. node_last_log_index(t) = node_last_log_index(e)
    BY <1>5, Zenon DEF node_last_log_index, SameSnapshot
  <2> QED
    BY <1>5, <1>6, <1>8, <2>1, <2>2, Zenon DEF Sound, InPlace
<1>9. Configured(s) => Configured(t)
  BY <1>6, Zenon DEF Configured
<1>10. AppliedSnapshot(s) => AppliedSnapshot(t)
  <2>1. /\ t.last_applied \in {s.last_applied, s.snapshot_last_included_index}
        /\ t.snapshot_last_included_index = s.snapshot_last_included_index
        /\ s.snapshot_last_included_index \in Nat
    BY <1>3, <1>5, <1>6, NodeFields DEF SameSnapshot
  <2> QED
    BY <2>1 DEF AppliedSnapshot
<1>11. ASSUME ~t.persist_dirty
       PROVE  ~s.persist_dirty /\ PersistentState(t) = PersistentState(s)
  <2>1. t = e
    BY <1>5, <1>11
  <2>2. ~s.persist_dirty /\ ~LogChanges(s, m)
    BY <1>3, <1>11, <2>1, Zenon
  <2>3. /\ t.log_count = s.log_count
        /\ \A p \in 1..s.log_count : t.log[p] = s.log[p]
    BY <1>6, <2>2, MergeWithoutChange, Zenon
  <2>4. LogOf(t) = LogOf(s)
    BY <2>3, Zenon DEF LogOf
  <2>5. PersistentState(t) = PersistentState(s)
    BY <1>3, <2>1, <2>4, Zenon DEF PersistentState, SameSnapshot
  <2> QED
    BY <2>2, <2>5
<1>12. Preserves(s, t)
  BY <1>6, <1>7, <1>8, <1>9, <1>10, <1>11, Zenon DEF Preserves
<1> QED
  BY <1>2, <1>4, <1>6, <1>12

\* node_handle_append_entries.
LEMMA AppendEntriesPreserves ==
    ASSUME NEW s \in Node, NEW m \in Message, LogsSurvive => Ordered(m)
    PROVE  LET t == node_handle_append_entries(s, m)
           IN  Preserves(s, t) /\ SameSnapshot(s, t)
<1> DEFINE t  == node_handle_term_update(s, m)
           l  == [t EXCEPT !.leader_id = m.source]
           ok == m.term = t.current_term /\ PrevMatches(l, m)
           u  == IF m.term # t.current_term THEN t
                 ELSE IF ok THEN node_append_entries_from_leader(l, m) ELSE l
           response == [ZeroMessage EXCEPT
                          !.kind = "APPEND_ENTRIES_RESPONSE", !.term = u.current_term,
                          !.success = ok, !.match_index = node_last_log_index(u),
                          !.source = s.id, !.target = m.source]
           v == node_queue_message(u, response)
           Does(a, b) == b \in Node /\ Preserves(a, b) /\ SameSnapshot(a, b)
<1>0. ASSUME NEW a \in Node, NEW b, NEW c, Does(a, b), Does(b, c) PROVE Does(a, c)
  <2>1. Preserves(a, c)
    BY <1>0, PreservesTransitive
  <2> QED
    BY <1>0, <2>1, Zenon DEF SameSnapshot
<1>1. t \in Node /\ Does(s, t)
  BY TermUpdateType, TermUpdateHandled DEF Handled
<1>2. l \in Node /\ Does(t, l)
  <2> HIDE DEF t
  <2>1. l \in Node
    BY <1>1, MessageFields, Zenon DEF Node
  <2>2. Quiet(t, l)
    BY <1>1, NodeFields DEF Quiet, SameSnapshot, Node
  <2> HIDE DEF l
  <2> QED
    BY <1>1, <2>1, <2>2, QuietPreserves
<1>3. ASSUME ok PROVE Does(l, node_append_entries_from_leader(l, m))
  <2> HIDE DEF l, t
  <2> QED
    BY <1>2, <1>3, MergePreserves
<1>4. u \in Node /\ Does(s, u)
  <2>1. u \in {t, l} \/ (ok /\ u = node_append_entries_from_leader(l, m))
    BY Zenon
  <2> HIDE DEF t, l, u, Does, ok
  <2>2. Does(s, l)
    BY <1>0, <1>1, <1>2, Zenon
  <2>3. ok => Does(s, node_append_entries_from_leader(l, m))
    BY <1>0, <1>2, <1>3, <2>2, Zenon
  <2>4. Does(s, u)
    BY <1>1, <2>1, <2>2, <2>3, Zenon
  <2> QED
    BY <2>4, Zenon DEF Does
<1>5. response \in Message /\ response.entries = << >>
  <2>1. ok \in BOOLEAN
    BY DEF PrevMatches
  <2> HIDE DEF u, ok
  <2>2. u.current_term \in Nat /\ node_last_log_index(u) \in Nat /\ s.id \in MaybeServer
    BY <1>4, NodeFields, LogIndexTypes DEF MaybeServer
  <2>3. response \in Message
    BY <2>1, <2>2, MessageFields, ZeroTypes, Zenon DEF Message, MessageKind
  <2>4. response.entries = << >>
    BY DEF ZeroMessage
  <2> QED
    BY <2>3, <2>4
<1>6. v = node_handle_append_entries(s, m)
  BY Zenon DEF node_handle_append_entries
<1> HIDE DEF t, u, response
<1>7. Does(u, v)
  BY <1>4, <1>5, QueueType, QueueHandled, NoEntriesOrdered DEF Handled
<1> HIDE DEF v
<1>8. Does(s, v)
  BY <1>0, <1>4, <1>7
<1> QED
  BY <1>6, <1>8

-----------------------------------------------------------------------------
(* Compaction.                                                             *)

\* Only applied entries are compacted.
LEMMA CompactibleIsApplied ==
    ASSUME NEW s \in Node
    PROVE  node_compactible_index(s) <= s.last_applied
<1> DEFINE S == {s.last_applied} \cup {s.match_index[k] : k \in PeerSlots(s)}
<1>1. S \in SUBSET Nat /\ S # {} /\ s.last_applied \in S /\ s.last_applied \in Nat
  <2>1. PeerSlots(s) \subseteq 1..RAFT_MAX_PEERS
    BY DEF PeerSlots
  <2> QED
    BY <2>1, NodeFields
<1>2. Min(S) <= s.last_applied
  <2> HIDE DEF S
  <2> QED
    BY <1>1, NatMin
<1>3. s.last_applied <= s.last_applied
  BY <1>1
<1>4. node_compactible_index(s) \in {s.last_applied, Min(S)}
  BY Zenon DEF node_compactible_index
<1> HIDE DEF S
<1> QED
  BY <1>2, <1>3, <1>4

\* Compaction moves the kept entries to the slots their indexes name.
LEMMA DoCompactPreserves ==
    ASSUME NEW s \in Node, Compacts(s)
    PROVE  LET t == node_do_compact(s)
           IN  /\ Preserves(s, t) /\ Stays(s, t) /\ t.persist_dirty
               /\ t.snapshot_last_included_index > s.snapshot_last_included_index
<1> DEFINE target == node_compactible_index(s)
           from == target - s.snapshot_last_included_index
           keep == s.log_count - from
           log == [p \in 1..RAFT_MAX_LOG |-> IF p <= keep THEN s.log[p + from] ELSE s.log[p]]
           t == node_do_compact(s)
<1>1. target \in Nat /\ target <= s.last_applied
  BY CompactibleType, CompactibleIsApplied
<1>2. /\ target > s.snapshot_last_included_index
      /\ target <= s.snapshot_last_included_index + s.log_count
  BY DEF Compacts, node_last_log_index
<1>3. /\ t.role = s.role /\ t.outbox = s.outbox /\ t.persist_dirty
      /\ t.id = s.id /\ t.learner = s.learner
      /\ t.log = log /\ t.log_count = keep
      /\ t.snapshot_last_included_index = target
      /\ t.commit_index = s.commit_index /\ t.last_applied = s.last_applied
      /\ t.config_state = s.config_state /\ t.compaction_threshold = s.compaction_threshold
  BY DEF node_do_compact, Node
<1> HIDE DEF target, t
<1>4. /\ s.log_count \in Nat /\ s.snapshot_last_included_index \in Nat /\ s.commit_index \in Nat
      /\ RAFT_MAX_LOG \in Nat /\ s.log_count <= RAFT_MAX_LOG
  BY NodeFields, LimitAssumption
<1>5. /\ from \in 1..s.log_count /\ keep \in Nat /\ keep + from = s.log_count
      /\ s.snapshot_last_included_index + from = target
  BY <1>1, <1>2, <1>4
<1>6. ASSUME NEW p \in 1..keep PROVE log[p] = s.log[p + from] /\ p + from \in 1..s.log_count
  <2>1. p \in 1..RAFT_MAX_LOG /\ p <= keep /\ p + from \in 1..s.log_count
    BY <1>4, <1>5
  <2> HIDE DEF keep, from
  <2> QED
    BY <2>1
<1> HIDE DEF log, keep, from
<1>7. Grows(s, t)
  <2>1. s.snapshot_last_included_index <= t.snapshot_last_included_index
    BY <1>1, <1>2, <1>3, <1>4
  <2>2. ASSUME NEW p \in 1..s.log_count PROVE Survives(s, t, p)
    <3> DEFINE q == s.snapshot_last_included_index + p - t.snapshot_last_included_index
    <3>1. SUFFICES ASSUME q > 0 PROVE q <= t.log_count /\ t.log[q] = s.log[p]
      BY DEF Survives
    <3>2. q = s.snapshot_last_included_index + p - target
      BY <1>3
    <3>3. q \in 1..keep /\ q + from = p
      BY <1>1, <1>4, <1>5, <3>1, <3>2
    <3> HIDE DEF q
    <3>4. t.log[q] = s.log[p] /\ q <= keep
      BY <1>3, <1>5, <1>6, <3>3
    <3> QED
      BY <1>3, <3>4
  <2> QED
    BY <2>1, <2>2 DEF Grows
<1>8. Sound(s) => Sound(t)
  <2>1. ASSUME InPlace(s) PROVE InPlace(t)
    <3>1. ASSUME NEW p \in 1..keep PROVE t.log[p].index = target + p
      <4>1. s.log[p + from].index = s.snapshot_last_included_index + (p + from)
        BY <1>6, <2>1 DEF InPlace
      <4>2. s.snapshot_last_included_index + (p + from) = target + p
        BY <1>1, <1>4, <1>5
      <4> QED
        BY <1>3, <1>6, <4>1, <4>2
    <3> QED
      BY <1>3, <3>1, Zenon DEF InPlace
  <2>2. node_last_log_index(t) = node_last_log_index(s)
    BY <1>1, <1>3, <1>4, <1>5 DEF node_last_log_index
  <2> QED
    BY <1>3, <2>1, <2>2, Zenon DEF Sound
<1>9. Configured(s) => Configured(t)
  BY <1>3, Zenon DEF Configured
<1>10. AppliedSnapshot(t)
  BY <1>1, <1>3, Zenon DEF AppliedSnapshot
<1>11. Preserves(s, t)
  BY <1>3, <1>7, <1>8, <1>9, <1>10, Zenon DEF Preserves, Grows
<1> QED
  BY <1>2, <1>3, <1>7, <1>11, Zenon DEF Stays, t

\* The end of a dump: the snapshot stays or the node has moved it forward and is dirty.
Dumped(s, t) ==
    /\ Preserves(s, t) /\ Stays(s, t)
    /\ \/ SameSnapshot(s, t)
       \/ /\ t.snapshot_last_included_index > s.snapshot_last_included_index
          /\ t.persist_dirty

\* The membership driver and compaction.
LEMMA CompactedDumped ==
    ASSUME NEW s \in Node
    PROVE  Dumped(s, Compacted(s))
<1> DEFINE u == node_maybe_drive_membership(s)
           t == node_do_compact(u)
<1>1. u \in Node /\ Handled(s, u)
  BY DriveMembershipType, DriveMembershipHandled
<1>2. Compacted(s) = IF Compacts(u) THEN t ELSE u
  BY Zenon DEF Compacted
<1> HIDE DEF u
<1>3. Dumped(s, u)
  BY <1>1, Zenon DEF Dumped, Handled
<1>4. ASSUME Compacts(u) PROVE Dumped(s, t)
  <2>1. t \in Node
    BY <1>1, <1>4, DoCompactType
  <2>2. /\ Preserves(u, t) /\ Stays(u, t) /\ t.persist_dirty
        /\ t.snapshot_last_included_index > u.snapshot_last_included_index
    BY <1>1, <1>4, DoCompactPreserves
  <2> HIDE DEF t
  <2>3. Preserves(s, t)
    BY <1>1, <2>1, <2>2, PreservesTransitive DEF Handled
  <2>4. Grows(s, t)
    BY <1>1, <2>1, <2>2, GrowsTransitive DEF Handled, Stays
  <2>5. Stays(s, t)
    BY <1>1, <2>2, <2>4, Zenon DEF Stays, Handled
  <2>6. t.snapshot_last_included_index > s.snapshot_last_included_index
    BY <1>1, <2>2, Zenon DEF Handled, SameSnapshot
  <2> QED
    BY <2>2, <2>3, <2>5, <2>6 DEF Dumped
<1> QED
  BY <1>2, <1>3, <1>4, Zenon

-----------------------------------------------------------------------------
(* Loading the files.                                                      *)

\* log.txt may also be taken to start before a later index.
LEMMA LogBaseMonotone ==
    ASSUME NEW d, NEW i \in Nat, NEW j \in Nat, i <= j, LogBase(d, i)
    PROVE  LogBase(d, j)
<1>1. PICK b \in 0..i : Consecutive(d.log, b)
  BY DEF LogBase
<1>2. b \in 0..j
  OBVIOUS
<1> QED
  BY <1>1, <1>2, Zenon DEF LogBase

\* The lines that are skipped are those the snapshot covers.
LEMMA SkippedLinesOf ==
    ASSUME NEW d \in Disk, NEW b \in 0..d.meta.snapshot_last_included_index,
           Consecutive(d.log, b)
    PROVE  SkippedLines(d) =
             Smaller(Len(d.log), d.meta.snapshot_last_included_index - b)
<1> DEFINE snap == d.meta.snapshot_last_included_index
           k == Smaller(Len(d.log), snap - b)
           S == {i \in 1..Len(d.log) : d.log[i].index <= snap}
<1>1. snap \in Nat /\ Len(d.log) \in Nat /\ b \in Nat /\ b <= snap
  BY DiskFields
<1>2. k \in Nat
  BY <1>1 DEF Smaller
<1>3. \A i \in 1..Len(d.log) : d.log[i].index = b + i
  BY DEF Consecutive
<1>4. S = 1..k
  <2>1. \A i \in 1..Len(d.log) : d.log[i].index <= snap <=> i <= k
    BY <1>1, <1>3 DEF Smaller
  <2>2. k <= Len(d.log)
    BY <1>1 DEF Smaller
  <2> HIDE DEF k, snap
  <2> QED
    BY <1>1, <1>2, <2>1, <2>2
<1>5. Cardinality(1..k) = k
  <2> HIDE DEF k
  <2>1. 1 \in Int /\ k \in Int
    BY <1>2
  <2>2. Cardinality(1..k) = IF 1 > k THEN 0 ELSE k - 1 + 1
    BY <2>1, FS_Interval
  <2> QED
    BY <1>2, <2>2
<1> QED
  BY <1>4, <1>5, Zenon DEF SkippedLines

\* Entries that are loaded are in place.
LEMMA LoadedInPlace ==
    ASSUME NEW d \in Disk, LogBase(d, d.meta.snapshot_last_included_index),
           NEW p \in 1..LoadedCount(d)
    PROVE  LoadedLog(d)[p].index = d.meta.snapshot_last_included_index + p
<1> DEFINE snap == d.meta.snapshot_last_included_index
           k == SkippedLines(d)
<1>1. PICK b \in 0..snap : Consecutive(d.log, b)
  BY DEF LogBase
<1>2. snap \in Nat /\ Len(d.log) \in Nat /\ b \in Nat /\ b <= snap
  BY DiskFields
<1>3. k = Smaller(Len(d.log), snap - b)
  BY <1>1, SkippedLinesOf
<1>4. /\ LoadedCount(d) \in 0..RAFT_MAX_LOG /\ k \in 0..Len(d.log)
      /\ LoadedCount(d) + k <= Len(d.log)
  BY LoadedCountType
<1>5. p \in 1..RAFT_MAX_LOG /\ p <= LoadedCount(d) /\ p \in Nat
  BY <1>4, LimitAssumption
<1>6. LoadedLog(d)[p] = d.log[p + k]
  BY <1>5 DEF LoadedLog
<1> HIDE DEF k
<1>7. k \in Nat /\ k < Len(d.log) /\ p + k \in 1..Len(d.log)
  BY <1>2, <1>4, <1>5
<1>8. k = snap - b
  BY <1>2, <1>3, <1>7 DEF Smaller
<1>9. d.log[p + k].index = b + (p + k)
  BY <1>1, <1>7 DEF Consecutive
<1>10. b + (p + k) = snap + p
  BY <1>2, <1>5, <1>8
<1> QED
  BY <1>6, <1>9, <1>10

\* What raft_storage_node_load sets.
LEMMA LoadFields ==
    ASSUME NEW s \in Node, NEW d \in Disk
    PROVE  LET t == raft_storage_node_load(s, d)
           IN  /\ t.id = s.id /\ t.learner = s.learner /\ t.outbox = s.outbox
               /\ t.role = s.role /\ t.persist_dirty = s.persist_dirty
               /\ t.current_term = d.meta.current_term /\ t.voted_for = d.meta.voted_for
               /\ t.log = LoadedLog(d) /\ t.log_count = LoadedCount(d)
               /\ SameSnapshot(d.meta, t)
               /\ t.commit_index = Smaller(d.meta.commit_index,
                                           d.meta.snapshot_last_included_index + LoadedCount(d))
               /\ t.config_state = d.meta.config_state
               /\ t.compaction_threshold = d.meta.compaction_threshold
               /\ t.last_applied = IF SnapshotMatches(d) THEN d.meta.snapshot_last_included_index
                                   ELSE 0
               /\ t.app = IF SnapshotMatches(d) THEN d.snapshot.data ELSE << >>
BY DEF raft_storage_node_load, SameSnapshot, Node

\* What loading, and taking the configured members, leaves of files d in memory.
Loads(n, t, d) ==
    /\ t.id = n
    /\ t.current_term = d.meta.current_term /\ t.voted_for = d.meta.voted_for
    /\ t.log = LoadedLog(d) /\ t.log_count = LoadedCount(d) /\ SameSnapshot(d.meta, t)
    /\ t.commit_index = Smaller(d.meta.commit_index,
                                d.meta.snapshot_last_included_index + LoadedCount(d))
    /\ t.last_applied = IF SnapshotMatches(d) THEN d.meta.snapshot_last_included_index ELSE 0
    /\ t.app = IF SnapshotMatches(d) THEN d.snapshot.data ELSE << >>

\* The configuration and threshold of a node that is no learner.
LoadsConfiguration(n, t, d) ==
    /\ ~t.learner
    /\ t.config_state = IF d.meta.config_state.old = {} /\ LoadedCount(d) = 0
                        THEN [old |-> InitialMembers[n], new |-> {}, index |-> 0]
                        ELSE d.meta.config_state
    /\ d.meta.compaction_threshold > 0 =>
          t.compaction_threshold = d.meta.compaction_threshold

\* DefaultMembers sets the configuration only.
LEMMA DefaultMembersFields ==
    ASSUME NEW s \in Node
    PROVE  LET t == DefaultMembers(s)
           IN  /\ t.id = s.id /\ t.learner = s.learner /\ t.outbox = s.outbox
               /\ t.role = s.role /\ t.persist_dirty = s.persist_dirty
               /\ t.current_term = s.current_term /\ t.voted_for = s.voted_for
               /\ t.log = s.log /\ t.log_count = s.log_count
               /\ SameSnapshot(s, t)
               /\ t.commit_index = s.commit_index /\ t.last_applied = s.last_applied
               /\ t.app = s.app /\ t.compaction_threshold = s.compaction_threshold
               /\ ~s.learner => t.config_state =
                    IF s.config_state.old = {} /\ s.log_count = 0
                    THEN [old |-> InitialMembers[s.id], new |-> {}, index |-> 0]
                    ELSE s.config_state
BY DEF DefaultMembers, SameSnapshot, Node

\* Boot without --join loads the files.
LEMMA BootLoads ==
    ASSUME NEW n \in Server \ Learners, NEW d \in Disk
    PROVE  LET t == raft_node_init(n, d)
           IN  /\ t.outbox = {} /\ t.role = "FOLLOWER"
               /\ Loads(n, t, d) /\ LoadsConfiguration(n, t, d)
<1> DEFINE zero    == ZeroNode(n)
           loaded  == raft_storage_node_load(zero, d)
           checked == [loaded EXCEPT !.compaction_threshold = IF @ <= 0 THEN RAFT_MAX_LOG ELSE @]
           s       == DefaultMembers(checked)
           booted  == [s EXCEPT !.membership_state =
                          IF configuration_is_joint(s.config_state) THEN "JOINT" ELSE "STABLE"]
<1>1. /\ zero \in Node /\ zero.id = n /\ zero.outbox = {} /\ zero.role = "FOLLOWER"
      /\ ~zero.learner
  BY ZeroNodeType DEF ZeroNode
<1>2. raft_node_init(n, d) = booted
  BY Zenon DEF raft_node_init
<1> HIDE DEF zero
<1>3. /\ loaded \in Node /\ loaded.outbox = {} /\ loaded.role = "FOLLOWER" /\ ~loaded.learner
      /\ Loads(n, loaded, d) /\ loaded.config_state = d.meta.config_state
      /\ loaded.compaction_threshold = d.meta.compaction_threshold
  BY <1>1, LoadType, LoadFields DEF Loads
<1> HIDE DEF loaded
<1>4. checked \in Node
  <2>1. (IF loaded.compaction_threshold <= 0 THEN RAFT_MAX_LOG
         ELSE loaded.compaction_threshold) \in Nat
    BY <1>3, NodeFields, LimitAssumption
  <2> QED
    BY <1>3, <2>1, Zenon DEF Node
<1>5. /\ checked.outbox = {} /\ checked.role = "FOLLOWER" /\ ~checked.learner
      /\ checked.id = loaded.id
      /\ checked.current_term = loaded.current_term /\ checked.voted_for = loaded.voted_for
      /\ checked.log = loaded.log /\ checked.log_count = loaded.log_count
      /\ SameSnapshot(loaded, checked)
      /\ checked.commit_index = loaded.commit_index
      /\ checked.last_applied = loaded.last_applied /\ checked.app = loaded.app
      /\ checked.config_state = loaded.config_state
      /\ loaded.compaction_threshold > 0 =>
            checked.compaction_threshold = loaded.compaction_threshold
  BY <1>3, NodeFields DEF SameSnapshot, Node
<1> HIDE DEF checked
<1>6. Loads(n, checked, d)
  BY <1>3, <1>5, Zenon DEF Loads, SameSnapshot
<1>7. /\ s \in Node /\ s.outbox = {} /\ s.role = "FOLLOWER" /\ ~s.learner
      /\ s.id = checked.id
      /\ s.current_term = checked.current_term /\ s.voted_for = checked.voted_for
      /\ s.log = checked.log /\ s.log_count = checked.log_count
      /\ SameSnapshot(checked, s)
      /\ s.commit_index = checked.commit_index
      /\ s.last_applied = checked.last_applied /\ s.app = checked.app
      /\ s.compaction_threshold = checked.compaction_threshold
      /\ s.config_state =
            IF checked.config_state.old = {} /\ checked.log_count = 0
            THEN [old |-> InitialMembers[checked.id], new |-> {}, index |-> 0]
            ELSE checked.config_state
  BY <1>4, <1>5, DefaultMembersType, DefaultMembersFields
<1> HIDE DEF s
<1>8. Loads(n, s, d)
  BY <1>6, <1>7, Zenon DEF Loads, SameSnapshot
<1>9. LoadsConfiguration(n, s, d)
  BY <1>3, <1>5, <1>6, <1>7, Zenon DEF Loads, LoadsConfiguration
<1>10. /\ booted.outbox = {} /\ booted.role = "FOLLOWER" /\ booted.learner = s.learner
       /\ booted.id = s.id
       /\ booted.current_term = s.current_term /\ booted.voted_for = s.voted_for
       /\ booted.log = s.log /\ booted.log_count = s.log_count
       /\ SameSnapshot(s, booted)
       /\ booted.commit_index = s.commit_index
       /\ booted.last_applied = s.last_applied /\ booted.app = s.app
       /\ booted.compaction_threshold = s.compaction_threshold
       /\ booted.config_state = s.config_state
  BY <1>7 DEF SameSnapshot, Node
<1> HIDE DEF booted
<1>11. Loads(n, booted, d)
  BY <1>8, <1>10, Zenon DEF Loads, SameSnapshot
<1>12. LoadsConfiguration(n, booted, d)
  BY <1>9, <1>10, Zenon DEF LoadsConfiguration
<1> QED
  BY <1>2, <1>10, <1>11, <1>12, Zenon

\* Boot with --join starts from nothing.
LEMMA BootForgets ==
    ASSUME NEW n \in Server, n \in Learners, NEW d \in Disk
    PROVE  LET t == raft_node_init(n, d)
           IN  /\ t.outbox = {} /\ t.role = "FOLLOWER" /\ t.id = n
               /\ t.log_count = 0 /\ t.current_term = 0 /\ t.commit_index = 0 /\ t.last_applied = 0
               /\ t.snapshot_last_included_index = 0 /\ t.snapshot_last_included_term = 0
               /\ t.app = IF SnapshotMatches(d) THEN d.snapshot.data ELSE << >>
<1> DEFINE zero    == ZeroNode(n)
           loaded  == raft_storage_node_load(zero, d)
           checked == [loaded EXCEPT !.compaction_threshold = IF @ <= 0 THEN RAFT_MAX_LOG ELSE @]
           forgot  == Forget(checked)
           s       == DefaultMembers(forgot)
           booted  == [s EXCEPT !.membership_state =
                          IF configuration_is_joint(s.config_state) THEN "JOINT" ELSE "STABLE"]
           Empty(t) == /\ t.outbox = {} /\ t.role = "FOLLOWER" /\ t.id = n
                       /\ t.log_count = 0 /\ t.current_term = 0 /\ t.commit_index = 0 /\ t.last_applied = 0
                       /\ t.snapshot_last_included_index = 0
                       /\ t.snapshot_last_included_term = 0
                       /\ t.app = IF SnapshotMatches(d) THEN d.snapshot.data ELSE << >>
<1>1. zero \in Node /\ zero.id = n /\ zero.outbox = {} /\ zero.role = "FOLLOWER"
  BY ZeroNodeType DEF ZeroNode
<1>2. raft_node_init(n, d) = booted
  BY Zenon DEF raft_node_init
<1> HIDE DEF zero
<1>3. /\ loaded \in Node /\ loaded.outbox = {} /\ loaded.role = "FOLLOWER" /\ loaded.id = n
      /\ loaded.app = IF SnapshotMatches(d) THEN d.snapshot.data ELSE << >>
  BY <1>1, LoadType, LoadFields
<1> HIDE DEF loaded
<1>4. checked \in Node
  <2>1. (IF loaded.compaction_threshold <= 0 THEN RAFT_MAX_LOG
         ELSE loaded.compaction_threshold) \in Nat
    BY <1>3, NodeFields, LimitAssumption
  <2> QED
    BY <1>3, <2>1, Zenon DEF Node
<1>5. /\ checked.outbox = {} /\ checked.role = "FOLLOWER" /\ checked.id = n
      /\ checked.app = loaded.app
  BY <1>3 DEF Node
<1> HIDE DEF checked
<1>6. forgot \in Node /\ Empty(forgot)
  <2>1. forgot \in Node
    BY <1>4, ForgetType
  <2>2. Empty(forgot)
    BY <1>3, <1>4, <1>5 DEF Forget, Node
  <2> QED
    BY <2>1, <2>2
<1> HIDE DEF forgot
<1>7. s \in Node /\ Empty(s)
  BY <1>6, DefaultMembersType, DefaultMembersFields DEF SameSnapshot
<1> HIDE DEF s
<1>8. Empty(booted)
  BY <1>7 DEF Node
<1> HIDE DEF booted
<1> QED
  BY <1>2, <1>8, Zenon

\* raft_node_start loads the files.
LEMMA StartLoads ==
    ASSUME NEW s \in Node, NEW d \in Disk
    PROVE  LET t == raft_node_start(s, d)
           IN  /\ t.outbox = s.outbox /\ t.role = "FOLLOWER"
               /\ Loads(s.id, t, d)
               /\ ~s.learner => LoadsConfiguration(s.id, t, d)
<1> DEFINE l == raft_storage_node_load(s, d)
           u == DefaultMembers(l)
           t == [u EXCEPT !.running = TRUE, !.role = "FOLLOWER"]
<1>1. raft_node_start(s, d) = t
  BY Zenon DEF raft_node_start
<1>2. /\ l \in Node /\ l.outbox = s.outbox /\ l.learner = s.learner
      /\ Loads(s.id, l, d) /\ l.config_state = d.meta.config_state
      /\ l.compaction_threshold = d.meta.compaction_threshold
  BY LoadType, LoadFields DEF Loads
<1> HIDE DEF l
<1>3. /\ u \in Node /\ u.outbox = l.outbox /\ u.learner = l.learner
      /\ u.id = l.id
      /\ u.current_term = l.current_term /\ u.voted_for = l.voted_for
      /\ u.log = l.log /\ u.log_count = l.log_count
      /\ SameSnapshot(l, u)
      /\ u.commit_index = l.commit_index
      /\ u.last_applied = l.last_applied /\ u.app = l.app
      /\ u.compaction_threshold = l.compaction_threshold
      /\ ~l.learner => u.config_state =
            IF l.config_state.old = {} /\ l.log_count = 0
            THEN [old |-> InitialMembers[l.id], new |-> {}, index |-> 0]
            ELSE l.config_state
  BY <1>2, DefaultMembersType, DefaultMembersFields
<1> HIDE DEF u
<1>4. Loads(s.id, u, d)
  BY <1>2, <1>3, Zenon DEF Loads, SameSnapshot
<1>5. ~s.learner => LoadsConfiguration(s.id, u, d)
  BY <1>2, <1>3, Zenon DEF Loads, LoadsConfiguration
<1>6. /\ t.outbox = u.outbox /\ t.role = "FOLLOWER" /\ t.learner = u.learner
      /\ t.id = u.id
      /\ t.current_term = u.current_term /\ t.voted_for = u.voted_for
      /\ t.log = u.log /\ t.log_count = u.log_count
      /\ SameSnapshot(u, t)
      /\ t.commit_index = u.commit_index
      /\ t.last_applied = u.last_applied /\ t.app = u.app
      /\ t.compaction_threshold = u.compaction_threshold
      /\ t.config_state = u.config_state
  BY <1>3 DEF SameSnapshot, Node
<1> HIDE DEF t
<1>7. Loads(s.id, t, d)
  BY <1>4, <1>6, Zenon DEF Loads, SameSnapshot
<1>8. ~s.learner => LoadsConfiguration(s.id, t, d)
  BY <1>5, <1>6, Zenon DEF LoadsConfiguration
<1> QED
  BY <1>1, <1>2, <1>3, <1>6, <1>7, <1>8, Zenon

\* Whatever files log.txt fits are loaded soundly.
LEMMA LoadsSound ==
    ASSUME NEW n, NEW t \in Node, NEW d \in Disk, Loads(n, t, d),
           LogBase(d, d.meta.snapshot_last_included_index),
           \A m \in t.outbox : Ordered(m)
    PROVE  Sound(t) /\ FilesInPlace(t, d)
<1> DEFINE snap == d.meta.snapshot_last_included_index
<1>1. /\ t.log = LoadedLog(d) /\ t.log_count = LoadedCount(d)
      /\ t.snapshot_last_included_index = snap
      /\ t.commit_index = Smaller(d.meta.commit_index, snap + LoadedCount(d))
  BY Zenon DEF Loads, SameSnapshot
<1>2. InPlace(t)
  <2>1. ASSUME NEW p \in 1..t.log_count
        PROVE  t.log[p].index = t.snapshot_last_included_index + p
    <3>1. p \in 1..LoadedCount(d)
      BY <1>1, <2>1
    <3> QED
      BY <1>1, <3>1, LoadedInPlace
  <2> QED
    BY <2>1, Zenon DEF InPlace
<1>3. t.commit_index <= node_last_log_index(t)
  <2>1. /\ snap \in Nat /\ d.meta.commit_index \in Nat /\ LoadedCount(d) \in Nat
        /\ node_last_log_index(t) = snap + LoadedCount(d)
    BY <1>1, DiskFields, NodeFields, LimitAssumption DEF node_last_log_index
  <2> HIDE DEF snap
  <2> QED
    BY <1>1, <2>1 DEF Smaller
<1> QED
  BY <1>1, <1>2, <1>3, Zenon DEF Sound, FilesInPlace

\* A node that is no learner has members when it was loaded.
LEMMA LoadsConfigured ==
    ASSUME MembersKnown, NEW n \in Server \ Learners, NEW t \in Node, NEW d \in Disk,
           LoadsConfiguration(n, t, d), FilesConfigured(d)
    PROVE  Configured(t)
<1>1. InitialMembers[n] # {}
  BY DEF MembersKnown
<1>2. d.log = << >> => LoadedCount(d) = 0
  <2>1. SUFFICES ASSUME d.log = << >> PROVE LoadedCount(d) = 0
    OBVIOUS
  <2>2. Len(d.log) = 0
    BY <2>1
  <2>3. /\ RAFT_MAX_LOG \in Nat /\ LoadedCount(d) \in 0..RAFT_MAX_LOG
        /\ SkippedLines(d) \in 0..0 /\ LoadedCount(d) + SkippedLines(d) <= 0
    BY <2>2, LoadedCountType, LimitAssumption
  <2> QED
    BY <2>3
<1>3. t.config_state.old # {}
  BY <1>1, <1>2 DEF LoadsConfiguration, FilesConfigured
<1>4. t.compaction_threshold > 0 /\ ~t.learner
  BY DEF LoadsConfiguration, FilesConfigured
<1> QED
  BY <1>3, <1>4 DEF Configured

\* Boot and start load the same.
LEMMA LoadsSame ==
    ASSUME NEW n, NEW s, NEW t, NEW d,
           Loads(n, s, d), LoadsConfiguration(n, s, d),
           Loads(n, t, d), LoadsConfiguration(n, t, d), d.meta.compaction_threshold > 0
    PROVE  PersistentState(s) = PersistentState(t)
<1>1. /\ s.current_term = t.current_term /\ s.voted_for = t.voted_for
      /\ s.log = t.log /\ s.log_count = t.log_count /\ s.commit_index = t.commit_index
      /\ SameSnapshot(t, s)
  BY Zenon DEF Loads, SameSnapshot
<1>2. s.config_state = t.config_state /\ s.compaction_threshold = t.compaction_threshold
  BY Zenon DEF LoadsConfiguration
<1> QED
  BY <1>1, <1>2, SamePersistentState

\* What was saved.
LEMMA SavedLog ==
    ASSUME NEW t \in Node, InPlace(t), NEW d \in Disk, d.log = write_log(t)
    PROVE  /\ Len(d.log) = t.log_count
           /\ \A p \in 1..t.log_count : d.log[p] = t.log[p]
           /\ Consecutive(d.log, t.snapshot_last_included_index)
<1>1. t.log_count \in Nat /\ t.snapshot_last_included_index \in Nat
  BY NodeFields, LimitAssumption
<1>2. Len(d.log) = t.log_count /\ \A p \in 1..t.log_count : d.log[p] = t.log[p]
  BY <1>1 DEF write_log
<1>3. \A p \in 1..t.log_count : t.log[p].index = t.snapshot_last_included_index + p
  BY DEF InPlace
<1> QED
  BY <1>2, <1>3, Zenon DEF Consecutive

\* Saving and booting again gives back the persistent state.
LEMMA ReloadGivesBack ==
    ASSUME NEW n \in Server \ Learners, NEW t \in Node, Sound(t), Configured(t),
           NEW d \in Disk, d.meta = write_meta(t), d.log = write_log(t)
    PROVE  PersistentState(raft_node_init(n, d)) = PersistentState(t)
<1> DEFINE u == raft_node_init(n, d)
           snap == t.snapshot_last_included_index
<1>1. /\ d.meta.current_term = t.current_term /\ d.meta.voted_for = t.voted_for
      /\ d.meta.compaction_threshold = t.compaction_threshold
      /\ d.meta.commit_index = t.commit_index
      /\ d.meta.snapshot_last_included_index = snap
      /\ d.meta.snapshot_last_included_term = t.snapshot_last_included_term
      /\ d.meta.config_state = t.config_state
  BY DEF write_meta
<1>2. /\ snap \in Nat /\ t.log_count \in Nat /\ RAFT_MAX_LOG \in Nat
      /\ t.log_count <= RAFT_MAX_LOG /\ t.commit_index \in Nat
  BY NodeFields, LimitAssumption
<1>3. /\ Len(d.log) = t.log_count /\ Consecutive(d.log, snap)
      /\ \A p \in 1..t.log_count : d.log[p] = t.log[p]
  BY SavedLog DEF Sound
<1>4. SkippedLines(d) = 0
  <2>1. snap \in 0..d.meta.snapshot_last_included_index
    BY <1>1, <1>2
  <2>2. SkippedLines(d) = Smaller(Len(d.log), d.meta.snapshot_last_included_index - snap)
    BY <1>3, <2>1, SkippedLinesOf
  <2> QED
    BY <1>1, <1>2, <1>3, <2>2 DEF Smaller
<1>5. LoadedCount(d) = t.log_count
  BY <1>2, <1>3, <1>4 DEF LoadedCount, Smaller
<1>6. ASSUME NEW p \in 1..t.log_count PROVE LoadedLog(d)[p] = t.log[p]
  <2>1. p \in 1..RAFT_MAX_LOG /\ p <= LoadedCount(d) /\ p + SkippedLines(d) = p
    BY <1>2, <1>4, <1>5
  <2>2. LoadedLog(d)[p] = d.log[p + SkippedLines(d)]
    BY <2>1 DEF LoadedLog
  <2> QED
    BY <1>3, <2>1, <2>2
<1>7. Loads(n, u, d) /\ LoadsConfiguration(n, u, d)
  BY BootLoads
<1> HIDE DEF u
<1>8. LogOf(u) = LogOf(t)
  <2>1. u.log_count = t.log_count /\ u.log = LoadedLog(d)
    BY <1>5, <1>7, Zenon DEF Loads
  <2> QED
    BY <1>6, <2>1, Zenon DEF LogOf
<1>9. u.commit_index = t.commit_index
  <2>1. u.commit_index = Smaller(t.commit_index, snap + t.log_count)
    BY <1>1, <1>5, <1>7, Zenon DEF Loads
  <2>2. t.commit_index <= snap + t.log_count
    BY DEF Sound, node_last_log_index
  <2> HIDE DEF snap
  <2> QED
    BY <1>2, <2>1, <2>2 DEF Smaller
<1>10. /\ u.config_state = t.config_state
       /\ u.compaction_threshold = t.compaction_threshold
  BY <1>1, <1>7, Zenon DEF LoadsConfiguration, Configured
<1>11. /\ u.current_term = t.current_term /\ u.voted_for = t.voted_for
       /\ u.snapshot_last_included_index = snap
       /\ u.snapshot_last_included_term = t.snapshot_last_included_term
  BY <1>1, <1>7, Zenon DEF Loads, SameSnapshot
<1> QED
  BY <1>8, <1>9, <1>10, <1>11, Zenon DEF PersistentState, u

-----------------------------------------------------------------------------
(* Steps of the cluster.                                                   *)

\* A node that boots, from an empty directory or after a crash.
LEMMA BootProcess ==
    ASSUME NEW n \in Server, NEW d \in Disk,
           LogsSurvive => LogBase(d, d.meta.snapshot_last_included_index),
           LogsSurvive /\ n \in Learners => LogBase(d, 0),
           LogsSurvive /\ MembersKnown /\ n \notin Learners => FilesConfigured(d),
           MaxCrashes = 0 => SameSnapshot(NoMeta, d.meta)
    PROVE  /\ Process(n, raft_node_init(n, d), d)
           /\ raft_node_init(n, d).role = "FOLLOWER"
<1> DEFINE t == raft_node_init(n, d)
<1>1. t \in Node
  BY InitNodeType
<1>2. NoMeta.snapshot_last_included_index = 0 /\ NoMeta.snapshot_last_included_term = 0
  BY DEF NoMeta
<1>3. Restarts(n, t, d)
  BY Zenon DEF Restarts
<1>4. CASE n \in Learners
  <2>1. /\ t.outbox = {} /\ t.role = "FOLLOWER" /\ t.id = n
        /\ t.log_count = 0 /\ t.commit_index = 0 /\ t.last_applied = 0
        /\ t.snapshot_last_included_index = 0 /\ t.snapshot_last_included_term = 0
    BY <1>4, BootForgets
  <2> HIDE DEF t
  <2>2. Sound(t)
    BY <2>1 DEF Sound, InPlace, node_last_log_index
  <2>3. LogsSurvive => FilesInPlace(t, d)
    BY <1>4, <2>1 DEF FilesInPlace
  <2>4. AppliedSnapshot(t)
    BY <2>1 DEF AppliedSnapshot
  <2>5. MaxCrashes = 0 => SnapshotSaved(t, d)
    BY <1>2, <2>1, Zenon DEF SnapshotSaved, SameSnapshot
  <2>6. Process(n, t, d)
    BY <1>4, <2>1, <2>2, <2>3, <2>4, <2>5, Zenon DEF Process
  <2> QED
    BY <2>1, <2>6 DEF t
<1>5. CASE n \notin Learners
  <2>1. /\ t.outbox = {} /\ t.role = "FOLLOWER" /\ Loads(n, t, d) /\ LoadsConfiguration(n, t, d)
    BY <1>5, BootLoads
  <2> HIDE DEF t
  <2>2. LogsSurvive => Sound(t) /\ FilesInPlace(t, d)
    BY <1>1, <2>1, LoadsSound
  <2>3. LogsSurvive /\ MembersKnown => Configured(t) /\ FilesConfigured(d)
    BY <1>1, <1>5, <2>1, LoadsConfigured
  <2>4. ASSUME MaxCrashes = 0 PROVE AppliedSnapshot(t) /\ SnapshotSaved(t, d)
    <3>1. SameSnapshot(t, d.meta) /\ d.meta.snapshot_last_included_index = 0
      BY <1>2, <2>1, <2>4, Zenon DEF Loads, SameSnapshot
    <3>2. t.snapshot_last_included_index = 0 /\ t.last_applied = 0
      BY <3>1, <2>1 DEF Loads, SameSnapshot
    <3> QED
      BY <3>1, <3>2 DEF AppliedSnapshot, SnapshotSaved
  <2>5. t.id = n
    BY <2>1, Zenon DEF Loads
  <2>6. Process(n, t, d)
    BY <1>3, <2>2, <2>3, <2>4, <2>5, Zenon DEF Process
  <2> QED
    BY <2>1, <2>6 DEF t
<1> QED
  BY <1>4, <1>5

\* A step of node n, which leaves the other nodes and their files alone.
LEMMA NodeStep ==
    ASSUME TypeOK, LogInv, NEW n \in Server,
           \A p \in Server \ {n} : node'[p] = node[p] /\ disk'[p] = disk[p],
           Process(n, node'[n], disk'[n]),
           Grows(node[n], node'[n]) \/ node'[n].role = "FOLLOWER",
           LogsSurvive => \A m \in net' : Ordered(m)
    PROVE  LogInv' /\ LeadersGrow
<1>1. ASSUME NEW p \in Server PROVE Process(p, node'[p], disk'[p])
  <2>1. CASE p = n
    BY <2>1
  <2>2. CASE p # n
    <3>1. node'[p] = node[p] /\ disk'[p] = disk[p] /\ Process(p, node[p], disk[p])
      BY <2>2, Zenon DEF LogInv
    <3> QED
      BY <3>1, Zenon
  <2> QED
    BY <2>1, <2>2
<1>2. ASSUME NEW p \in Server, node'[p].role = "LEADER"
      PROVE  Grows(node[p], node'[p])
  <2>1. CASE p = n
    BY <1>2, <2>1
  <2>2. CASE p # n
    <3>1. node'[p] = node[p] /\ node[p] \in Node
      BY <2>2 DEF TypeOK
    <3>2. Grows(node[p], node[p])
      BY <3>1, SameLogGrows, Zenon DEF SameSnapshot
    <3> QED
      BY <3>1, <3>2, Zenon
  <2> QED
    BY <2>1, <2>2
<1> QED
  BY <1>1, <1>2, Zenon DEF LogInv, LeadersGrow

\* What a handler leaves of a node still fits the files.
LEMMA PreservedProcess ==
    ASSUME NEW n \in Server, NEW s \in Node, NEW t \in Node, NEW d,
           Preserves(s, t), SameSnapshot(s, t), Process(n, s, d)
    PROVE  Process(n, t, d)
<1>1. LogsSurvive => Sound(t) /\ FilesInPlace(t, d)
  BY Zenon DEF Preserves, SameSnapshot, Process, FilesInPlace
<1>2. Restarts(n, s, d) => Restarts(n, t, d)
  BY Zenon DEF Restarts, Preserves
<1>3. SnapshotSaved(s, d) => SnapshotSaved(t, d)
  BY Zenon DEF SnapshotSaved, SameSnapshot
<1> QED
  BY <1>1, <1>2, <1>3, Zenon DEF Process, Preserves

\* A step that changes the memory of node n only.
LEMMA MemoryStep ==
    ASSUME TypeOK, LogInv, NEW n \in Server, NEW t \in Node,
           Preserves(node[n], t), SameSnapshot(node[n], t),
           Grows(node[n], t) \/ t.role = "FOLLOWER",
           node' = [node EXCEPT ![n] = t], UNCHANGED <<disk, net>>
    PROVE  LogInv' /\ LeadersGrow
<1>1. /\ node[n] \in Node /\ node'[n] = t /\ disk'[n] = disk[n]
      /\ \A p \in Server \ {n} : node'[p] = node[p] /\ disk'[p] = disk[p]
  BY Zenon DEF TypeOK
<1>2. Process(n, t, disk[n])
  BY <1>1, PreservedProcess DEF LogInv
<1>3. LogsSurvive => \A m \in net' : Ordered(m)
  BY Zenon DEF LogInv
<1> QED
  BY <1>1, <1>2, <1>3, NodeStep, Zenon

\* A node whose files were just saved.
LEMMA SavedProcess ==
    ASSUME NEW n \in Server, NEW u \in Node, u.id = n, NEW f \in Disk,
           f.meta = write_meta(u), f.log = write_log(u),
           LogsSurvive => Sound(u),
           LogsSurvive /\ MembersKnown /\ n \notin Learners => Configured(u),
           MaxCrashes = 0 =>
               AppliedSnapshot(u) /\ (u.snapshot_last_included_index = 0 \/ SnapshotMatches(f))
    PROVE  Process(n, u, f)
<1> DEFINE snap == u.snapshot_last_included_index
<1>1. /\ f.meta.snapshot_last_included_index = snap
      /\ f.meta.snapshot_last_included_term = u.snapshot_last_included_term
      /\ f.meta.compaction_threshold = u.compaction_threshold
      /\ f.meta.config_state = u.config_state
  BY DEF write_meta
<1>2. LogsSurvive => FilesInPlace(u, f)
  <2>1. SUFFICES ASSUME LogsSurvive PROVE FilesInPlace(u, f)
    OBVIOUS
  <2>2. Consecutive(f.log, snap)
    BY <2>1, SavedLog DEF Sound
  <2>3. snap \in 0..snap
    BY NodeFields
  <2>4. LogBase(f, snap)
    BY <2>2, <2>3, Zenon DEF LogBase
  <2> QED
    BY <1>1, <2>4, Zenon DEF FilesInPlace
<1>3. Configured(u) => FilesConfigured(f)
  BY <1>1, Zenon DEF Configured, FilesConfigured
<1>4. ASSUME n \notin Learners, Sound(u), Configured(u) PROVE Restarts(n, u, f)
  <2>1. PersistentState(raft_node_init(n, f)) = PersistentState(u)
    BY <1>4, ReloadGivesBack
  <2> QED
    BY <2>1 DEF Restarts
<1>5. MaxCrashes = 0 => SnapshotSaved(u, f)
  BY <1>1, Zenon DEF SnapshotSaved, SameSnapshot
<1> QED
  BY <1>2, <1>3, <1>4, <1>5, Zenon DEF Process

\* The files that the end of a dump leaves, or a crash in it.
LEMMA DumpedFiles ==
    ASSUME NEW s \in Node, NEW t \in Node, NEW d \in Disk
    PROVE  LET e == DiskAfterCompaction(d, s, t)
               m == [e EXCEPT !.meta = write_meta(t)]
               f == raft_storage_node_save(e, t)
           IN  /\ e \in Disk /\ e.meta = d.meta /\ e.log = d.log
               /\ t.snapshot_last_included_index = s.snapshot_last_included_index => e = d
               /\ t.snapshot_last_included_index # s.snapshot_last_included_index =>
                     /\ e.snapshot.index = t.snapshot_last_included_index
                     /\ e.snapshot.term = t.snapshot_last_included_term
               /\ m \in Disk /\ m.meta = write_meta(t) /\ m.log = d.log
               /\ f \in Disk /\ f.meta = write_meta(t) /\ f.log = write_log(t)
               /\ f.snapshot = e.snapshot
<1> DEFINE e == DiskAfterCompaction(d, s, t)
           m == [e EXCEPT !.meta = write_meta(t)]
           f == raft_storage_node_save(e, t)
<1>1. e \in Disk
  BY DiskAfterCompactionType
<1>2. e.meta = d.meta /\ e.log = d.log
  BY DEF DiskAfterCompaction, raft_storage_save_snapshot, Disk
<1>3. t.snapshot_last_included_index = s.snapshot_last_included_index => e = d
  BY DEF DiskAfterCompaction
<1>4. t.snapshot_last_included_index # s.snapshot_last_included_index =>
         /\ e.snapshot.index = t.snapshot_last_included_index
         /\ e.snapshot.term = t.snapshot_last_included_term
  BY DEF DiskAfterCompaction, raft_storage_save_snapshot, Disk
<1> HIDE DEF e
<1>5. m \in Disk /\ f \in Disk
  BY <1>1, SaveType, WriteTypes, Zenon DEF Disk
<1>6. m.meta = write_meta(t) /\ m.log = e.log
  BY <1>1 DEF Disk
<1>7. f.meta = write_meta(t) /\ f.log = write_log(t) /\ f.snapshot = e.snapshot
  BY <1>1 DEF raft_storage_node_save, Disk
<1> HIDE DEF m, f
<1> QED
  BY <1>1, <1>2, <1>3, <1>4, <1>5, <1>6, <1>7, Zenon DEF e, m, f

\* A row of the table after the latch, and what follows it.
LEMMA ActedTransitive ==
    ASSUME NEW s \in Node, NEW t \in Node, NEW u \in Node,
           \/ Handled(s, t) /\ Acted(t, u)
           \/ Acted(s, t) /\ Handled(t, u)
    PROVE  Acted(s, u)
<1>1. Preserves(s, u) /\ SameSnapshot(s, u)
  <2>1. Preserves(s, t) /\ Preserves(t, u) /\ SameSnapshot(s, t) /\ SameSnapshot(t, u)
    BY Zenon DEF Handled, Acted
  <2> QED
    BY <2>1, PreservesTransitive, Zenon DEF SameSnapshot
<1>2. Grows(s, u) \/ u.role = "FOLLOWER"
  <2>1. CASE u.role = "FOLLOWER"
    BY <2>1
  <2>2. CASE u.role # "FOLLOWER"
    <3>1. Grows(s, t) /\ Grows(t, u)
      BY <2>2, Zenon DEF Handled, Acted, Stays
    <3> QED
      BY <3>1, GrowsTransitive
  <2> QED
    BY <2>1, <2>2
<1> QED
  BY <1>1, <1>2 DEF Acted

\* The end of a dump.
LEMMA FinishDumpStep ==
    ASSUME TypeOK, LogInv, NEW n \in Server, NEW s \in Node, Acted(node[n], s),
           NEW received, FinishDump(n, s, received)
    PROVE  LogInv' /\ LeadersGrow
<1> DEFINE t == Compacted(s)
           d == DiskAfterCompaction(disk[n], s, t)
           saved == IF t.persist_dirty THEN raft_storage_node_save(d, t) ELSE d
           sent == [t EXCEPT !.persist_dirty = FALSE, !.outbox = {}]
<1>1. node[n] \in Node /\ disk[n] \in Disk /\ t \in Node
  BY CompactedType DEF TypeOK
<1>2. Dumped(s, t)
  BY CompactedDumped
<1>3. /\ disk' = [disk EXCEPT ![n] = saved] /\ node' = [node EXCEPT ![n] = sent]
      /\ Deliver(received, t.outbox)
  BY Zenon DEF FinishDump
<1> HIDE DEF t
<1>4. sent \in Node
  BY <1>1, Zenon DEF Node
<1>5. /\ sent.id = t.id /\ sent.learner = t.learner /\ sent.role = t.role
      /\ sent.current_term = t.current_term /\ sent.voted_for = t.voted_for
      /\ sent.log = t.log /\ sent.log_count = t.log_count /\ SameSnapshot(t, sent)
      /\ sent.commit_index = t.commit_index /\ sent.last_applied = t.last_applied
      /\ sent.config_state = t.config_state
      /\ sent.compaction_threshold = t.compaction_threshold
      /\ sent.outbox = {} /\ ~sent.persist_dirty
  BY <1>1 DEF SameSnapshot, Node
<1>6. /\ d \in Disk /\ d.meta = disk[n].meta /\ d.log = disk[n].log
      /\ t.snapshot_last_included_index = s.snapshot_last_included_index => d = disk[n]
      /\ t.snapshot_last_included_index # s.snapshot_last_included_index =>
            /\ d.snapshot.index = t.snapshot_last_included_index
            /\ d.snapshot.term = t.snapshot_last_included_term
      /\ t.persist_dirty =>
            /\ saved \in Disk /\ saved.meta = write_meta(t) /\ saved.log = write_log(t)
            /\ saved.snapshot = d.snapshot
      /\ ~t.persist_dirty => saved = d
  BY <1>1, DumpedFiles
<1> HIDE DEF d, saved, sent
<1>7. Process(n, s, disk[n])
  BY <1>1, PreservedProcess DEF LogInv, Acted
<1>8. LogsSurvive => Sound(t)
  BY <1>2, <1>7, Zenon DEF Process, Dumped, Preserves
<1>9. Process(n, sent, saved)
  <2>1. CASE t.persist_dirty
    <3>1. sent.id = n
      BY <1>2, <1>5, <1>7, Zenon DEF Process, Dumped, Preserves
    <3>2. saved.meta = write_meta(sent) /\ saved.log = write_log(sent)
      <4>1. write_meta(sent) = write_meta(t) /\ write_log(sent) = write_log(t)
        BY <1>5, Zenon DEF write_meta, write_log, SameSnapshot
      <4> QED
        BY <1>6, <2>1, <4>1
    <3>3. LogsSurvive => Sound(sent)
      <4>1. InPlace(t) => InPlace(sent)
        BY <1>5, Zenon DEF InPlace, SameSnapshot
      <4>2. node_last_log_index(sent) = node_last_log_index(t)
        BY <1>5, Zenon DEF node_last_log_index, SameSnapshot
      <4> QED
        BY <1>5, <1>8, <4>1, <4>2, Zenon DEF Sound
    <3>4. LogsSurvive /\ MembersKnown /\ n \notin Learners => Configured(sent)
      <4>1. Configured(s) => Configured(sent)
        BY <1>2, <1>5, Zenon DEF Dumped, Preserves, Configured
      <4> QED
        BY <1>7, <4>1, Zenon DEF Process
    <3>5. ASSUME MaxCrashes = 0
          PROVE  /\ AppliedSnapshot(sent)
                 /\ sent.snapshot_last_included_index = 0 \/ SnapshotMatches(saved)
      <4>1. AppliedSnapshot(s) /\ SnapshotSaved(s, disk[n])
        BY <1>7, <3>5, Zenon DEF Process
      <4>2. AppliedSnapshot(sent)
        BY <1>2, <1>5, <4>1, Zenon DEF Dumped, Preserves, AppliedSnapshot, SameSnapshot
      <4>3. /\ saved.meta.snapshot_last_included_index = t.snapshot_last_included_index
            /\ saved.meta.snapshot_last_included_term = t.snapshot_last_included_term
        BY <1>6, <2>1 DEF write_meta
      <4>4. CASE SameSnapshot(s, t)
        <5>1. saved.snapshot = disk[n].snapshot
          BY <1>6, <2>1, <4>4, Zenon DEF SameSnapshot
        <5>2. SnapshotMatches(disk[n]) => SnapshotMatches(saved)
          BY <4>1, <4>3, <4>4, <5>1, Zenon DEF SnapshotMatches, SnapshotSaved, SameSnapshot
        <5>3. sent.snapshot_last_included_index = disk[n].meta.snapshot_last_included_index
          BY <1>5, <4>1, <4>4, Zenon DEF SnapshotSaved, SameSnapshot
        <5> QED
          BY <4>1, <4>2, <5>2, <5>3, Zenon DEF SnapshotSaved
      <4>5. CASE t.snapshot_last_included_index > s.snapshot_last_included_index
        <5>1. t.snapshot_last_included_index # s.snapshot_last_included_index
          BY <1>1, <4>5, NodeFields
        <5>2. SnapshotMatches(saved)
          BY <1>6, <2>1, <4>3, <5>1, Zenon DEF SnapshotMatches
        <5> QED
          BY <4>2, <5>2
      <4> QED
        BY <1>2, <4>4, <4>5, Zenon DEF Dumped
    <3> QED
      BY <1>4, <1>6, <2>1, <3>1, <3>2, <3>3, <3>4, <3>5, SavedProcess, Zenon
  <2>2. CASE ~t.persist_dirty
    <3>1. Preserves(s, t) /\ SameSnapshot(s, t)
      BY <1>2, <2>2, Zenon DEF Dumped
    <3>2. Quiet(t, sent)
      BY <1>5, <2>2, Zenon DEF Quiet
    <3>3. Process(n, sent, disk[n])
      <4>1. Process(n, t, disk[n])
        BY <1>1, <1>7, <3>1, PreservedProcess
      <4>2. Preserves(t, sent) /\ SameSnapshot(t, sent)
        BY <1>1, <1>4, <3>2, QuietPreserves
      <4> QED
        BY <1>1, <1>4, <4>1, <4>2, PreservedProcess
    <3>4. saved = disk[n]
      BY <1>6, <2>2, <3>1, Zenon DEF SameSnapshot
    <3> QED
      BY <3>3, <3>4
  <2> QED
    BY <2>1, <2>2
<1>10. Grows(node[n], sent) \/ sent.role = "FOLLOWER"
  <2>1. CASE sent.role = "FOLLOWER"
    BY <2>1
  <2>2. CASE sent.role # "FOLLOWER"
    <3>1. Grows(s, t) /\ t.role = s.role
      BY <1>2, <1>5, <2>2, Zenon DEF Dumped, Stays
    <3>2. Grows(node[n], s)
      BY <1>5, <2>2, <3>1, Zenon DEF Acted
    <3>3. Grows(t, sent)
      BY <1>1, <1>5, SameLogGrows
    <3>4. Grows(s, sent)
      BY <1>1, <1>4, <3>1, <3>3, GrowsTransitive
    <3> QED
      BY <1>1, <1>4, <3>2, <3>4, GrowsTransitive
  <2> QED
    BY <2>1, <2>2
<1>11. ASSUME LogsSurvive, NEW m \in net' PROVE Ordered(m)
  <2>1. m \in net \/ m \in t.outbox
    BY <1>3, <1>11 DEF Deliver, Accepted
  <2> QED
    BY <1>8, <1>11, <2>1, Zenon DEF Sound, LogInv
<1>12. /\ node'[n] = sent /\ disk'[n] = saved
       /\ \A p \in Server \ {n} : node'[p] = node[p] /\ disk'[p] = disk[p]
  BY <1>3, Zenon DEF TypeOK
<1> QED
  BY <1>9, <1>10, <1>11, <1>12, NodeStep, Zenon

\* The dump that ends or follows a row of the table.
LEMMA DumpStep ==
    ASSUME TypeOK, LogInv, NEW n \in Server, NEW s \in Node, Acted(node[n], s),
           NEW r, Dump(n, s, r)
    PROVE  LogInv' /\ LeadersGrow
<1> DEFINE t == Advanced(s)
           received == tick.received \cup r
<1>1. t \in Node /\ node[n] \in Node
  BY AdvancedType, Zenon DEF TypeOK
<1>2. Acted(node[n], t)
  <2>1. Handled(s, t)
    BY AdvancedHandled
  <2> HIDE DEF t
  <2> QED
    BY <1>1, <2>1, ActedTransitive
<1>3. \/ /\ node' = [node EXCEPT ![n] = t]
         /\ UNCHANGED <<disk, net, crashes, calls>>
      \/ FinishDump(n, t, received)
  BY Zenon DEF Dump
<1> HIDE DEF t, received
<1>4. CASE FinishDump(n, t, received)
  BY <1>1, <1>2, <1>4, FinishDumpStep
<1>5. CASE /\ node' = [node EXCEPT ![n] = t]
           /\ UNCHANGED <<disk, net, crashes, calls>>
  BY <1>1, <1>2, <1>5, MemoryStep, Zenon DEF Acted
<1> QED
  BY <1>3, <1>4, <1>5

\* Every row of RAFT_TRANSITIONS, with the dump after it.
LEMMA TransitionStep ==
    ASSUME TypeOK, LogInv, NEW n \in Server, NEW s \in Node, Handled(node[n], s),
           NEW r \in SUBSET net, Transition(n, s, r)
    PROVE  LogInv' /\ LeadersGrow
<1>0. /\ node[n] \in Node
      /\ \A m \in r : m \in Message /\ (LogsSurvive => Ordered(m))
  BY DEF TypeOK, LogInv
<1>a. ASSUME NEW t \in Node, Acted(s, t), Dump(n, t, r)
      PROVE  LogInv' /\ LeadersGrow
  <2>1. Acted(node[n], t)
    BY <1>0, <1>a, ActedTransitive
  <2> QED
    BY <1>a, <2>1, DumpStep
<1>b. ASSUME NEW t \in Node, Handled(s, t), Dump(n, t, r)
      PROVE  LogInv' /\ LeadersGrow
  BY <1>a, <1>b, Zenon DEF Handled, Stays, Acted
<1>c. ASSUME NEW t \in Node, Preserves(s, t), SameSnapshot(s, t),
             Dump(n, [t EXCEPT !.role = "FOLLOWER"], r)
      PROVE  LogInv' /\ LeadersGrow
  <2> DEFINE f == [t EXCEPT !.role = "FOLLOWER"]
  <2>1. f \in Node
    BY Zenon DEF Node, Role
  <2>2. Quiet(t, f) /\ f.role = "FOLLOWER"
    BY NodeFields DEF Quiet, SameSnapshot, Node
  <2> HIDE DEF f
  <2>3. Preserves(t, f) /\ SameSnapshot(t, f)
    BY <2>1, <2>2, QuietPreserves
  <2>4. Preserves(s, f)
    BY <1>c, <2>1, <2>3, PreservesTransitive
  <2>5. Acted(s, f)
    BY <1>c, <2>2, <2>3, <2>4, Zenon DEF Acted, SameSnapshot
  <2> QED
    BY <1>a, <1>c, <2>1, <2>5, Zenon DEF f
<1>1. CASE BecomeCandidate(n, s, r)
  BY <1>1, <1>a, BecomeCandidateType, BecomeCandidateActed, Zenon DEF BecomeCandidate
<1>2. CASE BackToFollower(n, s, r)
  BY <1>2, <1>b, BackToFollowerType, BackToFollowerHandled, Zenon DEF BackToFollower
<1>3. CASE BecomeLeader(n, s, r)
  BY <1>3, <1>a, BecomeLeaderType, BecomeLeaderActed, Zenon DEF BecomeLeader
<1>4. CASE HandleAppendEntries(n, s, r)
  <2>1. PICK m \in Pending(r, "APPEND_ENTRIES") :
          Dump(n, [node_handle_append_entries(s, m) EXCEPT !.role = "FOLLOWER"], r)
    BY <1>4, Zenon DEF HandleAppendEntries
  <2>2. m \in Message /\ (LogsSurvive => Ordered(m))
    BY <1>0, <2>1, Zenon DEF Pending
  <2>3. /\ node_handle_append_entries(s, m) \in Node
        /\ Preserves(s, node_handle_append_entries(s, m))
        /\ SameSnapshot(s, node_handle_append_entries(s, m))
    BY <2>2, AppendEntriesType, AppendEntriesPreserves
  <2> QED
    BY <1>c, <2>1, <2>3, Zenon
<1>5. CASE HandleHigherVoteRequest(n, s, r)
  <2>1. PICK m \in Pending(r, "REQUEST_VOTE") :
          Dump(n, [node_handle_vote_request(s, m) EXCEPT !.role = "FOLLOWER"], r)
    BY <1>5, Zenon DEF HandleHigherVoteRequest
  <2>2. m \in Message
    BY <1>0, <2>1, Zenon DEF Pending
  <2>3. /\ node_handle_vote_request(s, m) \in Node
        /\ Handled(s, node_handle_vote_request(s, m))
    BY <2>2, VoteRequestType, VoteRequestHandled
  <2> QED
    BY <1>c, <2>1, <2>3, Zenon DEF Handled
<1>6. CASE HandleVoteRequest(n, s, r)
  <2>1. PICK m \in Pending(r, "REQUEST_VOTE") :
          Dump(n, IF s.role = "LEADER" THEN s ELSE node_handle_vote_request(s, m), r)
    BY <1>6, Zenon DEF HandleVoteRequest
  <2>2. m \in Message
    BY <1>0, <2>1, Zenon DEF Pending
  <2>3. CASE s.role = "LEADER"
    BY <1>b, <2>1, <2>3, HandledReflexive, Zenon
  <2>4. CASE s.role # "LEADER"
    BY <1>b, <2>1, <2>2, <2>4, VoteRequestType, VoteRequestHandled, Zenon
  <2> QED
    BY <2>3, <2>4
<1>7. CASE HandleVote(n, s, r)
  <2>1. PICK m \in Pending(r, "REQUEST_VOTE_RESPONSE") :
          Dump(n, IF s.role = "CANDIDATE" THEN node_handle_vote_response(s, m) ELSE s, r)
    BY <1>7, Zenon DEF HandleVote
  <2>2. m \in Message
    BY <1>0, <2>1, Zenon DEF Pending
  <2>3. CASE s.role = "CANDIDATE"
    BY <1>b, <2>1, <2>2, <2>3, VoteResponseType, VoteResponseHandled, Zenon
  <2>4. CASE s.role # "CANDIDATE"
    BY <1>b, <2>1, <2>4, HandledReflexive, Zenon
  <2> QED
    BY <2>3, <2>4
<1>8. CASE SendHeartbeat(n, s, r)
  BY <1>8, <1>b, BroadcastType, BroadcastHandled, Zenon DEF SendHeartbeat
<1>9. CASE NoTransition(n, s, r)
  BY <1>9, <1>b, HandledReflexive, Zenon DEF NoTransition
<1> QED
  BY <1>1, <1>2, <1>3, <1>4, <1>5, <1>6, <1>7, <1>8, <1>9, Zenon DEF Transition

\* Every step of a node's tick.
LEMMA TickStep ==
    ASSUME TypeOK, LogInv, NEW n \in Server, Tick(n)
    PROVE  LogInv' /\ LeadersGrow
<1>0. node[n] \in Node /\ net \in SUBSET Message
  BY DEF TypeOK
<1>a. ASSUME NEW t \in Node, Handled(node[n], t),
             node' = [node EXCEPT ![n] = t], UNCHANGED <<disk, net>>
      PROVE  LogInv' /\ LeadersGrow
  BY <1>a, MemoryStep, Zenon DEF Handled, Stays
<1>1. CASE LatchResponse(n)
  <2>1. PICK m \in Inbox(n) :
          node' = [node EXCEPT ![n] = node_handle_append_entries_response(@, m)]
    BY <1>1, Zenon DEF LatchResponse
  <2> DEFINE s == node_handle_append_entries_response(node[n], m)
  <2>2. m \in Message
    BY <1>0, <2>1, Zenon DEF Inbox
  <2>3. s \in Node /\ Handled(node[n], s)
    BY <1>0, <2>2, AppendEntriesResponseType, AppendEntriesResponseHandled
  <2>4. node' = [node EXCEPT ![n] = s] /\ UNCHANGED <<disk, net>>
    BY <1>1, <2>1, Zenon DEF LatchResponse, TypeOK
  <2> HIDE DEF s
  <2> QED
    BY <1>a, <2>3, <2>4
<1>2. CASE LatchAndRow(n)
  <2>1. PICK r \in Batches(n), commands \in Submitted(n) :
          Transition(n, Latched(node[n], r, commands), r)
    BY <1>2, Zenon DEF LatchAndRow
  <2>2. r \in SUBSET net
    <3>1. r \in SUBSET Inbox(n)
      BY <2>1, Zenon DEF Batches
    <3> QED
      BY <3>1, Zenon DEF Inbox
  <2>3. commands # << >> => commands \in Seq(Command)
    <3>1. commands = << >> \/ \E c \in ClientCommands : commands = <<c>>
      BY <2>1, Zenon DEF Submitted
    <3>2. ClientCommands \subseteq Command
      BY BoundAssumption, Zenon
    <3>3. ASSUME NEW c \in Command PROVE <<c>> \in Seq(Command)
      OBVIOUS
    <3> QED
      BY <3>1, <3>2, <3>3, Zenon
  <2>4. r \in SUBSET Message
    BY <1>0, <2>2
  <2>5. /\ Latched(node[n], r, commands) \in Node
        /\ Handled(node[n], Latched(node[n], r, commands))
    BY <1>0, <2>3, <2>4, LatchedType, LatchedHandled, Zenon
  <2> QED
    BY <2>1, <2>2, <2>5, TransitionStep, Zenon
<1>3. CASE ApplyEntry(n)
  <2>1. node' = [node EXCEPT ![n] = ApplyNext(node[n])] /\ UNCHANGED <<disk, net>>
    BY <1>3, Zenon DEF ApplyEntry, TypeOK
  <2>2. ApplyNext(node[n]) \in Node /\ Handled(node[n], ApplyNext(node[n]))
    BY <1>0, ApplyNextType, ApplyNextHandled
  <2> QED
    BY <1>a, <2>1, <2>2, Zenon
<1>4. CASE FinishTick(n)
  <2>1. FinishDump(n, node[n], tick.received)
    BY <1>4, Zenon DEF FinishTick
  <2>2. Acted(node[n], node[n])
    BY <1>0, HandledReflexive, Zenon DEF Handled, Stays, Acted
  <2> QED
    BY <1>0, <2>1, <2>2, FinishDumpStep
<1> QED
  BY <1>1, <1>2, <1>3, <1>4, Zenon DEF Tick

\* A crash anywhere in a tick, whichever files had been written.
LEMMA FailStep ==
    ASSUME TypeOK, LogInv, NEW n \in Server, Fail(n)
    PROVE  LogInv' /\ LeadersGrow
<1> DEFINE s == node[n]
           t == Compacted(s)
           d == DiskAfterCompaction(disk[n], s, t)
           m == [d EXCEPT !.meta = write_meta(t)]
           f == raft_storage_node_save(d, t)
<1>1. s \in Node /\ disk[n] \in Disk /\ t \in Node /\ Process(n, s, disk[n])
  BY CompactedType DEF TypeOK, LogInv
<1>2. Dumped(s, t)
  BY <1>1, CompactedDumped
<1>3. \E e \in {disk[n], d, m, f} : Reboot(n, e)
  BY Zenon DEF Fail, Crash, CrashAfterSnapshot, CrashAfterMeta, CrashAfterSave
<1> HIDE DEF t
<1>4. /\ d \in Disk /\ d.meta = disk[n].meta /\ d.log = disk[n].log
      /\ m \in Disk /\ m.meta = write_meta(t) /\ m.log = disk[n].log
      /\ f \in Disk /\ f.meta = write_meta(t) /\ f.log = write_log(t)
  BY <1>1, DumpedFiles
<1> HIDE DEF d, m, f, s
<1>5. PICK e \in {disk[n], d, m, f} : Reboot(n, e)
  BY <1>3
<1>6. /\ e \in Disk
      /\ \/ e.meta = disk[n].meta /\ e.log = disk[n].log
         \/ e.meta = write_meta(t) /\ e.log \in {disk[n].log, write_log(t)}
  BY <1>1, <1>4, <1>5, Zenon
<1>7. /\ node' = [node EXCEPT ![n] = raft_node_init(n, e)] /\ disk' = [disk EXCEPT ![n] = e]
      /\ Deliver(tick.received, {})
  BY <1>5, Zenon DEF Reboot
<1>8. MaxCrashes # 0 /\ (LogsSurvive => n \notin Learners)
  <2>1. crashes < MaxCrashes
    BY <1>5, Zenon DEF Reboot
  <2>2. MaxCrashes # 0
    BY <2>1, BoundAssumption DEF TypeOK
  <2> QED
    BY <2>2 DEF LogsSurvive
<1>9. /\ write_meta(t).snapshot_last_included_index = t.snapshot_last_included_index
      /\ write_meta(t).compaction_threshold = t.compaction_threshold
      /\ write_meta(t).config_state = t.config_state
  BY DEF write_meta
<1>10. ASSUME LogsSurvive PROVE LogBase(e, e.meta.snapshot_last_included_index)
  <2>1. FilesInPlace(s, disk[n]) /\ Sound(t)
    BY <1>1, <1>2, <1>10, Zenon DEF Process, Dumped, Preserves
  <2>2. CASE e.meta = disk[n].meta /\ e.log = disk[n].log
    BY <2>1, <2>2, Zenon DEF FilesInPlace, LogBase
  <2>3. CASE e.meta = write_meta(t) /\ e.log = disk[n].log
    <3>1. LogBase(disk[n], t.snapshot_last_included_index)
      <4>1. LogBase(disk[n], s.snapshot_last_included_index)
        BY <2>1 DEF FilesInPlace
      <4>2. s.snapshot_last_included_index <= t.snapshot_last_included_index
        BY <1>2 DEF Dumped, Preserves
      <4>3. s.snapshot_last_included_index \in Nat /\ t.snapshot_last_included_index \in Nat
        BY <1>1, NodeFields
      <4> QED
        BY <4>1, <4>2, <4>3, LogBaseMonotone
    <3> QED
      BY <1>9, <2>3, <3>1, Zenon DEF LogBase
  <2>4. CASE e.meta = write_meta(t) /\ e.log = write_log(t)
    <3>1. Consecutive(e.log, t.snapshot_last_included_index)
      BY <1>1, <1>6, <2>1, <2>4, SavedLog DEF Sound
    <3>2. t.snapshot_last_included_index \in 0..t.snapshot_last_included_index
      BY <1>1, NodeFields
    <3> QED
      BY <1>9, <2>4, <3>1, <3>2, Zenon DEF LogBase
  <2> QED
    BY <1>6, <2>2, <2>3, <2>4, Zenon
<1>11. ASSUME LogsSurvive, MembersKnown, n \notin Learners PROVE FilesConfigured(e)
  <2>1. FilesConfigured(disk[n]) /\ Configured(t)
    BY <1>1, <1>2, <1>11, Zenon DEF Process, Dumped, Preserves
  <2>2. CASE e.meta = disk[n].meta /\ e.log = disk[n].log
    BY <2>1, <2>2, Zenon DEF FilesConfigured
  <2>3. CASE e.meta = write_meta(t)
    BY <1>9, <2>1, <2>3, Zenon DEF FilesConfigured, Configured
  <2> QED
    BY <1>6, <2>2, <2>3, Zenon
<1>12. Process(n, raft_node_init(n, e), e) /\ raft_node_init(n, e).role = "FOLLOWER"
  BY <1>6, <1>8, <1>10, <1>11, BootProcess
<1>13. /\ node'[n] = raft_node_init(n, e) /\ disk'[n] = e
       /\ \A p \in Server \ {n} : node'[p] = node[p] /\ disk'[p] = disk[p]
  BY <1>7, Zenon DEF TypeOK
<1>14. LogsSurvive => \A q \in net' : Ordered(q)
  <2>1. net' \subseteq net
    BY <1>7 DEF Deliver, Accepted
  <2> QED
    BY <2>1, Zenon DEF LogInv
<1> QED
  BY <1>12, <1>13, <1>14, NodeStep, Zenon

\* raft_node_start.
LEMMA StartStep ==
    ASSUME TypeOK, LogInv, NEW n \in Server, Start(n)
    PROVE  LogInv' /\ LeadersGrow
<1> DEFINE s == node[n]
           d == disk[n]
           t == raft_node_start(s, d)
<1>1. /\ s \in Node /\ d \in Disk /\ Process(n, s, d)
  BY DEF TypeOK, LogInv
<1>2. t \in Node
  BY <1>1, StartType
<1>3. node' = [node EXCEPT ![n] = t] /\ UNCHANGED <<disk, net>>
  BY Zenon DEF Start, TypeOK
<1>4. s.id = n
  BY <1>1, Zenon DEF Process
<1>5. /\ t.outbox = s.outbox /\ t.role = "FOLLOWER" /\ Loads(n, t, d)
      /\ ~s.learner => LoadsConfiguration(n, t, d)
  BY <1>1, <1>4, StartLoads
<1> HIDE DEF t, s, d
<1>6. LogsSurvive => Sound(t) /\ FilesInPlace(t, d)
  <2>1. SUFFICES ASSUME LogsSurvive PROVE Sound(t) /\ FilesInPlace(t, d)
    OBVIOUS
  <2>2. /\ LogBase(d, d.meta.snapshot_last_included_index)
        /\ \A m \in t.outbox : Ordered(m)
    BY <1>1, <1>5, <2>1, Zenon DEF Process, FilesInPlace, Sound
  <2> QED
    BY <1>1, <1>2, <1>5, <2>2, LoadsSound
<1>7. ASSUME LogsSurvive, MembersKnown, n \notin Learners
      PROVE  Configured(t) /\ FilesConfigured(d) /\ Restarts(n, t, d)
  <2>1. FilesConfigured(d) /\ LoadsConfiguration(n, t, d)
    BY <1>1, <1>5, <1>7, Zenon DEF Process, Configured
  <2>2. Configured(t)
    BY <1>1, <1>2, <1>7, <2>1, LoadsConfigured
  <2>3. Loads(n, raft_node_init(n, d), d) /\ LoadsConfiguration(n, raft_node_init(n, d), d)
    BY <1>1, <1>7, BootLoads
  <2>4. PersistentState(raft_node_init(n, d)) = PersistentState(t)
    BY <1>5, <2>1, <2>3, LoadsSame DEF FilesConfigured
  <2> QED
    BY <2>1, <2>2, <2>4 DEF Restarts
<1>8. ASSUME MaxCrashes = 0 PROVE AppliedSnapshot(t) /\ SnapshotSaved(t, d)
  <2>1. SnapshotSaved(s, d)
    BY <1>1, <1>8, Zenon DEF Process
  <2>2. SnapshotSaved(t, d)
    BY <1>5, <2>1, Zenon DEF Loads, SnapshotSaved, SameSnapshot
  <2>3. /\ t.last_applied = IF SnapshotMatches(d) THEN d.meta.snapshot_last_included_index ELSE 0
        /\ t.snapshot_last_included_index = d.meta.snapshot_last_included_index
    BY <1>5, Zenon DEF Loads, SameSnapshot
  <2>4. d.meta.snapshot_last_included_index \in Nat
    BY <1>1, DiskFields
  <2>5. AppliedSnapshot(t)
    BY <2>2, <2>3, <2>4 DEF AppliedSnapshot, SnapshotSaved
  <2> QED
    BY <2>2, <2>5
<1>9. t.id = n
  BY <1>5, Zenon DEF Loads
<1>10. Process(n, t, d)
  BY <1>6, <1>7, <1>8, <1>9, Zenon DEF Process
<1>11. /\ node'[n] = t /\ disk'[n] = d
       /\ \A p \in Server \ {n} : node'[p] = node[p] /\ disk'[p] = disk[p]
  BY <1>3, Zenon DEF TypeOK, d
<1>12. LogsSurvive => \A m \in net' : Ordered(m)
  BY <1>3, Zenon DEF LogInv
<1> QED
  BY <1>5, <1>10, <1>11, <1>12, NodeStep, Zenon

\* raft_node_reset_for_join, with the save its callers do.
LEMMA ResetStep ==
    ASSUME TypeOK, LogInv, NEW n \in Server, ResetForJoin(n)
    PROVE  LogInv' /\ LeadersGrow
<1> DEFINE r == raft_node_reset_for_join(node[n])
           t == [r EXCEPT !.app = << >>]
           f == raft_storage_node_save(disk[n], r)
<1>1. node[n] \in Node /\ disk[n] \in Disk /\ node[n].id = n
  BY DEF TypeOK, LogInv, Process
<1>2. r \in Node /\ f \in Disk
  <2>1. r \in Node
    BY <1>1, ResetType
  <2> HIDE DEF r
  <2> QED
    BY <1>1, <2>1, SaveType
<1>3. /\ n \in Rejoining /\ UNCHANGED net
      /\ node' = [node EXCEPT ![n] = t] /\ disk' = [disk EXCEPT ![n] = f]
  BY Zenon DEF ResetForJoin, TypeOK
<1>4. /\ r.id = n /\ r.log_count = 0 /\ r.outbox = {} /\ r.role = "FOLLOWER"
      /\ r.commit_index = 0 /\ r.last_applied = 0
      /\ r.snapshot_last_included_index = 0
  <2> DEFINE g == Forget(node[n])
  <2>1. /\ g \in Node /\ g.id = n /\ g.log_count = 0
        /\ g.commit_index = 0 /\ g.last_applied = 0 /\ g.snapshot_last_included_index = 0
    <3>1. g \in Node
      BY <1>1, ForgetType
    <3>2. /\ g.id = n /\ g.log_count = 0
          /\ g.commit_index = 0 /\ g.last_applied = 0 /\ g.snapshot_last_included_index = 0
      BY <1>1 DEF Forget, Node
    <3> QED
      BY <3>1, <3>2
  <2>2. r = [g EXCEPT !.log = [p \in 1..RAFT_MAX_LOG |-> ZeroEntry],
                      !.leader_id = Nil, !.votes_received = {}, !.outbox = {},
                      !.learner = TRUE, !.membership_state = "STABLE",
                      !.running = TRUE, !.role = "FOLLOWER", !.persist_dirty = FALSE]
    BY Zenon DEF raft_node_reset_for_join
  <2> HIDE DEF g, r
  <2> QED
    BY <2>1, <2>2 DEF Node
<1>5. f.meta = write_meta(r) /\ f.log = write_log(r)
  BY <1>1 DEF raft_storage_node_save, Disk
<1> HIDE DEF r, f
<1>6. /\ t \in Node /\ t.id = n /\ t.log_count = 0 /\ t.outbox = {} /\ t.role = "FOLLOWER"
      /\ t.commit_index = 0 /\ t.last_applied = 0 /\ t.snapshot_last_included_index = 0
      /\ t.current_term = r.current_term /\ t.voted_for = r.voted_for
      /\ t.log = r.log /\ t.config_state = r.config_state
      /\ t.compaction_threshold = r.compaction_threshold
      /\ t.snapshot_last_included_term = r.snapshot_last_included_term
  <2>1. t \in Node
    <3>1. << >> \in Seq(Command)
      OBVIOUS
    <3> QED
      BY <1>2, <3>1, Zenon DEF Node
  <2> QED
    BY <1>2, <1>4, <2>1 DEF Node
<1> HIDE DEF t
<1>7. write_meta(t) = write_meta(r) /\ write_log(t) = write_log(r)
  BY <1>4, <1>6, Zenon DEF write_meta, write_log
<1>8. Sound(t) /\ AppliedSnapshot(t)
  BY <1>6 DEF Sound, InPlace, node_last_log_index, AppliedSnapshot
<1>9. ~(MembersKnown /\ n \notin Learners)
  BY <1>3, Zenon DEF MembersKnown
<1>10. Process(n, t, f)
  BY <1>2, <1>5, <1>6, <1>7, <1>8, <1>9, SavedProcess
<1>11. /\ node'[n] = t /\ disk'[n] = f
       /\ \A p \in Server \ {n} : node'[p] = node[p] /\ disk'[p] = disk[p]
  BY <1>3, Zenon DEF TypeOK
<1>12. LogsSurvive => \A m \in net' : Ordered(m)
  BY <1>3, Zenon DEF LogInv
<1> QED
  BY <1>6, <1>10, <1>11, <1>12, NodeStep, Zenon

\* The application's calls.
LEMMA CallStep ==
    ASSUME TypeOK, LogInv, NEW n \in Server, Call(n)
    PROVE  LogInv' /\ LeadersGrow
<1>1. node[n] \in Node
  BY DEF TypeOK
<1>2. CASE Stop(n)
  <2> DEFINE t == raft_node_stop(node[n])
  <2>1. node' = [node EXCEPT ![n] = t] /\ UNCHANGED <<disk, net>>
    BY <1>2, Zenon DEF Stop, TypeOK
  <2>2. t \in Node
    BY <1>1, StopType
  <2>3. Quiet(node[n], t)
    BY <1>1, NodeFields DEF raft_node_stop, Quiet, SameSnapshot, Node
  <2> HIDE DEF t
  <2> QED
    BY <1>1, <2>1, <2>2, <2>3, QuietPreserves, MemoryStep, Zenon
<1>3. CASE RequestMembershipChange(n)
  <2>1. PICK members \in Memberships :
          node' = [node EXCEPT ![n].requested_membership = members,
                               ![n].requested_membership_pending = @ \/ members # {}]
    BY <1>3, Zenon DEF RequestMembershipChange
  <2> DEFINE t == [node[n] EXCEPT !.requested_membership = members,
                                  !.requested_membership_pending = @ \/ members # {}]
  <2>2. node' = [node EXCEPT ![n] = t]
    BY <2>1 DEF TypeOK
  <2>3. UNCHANGED <<disk, net>>
    BY <1>3, Zenon DEF RequestMembershipChange
  <2>4. t \in Node
    <3>1. TypeOK'
      BY CallType
    <3>2. node'[n] = t
      BY <2>2, Zenon DEF TypeOK
    <3> HIDE DEF t
    <3> QED
      BY <3>1, <3>2, Zenon DEF TypeOK
  <2>5. Quiet(node[n], t)
    BY <1>1, NodeFields DEF Quiet, SameSnapshot, Node
  <2> HIDE DEF t
  <2> QED
    BY <1>1, <2>2, <2>3, <2>4, <2>5, QuietPreserves, MemoryStep, Zenon
<1> QED
  BY <1>2, <1>3, StartStep, ResetStep, Zenon DEF Call

-----------------------------------------------------------------------------
(* The invariant and the theorems.                                         *)

\* LogInv holds when all nodes have booted from empty directories.
LEMMA LogInvInit ==
    ASSUME Init
    PROVE  LogInv
<1>1. EmptyDisk \in Disk /\ EmptyDisk.log = << >> /\ EmptyDisk.meta = NoMeta
  BY EmptyDiskType DEF EmptyDisk
<1>2. NoMeta.snapshot_last_included_index = 0 /\ NoMeta.compaction_threshold = RAFT_MAX_LOG
  BY DEF NoMeta
<1>3. LogBase(EmptyDisk, 0)
  BY <1>1 DEF LogBase, Consecutive
<1>4. FilesConfigured(EmptyDisk)
  BY <1>1, <1>2, LimitAssumption DEF FilesConfigured
<1>5. SameSnapshot(NoMeta, EmptyDisk.meta)
  BY <1>1, Zenon DEF SameSnapshot
<1>6. ASSUME NEW n \in Server PROVE Process(n, raft_node_init(n, EmptyDisk), EmptyDisk)
  BY <1>1, <1>2, <1>3, <1>4, <1>5, BootProcess
<1> QED
  BY <1>6 DEF Init, LogInv

\* Every step keeps LogInv, and leaders only grow.
LEMMA LogInvStep ==
    ASSUME TypeOK, LogInv, [Next]_vars
    PROVE  LogInv' /\ LeadersGrow
<1>1. ASSUME NEW n \in Server, Tick(n) \/ Fail(n) \/ Call(n) PROVE LogInv' /\ LeadersGrow
  BY <1>1, TickStep, FailStep, CallStep, Zenon
<1>2. CASE UNCHANGED vars
  <2>1. UNCHANGED <<node, disk, net>>
    BY <1>2, Zenon DEF vars
  <2>2. LogInv'
    BY <2>1, Zenon DEF LogInv
  <2>3. ASSUME NEW n \in Server PROVE Grows(node[n], node'[n])
    <3>1. node[n] \in Node /\ node'[n] = node[n]
      BY <2>1 DEF TypeOK
    <3> QED
      BY <3>1, SameLogGrows, Zenon DEF SameSnapshot
  <2> QED
    BY <2>2, <2>3, Zenon DEF LeadersGrow
<1>3. CASE QuietTicks
  BY <1>2, <1>3, Zenon DEF QuietTicks
<1> QED
  BY <1>1, <1>2, <1>3, Zenon DEF Next

\* Every entry sits at the slot its index names, in memory and as a restart would load it,
\* through truncation, compaction, restarts by call and, if no learner crashes, crashes
\* between the file writes: the arithmetic of node_physical_index is right.
THEOREM LogsStayContiguous ==
    ASSUME LogsSurvive
    PROVE  Spec => []LogIsContiguous
<1>1. Init => LogInv
  BY LogInvInit
<1>2. TypeOK /\ LogInv /\ [Next]_vars => LogInv'
  BY LogInvStep
<1>3. TypeOK /\ LogInv => LogIsContiguous
  <2> SUFFICES ASSUME TypeOK, LogInv, NEW n \in Server
               PROVE  InPlace(node[n]) /\ InPlace(raft_node_init(n, disk[n]))
    BY Zenon DEF LogIsContiguous, InPlace
  <2> DEFINE t == raft_node_init(n, disk[n])
  <2>1. disk[n] \in Disk /\ t \in Node /\ Process(n, node[n], disk[n])
    BY InitNodeType DEF TypeOK, LogInv
  <2>2. Sound(node[n]) /\ FilesInPlace(node[n], disk[n])
    BY <2>1, Zenon DEF Process
  <2>3. CASE n \in Learners
    <3>1. t.log_count = 0
      BY <2>1, <2>3, BootForgets
    <3> HIDE DEF t
    <3>2. InPlace(t)
      BY <3>1 DEF InPlace
    <3> QED
      BY <2>2, <3>2 DEF Sound, t
  <2>4. CASE n \notin Learners
    <3>1. t.outbox = {} /\ Loads(n, t, disk[n])
      BY <2>1, <2>4, BootLoads
    <3> HIDE DEF t
    <3>2. Sound(t)
      BY <2>1, <2>2, <3>1, LoadsSound DEF FilesInPlace
    <3> QED
      BY <2>2, <3>2 DEF Sound, t
  <2> QED
    BY <2>3, <2>4
<1> QED
  BY <1>1, <1>2, <1>3, TypeCorrect, PTL DEF Spec

\* A node that goes on leading keeps every entry of its log, in the log or in the snapshot:
\* none of the handlers a leader runs in a tick, and no compaction, overwrites or drops one.
THEOREM LeadersOnlyAppend ==
    ASSUME LogsSurvive
    PROVE  Spec => LeaderAppendOnly
<1>1. Init => LogInv
  BY LogInvInit
<1>2. TypeOK /\ LogInv /\ [Next]_vars => LogInv'
  BY LogInvStep
<1> DEFINE Kept == \A n \in Server :
             node[n].role = "LEADER" /\ node'[n].role = "LEADER" =>
                 \A p \in 1..node[n].log_count :
                     \/ node[n].log[p].index <= node'[n].snapshot_last_included_index
                     \/ \E q \in 1..node'[n].log_count : node'[n].log[q] = node[n].log[p]
<1>3. TypeOK /\ TypeOK' /\ LogInv /\ [Next]_vars => [Kept]_vars
  <2> SUFFICES ASSUME TypeOK, TypeOK', LogInv, [Next]_vars,
                      NEW n \in Server, node[n].role = "LEADER", node'[n].role = "LEADER",
                      NEW p \in 1..node[n].log_count
               PROVE  \/ node[n].log[p].index <= node'[n].snapshot_last_included_index
                      \/ \E q \in 1..node'[n].log_count : node'[n].log[q] = node[n].log[p]
    BY Zenon
  <2> DEFINE s == node[n]
             t == node'[n]
             q == s.snapshot_last_included_index + p - t.snapshot_last_included_index
  <2>1. /\ s \in Node /\ t \in Node /\ Grows(s, t) /\ InPlace(s)
    BY LogInvStep DEF TypeOK, LeadersGrow, LogInv, Process, Sound
  <2>2. /\ s.snapshot_last_included_index \in Nat /\ t.snapshot_last_included_index \in Nat
        /\ s.log_count \in Nat /\ t.log_count \in Nat
    BY <2>1, NodeFields, LimitAssumption
  <2>3. s.log[p].index = s.snapshot_last_included_index + p
    BY <2>1 DEF InPlace
  <2>4. q > 0 => q <= t.log_count /\ t.log[q] = s.log[p]
    BY <2>1 DEF Grows, Survives
  <2>5. CASE q > 0
    <3>1. q \in 1..t.log_count /\ t.log[q] = s.log[p]
      BY <2>2, <2>4, <2>5
    <3> HIDE DEF q
    <3> QED
      BY <3>1
  <2>6. CASE ~(q > 0)
    BY <2>2, <2>3, <2>6
  <2> QED
    BY <2>5, <2>6
<1>4. LeaderAppendOnly <=> [][Kept]_vars
  BY DEF LeaderAppendOnly
<1> HIDE DEF Kept
<1> QED
  BY <1>1, <1>2, <1>3, <1>4, TypeCorrect, PTL DEF Spec

\* A node that is not marked dirty loses nothing in a restart: every handler that changes
\* what raft_storage_node_save writes marks the node, and the load gives back what was saved.
THEOREM CleanNodesRestart ==
    ASSUME LogsSurvive, MembersKnown
    PROVE  Spec => []RestartLosesNothing
<1>1. Init => LogInv
  BY LogInvInit
<1>2. TypeOK /\ LogInv /\ [Next]_vars => LogInv'
  BY LogInvStep
<1>3. LogInv => RestartLosesNothing
  BY Zenon DEF LogInv, Process, Restarts, RestartLosesNothing
<1> QED
  BY <1>1, <1>2, <1>3, TypeCorrect, PTL DEF Spec

\* The entry that dump_outputs applies next is in the log array, as long as no node crashes:
\* the commit index is never past the log and the snapshot never past what was applied.
THEOREM AppliedEntriesAreInLog ==
    ASSUME MaxCrashes = 0
    PROVE  Spec => []NextToApplyIsInLog
<1>1. Init => LogInv
  BY LogInvInit
<1>2. TypeOK /\ LogInv /\ [Next]_vars => LogInv'
  BY LogInvStep
<1>3. TypeOK /\ LogInv => NextToApplyIsInLog
  <2> SUFFICES ASSUME TypeOK, LogInv, NEW n \in Server,
                      node[n].last_applied < node[n].commit_index
               PROVE  node_has_log_index(node[n], node[n].last_applied + 1)
    BY Zenon DEF NextToApplyIsInLog
  <2> DEFINE s == node[n]
  <2>1. s \in Node /\ Sound(s) /\ AppliedSnapshot(s)
    BY DEF TypeOK, LogInv, Process, LogsSurvive
  <2>2. /\ s.snapshot_last_included_index \in Nat /\ s.log_count \in Nat
        /\ s.last_applied \in Nat /\ s.commit_index \in Nat
    BY <2>1, NodeFields, LimitAssumption
  <2>3. /\ s.commit_index <= s.snapshot_last_included_index + s.log_count
        /\ s.snapshot_last_included_index <= s.last_applied
    BY <2>1 DEF Sound, AppliedSnapshot, node_last_log_index
  <2> QED
    BY <2>2, <2>3 DEF node_has_log_index, node_log_base_index, node_last_log_index
<1> QED
  BY <1>1, <1>2, <1>3, TypeCorrect, PTL DEF Spec
=============================================================================
