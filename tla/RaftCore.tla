------------------------------ MODULE RaftCore ------------------------------
(***************************************************************************)
(* The handlers of c/src/raft.c, each as the operator from the node before *)
(* it to the node after it.  Messages a handler queues are added to        *)
(* s.outbox, which is sent when the tick ends.  Deadlines are left out:    *)
(* whether a timer has expired is chosen freely at every tick              *)
(* (RaftCluster), so assignments to election_deadline_ms and               *)
(* heartbeat_deadline_ms have no counterpart.                              *)
(***************************************************************************)
EXTENDS RaftStorage, FiniteSetsExt

Node == [id : Server, learner : BOOLEAN, running : BOOLEAN, role : Role,
         current_term : Nat, voted_for : MaybeServer,
         log : [1..RAFT_MAX_LOG -> Entry], log_count : 0..RAFT_MAX_LOG,
         snapshot_last_included_index : Nat, snapshot_last_included_term : Nat,
         commit_index : Nat, last_applied : Nat, leader_id : MaybeServer,
         compaction_threshold : Nat,
         config_state : Configuration, membership_state : MembershipState,
         requested_membership : SUBSET Server, requested_membership_pending : BOOLEAN,
         joint_config_index : Nat \cup {-1}, final_config_index : Nat \cup {-1},
         votes_received : SUBSET MaybeServer,
         next_index : [1..RAFT_MAX_PEERS -> Nat], match_index : [1..RAFT_MAX_PEERS -> Nat],
         outbox : SUBSET Message, persist_dirty : BOOLEAN,
         snapshot_buf : Seq(Command), app : Seq(Command)]

\* The message that does not fit into the outbox of RAFT_MAX_QUEUE messages is one the
\* network loses (RaftCluster).
node_queue_message(s, m) == [s EXCEPT !.outbox = @ \cup {m}]

-----------------------------------------------------------------------------
(* Replication.                                                            *)

\* The message node_send_append_entries_to builds for peer p.
AppendEntriesFor(s, p) ==
    LET k    == node_peer_index(s, p)
        last == node_last_log_index(s)
        want == IF k \in 1..RAFT_MAX_PEERS THEN s.next_index[k] ELSE last + 1
        next == Larger(want, node_log_base_index(s))
        n    == IF next > last THEN 0 ELSE Smaller(last + 1 - next, RAFT_MAX_BATCH)
    IN  [ZeroMessage EXCEPT
            !.kind = "APPEND_ENTRIES", !.term = s.current_term,
            !.source = s.id, !.target = p,
            !.prev_log_index = next - 1,
            !.prev_log_term = node_term_at_index(s, next - 1),
            !.prev_log_leader_id = node_leader_at_index(s, next - 1),
            !.leader_commit = s.commit_index,
            !.entries = [j \in 1..n |-> LogEntryAt(s, next + j - 1)]]

node_send_append_entries_to(s, p) == node_queue_message(s, AppendEntriesFor(s, p))

node_broadcast_append_entries(s) ==
    [s EXCEPT !.outbox = @ \cup {AppendEntriesFor(s, p) : p \in Peers(s)}]

node_candidate_is_up_to_date(s, m) ==
    IF m.last_log_term # node_last_log_term(s)
    THEN m.last_log_term > node_last_log_term(s)
    ELSE m.last_log_index >= node_last_log_index(s)

\* The leader's view of who holds index i: itself by its own log, a peer by match_index.
Holds(s, p, i) ==
    IF p = s.id THEN node_last_log_index(s) >= i
    ELSE LET k == node_peer_index(s, p)
         IN  k \in 1..RAFT_MAX_PEERS /\ s.match_index[k] >= i

node_replicated_on_members(s, i, members) ==
    Cardinality({p \in members : Holds(s, p, i)}) >= member_majority(members)

node_is_committed_under_current_configuration(s, i) ==
    /\ node_replicated_on_members(s, i, s.config_state.old)
    /\ configuration_is_joint(s.config_state)
           => node_replicated_on_members(s, i, s.config_state.new)

\* Mutant: the members have to be ahead of the leader.
CaughtUpOneTooFar(s) ==
    /\ configuration_is_joint(s.config_state)
    /\ \A p \in s.config_state.new \ {s.id} : Holds(s, p, node_last_log_index(s) + 1)

node_joint_members_are_caught_up(s) ==
    /\ configuration_is_joint(s.config_state)
    /\ \A p \in s.config_state.new \ {s.id} : Holds(s, p, node_last_log_index(s))

node_advance_commit_index(s) ==
    LET ready == {i \in (s.commit_index + 1)..node_last_log_index(s) :
                     /\ node_term_at_index(s, i) = s.current_term
                     /\ node_is_committed_under_current_configuration(s, i)}
    IN  IF ready = {} THEN s
        ELSE [s EXCEPT !.commit_index = Max(ready), !.persist_dirty = TRUE]

\* A new last entry with this command: latch_inputs for a client command,
\* node_append_internal_command for a membership entry.  Both then broadcast.
Appended(s, command) ==
    [s EXCEPT !.log[s.log_count + 1] = [index |-> node_last_log_index(s) + 1,
                                        term |-> s.current_term,
                                        leader_id |-> s.id, command |-> command],
              !.log_count = @ + 1,
              !.persist_dirty = TRUE]

AppendAndBroadcast(s, command) == node_broadcast_append_entries(Appended(s, command))

-----------------------------------------------------------------------------
(* Message handling.                                                       *)

node_handle_term_update(s, m) ==
    IF m.term > s.current_term
    THEN [s EXCEPT !.current_term = m.term, !.voted_for = Nil, !.leader_id = Nil,
                   !.persist_dirty = TRUE]
    ELSE s

\* Mutant: votes again in a term it has voted in.
GrantsVoteAgain(s, m) ==
    /\ node_self_is_member(s) /\ m.term = s.current_term
    /\ node_candidate_is_up_to_date(s, m)

\* What the voter decides once its term is up to date.
GrantsVote(s, m) ==
    /\ node_self_is_member(s) /\ m.term = s.current_term
    /\ s.voted_for \in {Nil, m.source}
    /\ node_candidate_is_up_to_date(s, m)

node_handle_vote_request(s, m) ==
    LET t == node_handle_term_update(s, m)
        v == IF GrantsVote(t, m)
             THEN [t EXCEPT !.voted_for = m.source, !.persist_dirty = TRUE]
             ELSE t
    IN  node_queue_message(v,
            [ZeroMessage EXCEPT !.kind = "REQUEST_VOTE_RESPONSE", !.term = t.current_term,
                                !.granted = GrantsVote(t, m),
                                !.source = s.id, !.target = m.source])

\* The consistency check at prev_log_index.
PrevMatches(s, m) ==
    LET prev == m.prev_log_index
    IN  /\ prev >= s.snapshot_last_included_index
        /\ prev <= node_last_log_index(s)
        /\ prev > 0 =>
             /\ node_term_at_index(s, prev) = m.prev_log_term
             /\ (m.prev_log_leader_id # Nil /\ node_has_log_index(s, prev))
                    => node_leader_at_index(s, prev) = m.prev_log_leader_id

\* Mutant: an entry of the same term by another leader is taken for the same entry.
CreatorIgnored(s, m, k) ==
    LET i == m.prev_log_index + k
    IN  node_has_log_index(s, i) /\ node_term_at_index(s, i) # m.entries[k].term

\* Entry k of the message conflicts with the entry the node has at that index.
Conflicts(s, m, k) ==
    LET i == m.prev_log_index + k
        e == m.entries[k]
    IN  /\ node_has_log_index(s, i)
        /\ \/ node_term_at_index(s, i) # e.term
           \/ e.leader_id # Nil /\ node_leader_at_index(s, i) # e.leader_id

(***************************************************************************)
(* The loop over message.entries, in closed form.  Entry k has index       *)
(* prev_log_index + k, prev_log_index is neither below the snapshot nor    *)
(* past the end of the log, so: from the first conflict on, everything is  *)
(* replaced; past the end of the log, everything is appended; RAFT_MAX_LOG *)
(* entries fit.  RaftAppendLoop has the loop itself.                       *)
(***************************************************************************)
MergedLog(s, m) ==
    LET n == Len(m.entries)
        Written(k) == \/ ~node_has_log_index(s, m.prev_log_index + k)
                      \/ \E j \in 1..k : Conflicts(s, m, j)
    IN  [p \in 1..RAFT_MAX_LOG |->
            LET k == s.snapshot_last_included_index + p - m.prev_log_index
            IN  IF k \in 1..n /\ Written(k) THEN m.entries[k] ELSE s.log[p]]

LogChanges(s, m) ==
    \/ \E k \in 1..Len(m.entries) : Conflicts(s, m, k)
    \/ /\ m.prev_log_index + Len(m.entries) > node_last_log_index(s)
       /\ s.log_count < RAFT_MAX_LOG

MergedCount(s, m) ==
    IF LogChanges(s, m)
    THEN Smaller(RAFT_MAX_LOG, m.prev_log_index + Len(m.entries) - s.snapshot_last_included_index)
    ELSE s.log_count

\* Mutant: appended entries are not marked for saving.
MergeNotPersisted(s, m) ==
    [s EXCEPT !.log = MergedLog(s, m), !.log_count = MergedCount(s, m)]

MergeEntries(s, m) ==
    [s EXCEPT !.log = MergedLog(s, m),
              !.log_count = MergedCount(s, m),
              !.persist_dirty = @ \/ LogChanges(s, m)]

\* Mutant: the application is not rebuilt.
NeverRebuilds(s, m) == FALSE

\* rebuild_applied_state: an entry that had been applied was replaced.
ReplacesApplied(s, m) ==
    \E k \in 1..Len(m.entries) :
        Conflicts(s, m, k) /\ m.prev_log_index + k <= s.last_applied

\* Mutant: the application is rebuilt but last_applied stays.
RebuildKeepsLastApplied(s, m, rebuild) ==
    LET commit == Smaller(m.leader_commit, node_last_log_index(s))
    IN  IF rebuild THEN [s EXCEPT !.commit_index = commit, !.app = << >>]
        ELSE [s EXCEPT !.commit_index = Larger(@, commit), !.persist_dirty = TRUE]

\* What follows the loop in node_append_entries_from_leader.
UpdateCommit(s, m, rebuild) ==
    LET last == node_last_log_index(s)
        restored == IF s.snapshot_last_included_index > 0 THEN s.snapshot_buf ELSE << >>
    IN  IF rebuild
        THEN [s EXCEPT !.commit_index = Smaller(m.leader_commit, last),
                       !.app = restored,
                       !.last_applied = s.snapshot_last_included_index,
                       !.persist_dirty = TRUE]
        ELSE IF m.leader_commit > s.commit_index
        THEN [s EXCEPT !.commit_index = Smaller(m.leader_commit, last), !.persist_dirty = TRUE]
        ELSE IF s.commit_index > last
        THEN [s EXCEPT !.commit_index = last, !.persist_dirty = TRUE]
        ELSE s

node_append_entries_from_leader(s, m) ==
    UpdateCommit(MergeEntries(s, m), m, ReplacesApplied(s, m))

node_handle_append_entries(s, m) ==
    LET t  == node_handle_term_update(s, m)
        l  == [t EXCEPT !.leader_id = m.source]
        ok == m.term = t.current_term /\ PrevMatches(l, m)
        u  == IF m.term # t.current_term THEN t
              ELSE IF ok THEN node_append_entries_from_leader(l, m) ELSE l
    IN  node_queue_message(u,
            [ZeroMessage EXCEPT !.kind = "APPEND_ENTRIES_RESPONSE", !.term = u.current_term,
                                !.success = ok, !.match_index = node_last_log_index(u),
                                !.source = s.id, !.target = m.source])

node_handle_vote_response(s, m) ==
    LET t == node_handle_term_update(s, m)
    IN  IF /\ node_self_is_member(t) /\ t.role = "CANDIDATE"
           /\ m.term = t.current_term /\ m.granted
        THEN [t EXCEPT !.votes_received = @ \cup {m.source}]
        ELSE t

\* Mutant: next_index stays after an acknowledgement.
AcknowledgedKeepsNext(s, k, i) == [s EXCEPT !.match_index[k] = i]

\* The two answers of the peer at position k.
Acknowledged(s, k, i) == [s EXCEPT !.match_index[k] = i, !.next_index[k] = i + 1]

BackedOff(s, k) ==
    [s EXCEPT !.next_index[k] = IF @ > node_log_base_index(s) THEN @ - 1 ELSE @]

node_handle_append_entries_response(s, m) ==
    LET t == node_handle_term_update(s, m)
        k == node_peer_index(t, m.source)
    IN  IF t.role # "LEADER" \/ m.term # t.current_term \/ k \notin 1..RAFT_MAX_PEERS THEN t
        ELSE IF m.success THEN node_advance_commit_index(Acknowledged(t, k, m.match_index))
        ELSE node_send_append_entries_to(BackedOff(t, k), m.source)
=============================================================================
