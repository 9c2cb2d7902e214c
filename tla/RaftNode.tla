------------------------------ MODULE RaftNode ------------------------------
(***************************************************************************)
(* The rest of c/src/raft.c that works on one node: applying committed     *)
(* entries, compaction, the joint-consensus driver, the actions of the     *)
(* RAFT_TRANSITIONS table, and boot, start, stop and reset.                *)
(*                                                                         *)
(* The application is the sequence of commands it has applied: every       *)
(* deterministic application is a function of it, and the counter example  *)
(* of the repository can tell a command applied twice.                     *)
(***************************************************************************)
EXTENDS RaftCore

-----------------------------------------------------------------------------
(* Applying one committed entry (the body of the loop in dump_outputs).    *)

ApplySetMaxlog(s, c) ==
    IF c.value > 0 THEN [s EXCEPT !.compaction_threshold = c.value] ELSE s

\* Mutants: a follower does not learn which members were requested; the requested members
\* are added to the old ones.
EnterJointForgetsRequest(s, c) ==
    IF s.last_applied <= s.config_state.index \/ c.members = {} THEN s
    ELSE [s EXCEPT !.config_state = [old |-> @.old, new |-> c.members, index |-> s.last_applied],
                   !.membership_state = "JOINT",
                   !.joint_config_index = s.last_applied]

EnterJointAddsMembers(s, c) ==
    IF s.last_applied <= s.config_state.index \/ c.members = {} THEN s
    ELSE [s EXCEPT !.config_state = [old |-> @.old, new |-> @.old \cup c.members,
                                     index |-> s.last_applied],
                   !.membership_state = "JOINT",
                   !.joint_config_index = s.last_applied,
                   !.requested_membership = c.members,
                   !.requested_membership_pending = TRUE]

ApplyEnterJoint(s, c) ==
    IF s.last_applied <= s.config_state.index \/ c.members = {} THEN s
    ELSE [s EXCEPT !.config_state = [old |-> @.old, new |-> c.members, index |-> s.last_applied],
                   !.membership_state = "JOINT",
                   !.joint_config_index = s.last_applied,
                   !.requested_membership = c.members,
                   !.requested_membership_pending = TRUE]

\* Mutants: an expelled member keeps its role; the new configuration keeps the old index.
ExpelledKeepsRole(s, c) ==
    [s EXCEPT !.config_state = [old |-> c.members, new |-> {}, index |-> s.last_applied],
              !.membership_state = "STABLE",
              !.running = @ /\ s.id \in c.members]

LeaveJointKeepsIndex(s, c) ==
    [s EXCEPT !.config_state = [old |-> c.members, new |-> {}, index |-> @.index],
              !.membership_state = "STABLE",
              !.requested_membership_pending = FALSE]

\* A member that the new configuration leaves out stops itself.
ApplyLeaveJoint(s, c) ==
    IF s.last_applied <= s.config_state.index \/ c.members = {} THEN s
    ELSE LET t == [s EXCEPT !.config_state = [old |-> c.members, new |-> {},
                                              index |-> s.last_applied],
                            !.membership_state = "STABLE",
                            !.final_config_index = s.last_applied,
                            !.joint_config_index = 0,
                            !.requested_membership = {},
                            !.requested_membership_pending = FALSE]
         IN  IF node_self_is_member(s) /\ ~node_self_is_member(t)
             THEN [t EXCEPT !.running = FALSE, !.leader_id = Nil,
                            !.votes_received = {}, !.role = "FOLLOWER"]
             ELSE t

node_apply_command(s, c) ==
    CASE c.op = "set_maxlog"  -> ApplySetMaxlog(s, c)
      [] c.op = "enter_joint" -> ApplyEnterJoint(s, c)
      [] c.op = "leave_joint" -> ApplyLeaveJoint(s, c)
      [] OTHER                -> [s EXCEPT !.app = Append(@, c)]

ApplyNext(s) ==
    LET i == s.last_applied + 1
    IN  node_apply_command([s EXCEPT !.last_applied = i, !.persist_dirty = TRUE],
                           LogEntryAt(s, i).command)

-----------------------------------------------------------------------------
(* The membership driver.                                                  *)

\* node_append_internal_command: -1 and no change when the log is full.
AppendInternalIndex(s) ==
    IF s.log_count >= RAFT_MAX_LOG THEN -1 ELSE node_last_log_index(s) + 1

AppendInternal(s, op) ==
    IF s.log_count >= RAFT_MAX_LOG THEN s
    ELSE AppendAndBroadcast(s, [op |-> op, value |-> 0, members |-> s.requested_membership])

node_maybe_drive_membership(s) ==
    LET joint == configuration_is_joint(s.config_state)
        i     == AppendInternalIndex(s)
    IN  IF ~node_is_leader(s) THEN s ELSE
        CASE s.membership_state = "STABLE" /\ s.requested_membership_pending /\ ~joint ->
                 [AppendInternal(s, "enter_joint") EXCEPT
                     !.joint_config_index = i,
                     !.membership_state = IF i > 0 THEN "JOINT_PENDING" ELSE @]
          [] s.membership_state = "JOINT_PENDING" /\ joint
             /\ s.config_state.index = s.joint_config_index ->
                 [s EXCEPT !.membership_state = "JOINT"]
          [] s.membership_state = "JOINT" /\ node_joint_members_are_caught_up(s) ->
                 [AppendInternal(s, "leave_joint") EXCEPT
                     !.final_config_index = i,
                     !.membership_state = IF i > 0 THEN "FINALIZING" ELSE @]
          [] s.membership_state = "FINALIZING" /\ ~joint
             /\ s.config_state.index = s.final_config_index ->
                 [s EXCEPT !.membership_state = "STABLE"]
          [] OTHER -> s

-----------------------------------------------------------------------------
(* Compaction.                                                             *)

\* Mutant: a follower compacts entries it has not applied.
CompactsUnapplied(s) == node_last_log_index(s)

node_compactible_index(s) ==
    IF s.role # "LEADER" THEN s.last_applied
    ELSE Min({s.last_applied} \cup {s.match_index[k] : k \in PeerSlots(s)})

node_should_compact(s) ==
    /\ s.compaction_threshold > 0
    /\ node_compactible_index(s) - s.snapshot_last_included_index >= s.compaction_threshold

\* node_should_compact and the early returns of node_do_compact.
Compacts(s) ==
    /\ node_should_compact(s)
    /\ node_compactible_index(s) > s.snapshot_last_included_index
    /\ node_compactible_index(s) <= node_last_log_index(s)

\* Mutant: the logical index is taken for the number of entries to drop.
LogicalIndexDropped(s) ==
    LET target == node_compactible_index(s)
        from   == target - s.snapshot_last_included_index
    IN  [s EXCEPT !.snapshot_buf = s.app,
                  !.log = [p \in 1..RAFT_MAX_LOG |->
                              IF p + from <= s.log_count THEN s.log[p + from] ELSE s.log[p]],
                  !.log_count = @ - target,
                  !.snapshot_last_included_index = target,
                  !.snapshot_last_included_term = node_term_at_index(s, target),
                  !.persist_dirty = TRUE]

node_do_compact(s) ==
    LET target == node_compactible_index(s)
        from   == target - s.snapshot_last_included_index
        keep   == s.log_count - from
    IN  [s EXCEPT !.snapshot_buf = s.app,
                  !.log = [p \in 1..RAFT_MAX_LOG |->
                              IF p <= keep THEN s.log[p + from] ELSE s.log[p]],
                  !.log_count = keep,
                  !.snapshot_last_included_index = target,
                  !.snapshot_last_included_term = node_term_at_index(s, target),
                  !.persist_dirty = TRUE]

-----------------------------------------------------------------------------
(* Actions of the transition table.                                        *)

action_become_candidate(s) ==
    LET t == [s EXCEPT !.current_term = @ + 1, !.voted_for = s.id,
                       !.votes_received = {s.id}, !.leader_id = Nil, !.persist_dirty = TRUE]
        RequestVoteFor(p) ==
            [ZeroMessage EXCEPT !.kind = "REQUEST_VOTE", !.term = t.current_term,
                                !.source = s.id, !.target = p,
                                !.last_log_index = node_last_log_index(s),
                                !.last_log_term = node_last_log_term(s)]
    IN  [t EXCEPT !.role = "CANDIDATE", !.outbox = @ \cup {RequestVoteFor(p) : p \in Peers(s)}]

action_back_to_follower_due_to_timeout(s) ==
    [s EXCEPT !.role = "FOLLOWER", !.votes_received = {}, !.leader_id = Nil]

guard_received_majority_votes(s) ==
    /\ node_has_vote_quorum(s, s.config_state.old)
    /\ configuration_is_joint(s.config_state) => node_has_vote_quorum(s, s.config_state.new)

action_become_leader(s) ==
    node_broadcast_append_entries(
        [s EXCEPT !.role = "LEADER", !.leader_id = s.id,
                  !.next_index = [k \in 1..RAFT_MAX_PEERS |->
                      IF k \in PeerSlots(s) THEN node_last_log_index(s) + 1 ELSE @[k]],
                  !.match_index = [k \in 1..RAFT_MAX_PEERS |->
                      IF k \in PeerSlots(s) THEN 0 ELSE @[k]]])

-----------------------------------------------------------------------------
(* Boot (raft_node_init), start, stop and reset.                           *)

ZeroNode(n) ==
    [id |-> n, learner |-> n \in Learners, running |-> TRUE, role |-> "FOLLOWER",
     current_term |-> 0, voted_for |-> Nil,
     log |-> [p \in 1..RAFT_MAX_LOG |-> ZeroEntry], log_count |-> 0,
     snapshot_last_included_index |-> 0, snapshot_last_included_term |-> 0,
     commit_index |-> 0, last_applied |-> 0, leader_id |-> Nil,
     compaction_threshold |-> RAFT_MAX_LOG,
     config_state |-> ZeroConfiguration, membership_state |-> "STABLE",
     requested_membership |-> {}, requested_membership_pending |-> FALSE,
     joint_config_index |-> 0, final_config_index |-> 0,
     votes_received |-> {}, next_index |-> [k \in 1..RAFT_MAX_PEERS |-> 0],
     match_index |-> [k \in 1..RAFT_MAX_PEERS |-> 0],
     outbox |-> {}, persist_dirty |-> FALSE, snapshot_buf |-> << >>, app |-> << >>]

\* A node without members and without log takes the configured members.
DefaultMembers(s) ==
    IF s.config_state.old = {} /\ ~s.learner /\ s.log_count = 0
    THEN [s EXCEPT !.config_state = [old |-> InitialMembers[s.id], new |-> {}, index |-> 0]]
    ELSE s

\* --join discards the persisted state (the files are overwritten at the next save).
Forget(s) ==
    [s EXCEPT !.config_state = ZeroConfiguration, !.log_count = 0, !.commit_index = 0,
              !.last_applied = 0, !.snapshot_last_included_index = 0,
              !.snapshot_last_included_term = 0, !.current_term = 0, !.voted_for = Nil,
              !.persist_dirty = TRUE]

raft_node_init(n, d) ==
    LET loaded  == raft_storage_node_load(ZeroNode(n), d)
        checked == [loaded EXCEPT !.compaction_threshold = IF @ <= 0 THEN RAFT_MAX_LOG ELSE @]
        s       == DefaultMembers(IF n \in Learners THEN Forget(checked) ELSE checked)
    IN  [s EXCEPT !.membership_state =
             IF configuration_is_joint(s.config_state) THEN "JOINT" ELSE "STABLE"]

raft_node_stop(s) == [s EXCEPT !.running = FALSE, !.outbox = {}, !.role = "FOLLOWER"]

raft_node_start(s, d) ==
    [DefaultMembers(raft_storage_node_load(s, d)) EXCEPT !.running = TRUE, !.role = "FOLLOWER"]

raft_node_reset_for_join(s) ==
    [Forget(s) EXCEPT !.log = [p \in 1..RAFT_MAX_LOG |-> ZeroEntry],
                      !.leader_id = Nil, !.votes_received = {}, !.outbox = {},
                      !.learner = TRUE, !.membership_state = "STABLE",
                      !.running = TRUE, !.role = "FOLLOWER", !.persist_dirty = FALSE]
=============================================================================
