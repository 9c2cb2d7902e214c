----------------------------- MODULE RaftTypes -----------------------------
(***************************************************************************)
(* The data of the C engine (c/include/raft/raft.h): log entries, messages *)
(* and cluster configurations, with the compile-time limits as constants,  *)
(* and the helpers of c/src/raft.c that read a node without changing it:   *)
(* the compaction-aware log indexes and the peer positions.                *)
(*                                                                         *)
(* A node is a record s with the fields of struct raft_node.  Node ids are *)
(* positive integers, because normalize_members sorts member lists and the *)
(* sorted position of a peer is what indexes next_index and match_index;   *)
(* Nil is the empty id.  Member lists are sets: normalize_members removes  *)
(* duplicates and empty ids and sorts what is left.                        *)
(***************************************************************************)
EXTENDS Integers, Sequences, FiniteSets

CONSTANTS
    Server,            \* the nodes of the deployment
    RAFT_MAX_NODES,    \* capacity of a member list
    RAFT_MAX_LOG,      \* slots of a node's log array
    RAFT_MAX_BATCH,    \* entries one AppendEntries carries
    InitialMembers,    \* each node's config.initial_members, or itself and its
                       \* config.peers where that list is empty
    Learners,          \* nodes started with config.learner = 1 (--join)
    OutOfBounds        \* what a read outside a log array finds

RAFT_MAX_PEERS == RAFT_MAX_NODES - 1
Nil == 0
MaybeServer == Server \cup {Nil}

Role == {"FOLLOWER", "CANDIDATE", "LEADER"}
MembershipState == {"STABLE", "JOINT_PENDING", "JOINT", "FINALIZING"}

(***************************************************************************)
(* raft_command_t: op, and value decoded to what the engine makes of it,   *)
(* a number (set_maxlog, or the payload of an application command) or a    *)
(* member list (enter_joint, leave_joint).  "app" stands for every op the  *)
(* engine hands to application.apply.                                      *)
(***************************************************************************)
InternalOp == {"set_maxlog", "enter_joint", "leave_joint"}
Command == [op : InternalOp \cup {"app", ""}, value : Nat, members : SUBSET Server]
ZeroCommand == [op |-> "", value |-> 0, members |-> {}]

Entry == [index : Nat, term : Nat, leader_id : MaybeServer, command : Command]
ZeroEntry == [index |-> 0, term |-> 0, leader_id |-> Nil, command |-> ZeroCommand]

MessageKind == {"REQUEST_VOTE", "REQUEST_VOTE_RESPONSE",
                "APPEND_ENTRIES", "APPEND_ENTRIES_RESPONSE"}
Message == [kind : MessageKind, term : Nat, source : MaybeServer, target : MaybeServer,
            granted : BOOLEAN, success : BOOLEAN,
            prev_log_index : Nat, prev_log_term : Nat, prev_log_leader_id : MaybeServer,
            leader_commit : Nat, match_index : Nat,
            last_log_index : Nat, last_log_term : Nat,
            entries : Seq(Entry)]

\* memset(&message, 0, sizeof(message)); kind 0 is REQUEST_VOTE.
ZeroMessage ==
    [kind |-> "REQUEST_VOTE", term |-> 0, source |-> Nil, target |-> Nil,
     granted |-> FALSE, success |-> FALSE,
     prev_log_index |-> 0, prev_log_term |-> 0, prev_log_leader_id |-> Nil,
     leader_commit |-> 0, match_index |-> 0, last_log_index |-> 0, last_log_term |-> 0,
     entries |-> << >>]

\* raft_cluster_configuration_t: joint exactly when new is not empty.
Configuration == [old : SUBSET Server, new : SUBSET Server, index : Nat]
ZeroConfiguration == [old |-> {}, new |-> {}, index |-> 0]

ASSUME ServerAssumption == IsFiniteSet(Server) /\ Server \subseteq Nat \ {Nil}
ASSUME LimitAssumption ==
    /\ RAFT_MAX_NODES \in Nat \ {0} /\ Cardinality(Server) <= RAFT_MAX_NODES
    /\ RAFT_MAX_LOG \in Nat \ {0}
    /\ RAFT_MAX_BATCH \in Nat \ {0}
ASSUME DeploymentAssumption ==
    /\ InitialMembers \in [Server -> SUBSET Server]
    /\ Learners \subseteq Server
ASSUME OutOfBoundsAssumption == OutOfBounds \in Entry

Larger(a, b)  == IF a < b THEN b ELSE a
Smaller(a, b) == IF a < b THEN a ELSE b

-----------------------------------------------------------------------------
(* Log indexes.  Slot p of s.log (1-based here) holds logical index        *)
(* snapshot_last_included_index + p; slots past log_count keep whatever    *)
(* was last written to them, as the C array does.                          *)

node_last_log_index(s) == s.snapshot_last_included_index + s.log_count

node_log_base_index(s) == s.snapshot_last_included_index + 1

node_physical_index(s, i) == i - s.snapshot_last_included_index

node_has_log_index(s, i) == i \in node_log_base_index(s)..node_last_log_index(s)

\* s.log[node_physical_index(s, i)]: the C code reads the array unchecked.
LogEntryAt(s, i) ==
    LET p == node_physical_index(s, i)
    IN  IF p \in 1..RAFT_MAX_LOG THEN s.log[p] ELSE OutOfBounds

node_last_log_term(s) ==
    IF s.log_count = 0 THEN s.snapshot_last_included_term ELSE s.log[s.log_count].term

node_term_at_index(s, i) ==
    IF i = 0 THEN 0
    ELSE IF i = s.snapshot_last_included_index THEN s.snapshot_last_included_term
    ELSE LogEntryAt(s, i).term

node_leader_at_index(s, i) ==
    IF i > 0 /\ node_has_log_index(s, i) THEN LogEntryAt(s, i).leader_id ELSE Nil

-----------------------------------------------------------------------------
(* Configurations and peers.                                               *)

configuration_is_joint(c) == c.new # {}

node_self_is_member(s) == s.id \in s.config_state.old \cup s.config_state.new

\* node_refresh_peers keeps config.peers equal to this after every change of config_state but
\* one: raft_node_start loads the file without it.  Between ticks the file has the members
\* the node has in memory, or none and the default members follow, with a refresh; only a
\* learner booted over the files of an earlier life, then stopped and started before it has
\* saved anything, would have these peers in the model and none in C.
Peers(s) == (s.config_state.old \cup s.config_state.new) \ {s.id}

(***************************************************************************)
(* Position of a peer in config.peers (node_refresh_peers, then            *)
(* node_peer_index): the old members in order, then the members that are   *)
(* only in new, in order; 0 where C has -1.  next_index and match_index    *)
(* are indexed by this position.                                           *)
(***************************************************************************)
node_peer_index(s, p) ==
    LET old == s.config_state.old \ {s.id}
        new == s.config_state.new \ (old \cup {s.id})
    IN  IF p \in old THEN 1 + Cardinality({q \in old : q < p})
        ELSE IF p \in new THEN 1 + Cardinality(old) + Cardinality({q \in new : q < p})
        ELSE 0

\* The positions 0..peer_count - 1 of the C arrays.
PeerSlots(s) == {k \in 1..RAFT_MAX_PEERS : k <= Cardinality(Peers(s))}

node_is_leader(s) == s.running /\ node_self_is_member(s) /\ s.role = "LEADER"

member_majority(members) == Cardinality(members) \div 2 + 1

node_has_vote_quorum(s, members) ==
    Cardinality(members \cap s.votes_received) >= member_majority(members)
=============================================================================
