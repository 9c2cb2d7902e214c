--------------------------- MODULE RaftProperties ---------------------------
(***************************************************************************)
(* What the C engine promises: to its peers (votes and terms survive a     *)
(* crash, logs agree), to its disk (a clean node is what a restart would   *)
(* give back) and to its application (what is applied is the log).         *)
(***************************************************************************)
EXTENDS RaftCluster

\* The log of a node as a sequence.
LogOf(s) == [p \in 1..s.log_count |-> s.log[p]]

IsAppCommand(c) == c.op \notin InternalOp

-----------------------------------------------------------------------------
(* Durability.                                                             *)

\* A granted vote that is still in flight is on the voter's disk, or the voter's disk
\* has moved to a later term: dump_outputs saves before it sends, so no crash between
\* node_handle_vote_request and the save can make a node vote twice.
VotesAreDurable ==
    \A m \in net : m.kind = "REQUEST_VOTE_RESPONSE" /\ m.granted =>
        LET meta == disk[m.source].meta
        IN  \/ meta.current_term > m.term
            \/ meta.current_term = m.term /\ meta.voted_for = m.target

\* Durable terms never decrease, and within a term the durable vote never changes once
\* it is cast, whatever crashes come between the writes of meta.txt and log.txt.
OneVotePerTerm ==
    [][\A n \in Server :
         LET old == disk[n].meta
             new == disk'[n].meta
         IN  \/ new.current_term > old.current_term
             \/ /\ new.current_term = old.current_term
                /\ old.voted_for \in {Nil, new.voted_for}]_vars

\* What raft_storage_node_save is responsible for.
PersistentState(s) ==
    [current_term |-> s.current_term, voted_for |-> s.voted_for, log |-> LogOf(s),
     commit_index |-> s.commit_index, config_state |-> s.config_state,
     compaction_threshold |-> s.compaction_threshold,
     snapshot_index |-> s.snapshot_last_included_index,
     snapshot_term |-> s.snapshot_last_included_term]

\* A node whose persist_dirty is clear would lose nothing if it were started again now:
\* every handler that changes term, vote, log, commit index, configuration, threshold
\* or snapshot position marks the node dirty.
RestartLosesNothing ==
    \A n \in Server \ Learners : ~node[n].persist_dirty =>
        PersistentState(raft_node_init(n, disk[n])) = PersistentState(node[n])

\* As long as a node's durable term is the one it sent AppendEntries in, the entries it
\* sent are on its disk or compacted into its snapshot: dump_outputs saves before it sends,
\* so no crash of a leader takes back an entry that a follower may already have
\* acknowledged.  (For terms with one leader.)
SentEntriesAreDurable ==
    \A m \in net : m.kind = "APPEND_ENTRIES" =>
        LET d == disk[m.source]
        IN  d.meta.current_term = m.term =>
                \A k \in 1..Len(m.entries) :
                    \/ m.entries[k].index <= d.meta.snapshot_last_included_index
                    \/ \E i \in 1..Len(d.log) : d.log[i] = m.entries[k]

-----------------------------------------------------------------------------
(* Logs.                                                                   *)

\* Every entry sits at the slot its index names, in memory and as a restart would load
\* it: the arithmetic of node_physical_index stays right through truncation, compaction
\* and crashes between the file writes.
LogIsContiguous ==
    \A n \in Server : \A s \in {node[n], raft_node_init(n, disk[n])} :
        \A p \in 1..s.log_count : s.log[p].index = s.snapshot_last_included_index + p

\* Entries created by one leader in one term at one index are the same entry, and the
\* logs before them are the same: the prev_log check with its leader_id comparison is
\* enough even where two leaders share a term.  (For logs that are not compacted.)
LogMatching ==
    \A a, b \in Server :
        LET la == LogOf(node[a])
            lb == LogOf(node[b])
        IN  \A p \in 1..Smaller(Len(la), Len(lb)) :
                la[p].term = lb[p].term /\ la[p].leader_id = lb[p].leader_id
                    => \A q \in 1..p : la[q] = lb[q]

\* A node that goes on leading never overwrites or drops an entry of its own log.
LeaderAppendOnly ==
    [][\A n \in Server :
         node[n].role = "LEADER" /\ node'[n].role = "LEADER" =>
             \A p \in 1..node[n].log_count :
                 \/ node[n].log[p].index <= node'[n].snapshot_last_included_index
                 \/ \E q \in 1..node'[n].log_count : node'[n].log[q] = node[n].log[p]]_vars

-----------------------------------------------------------------------------
(* The application.                                                        *)

\* Where in its log a node has the commands that it gave to the application.
AppliedCommands(s) == {p \in 1..s.last_applied : IsAppCommand(s.log[p].command)}

\* What the application has seen is what the node's own log holds up to last_applied,
\* each entry once, in order: replacing an entry that was applied rebuilds the state
\* (rebuild_applied_state).  (For logs that are not compacted.)
AppliedIsLogPrefix ==
    \A n \in Server :
        LET s == node[n]
            P == AppliedCommands(s)
        IN  /\ s.last_applied <= s.log_count
            /\ Len(s.app) = Cardinality(P)
            /\ \A p \in P : s.app[Cardinality({q \in P : q <= p})] = s.log[p].command

\* The next entry to apply is in the log array: dump_outputs reads it unchecked.
NextToApplyIsInLog ==
    \A n \in Server :
        node[n].last_applied < node[n].commit_index =>
            node_has_log_index(node[n], node[n].last_applied + 1)

\* Two nodes that have applied the same entries have the same application state: "apply is
\* called exactly once per entry" (docs/user-c.md), by a node that was restored from a snapshot
\* too.
StateMachineSafety ==
    \A a, b \in Server :
        node[a].last_applied = node[b].last_applied => node[a].app = node[b].app

-----------------------------------------------------------------------------
(* Elections and commitment.                                               *)

\* At most one node leads in a term.
ElectionSafety ==
    \A a, b \in Server :
        node[a].role = "LEADER" /\ node[b].role = "LEADER"
            /\ node[a].current_term = node[b].current_term => a = b

\* Node p has entry e in its log, or has compacted past it.
HasEntry(p, e) ==
    \/ e.index <= node[p].snapshot_last_included_index
    \/ \E i \in 1..node[p].log_count : node[p].log[i] = e

IsOnMajority(e, members) ==
    Cardinality({p \in members : HasEntry(p, e)}) >= member_majority(members)

\* What a leader of a stable configuration has marked committed in its term is on a
\* majority of the members.
CommittedOnMajority ==
    \A n \in Server :
        LET s == node[n]
        IN  s.role = "LEADER" /\ ~configuration_is_joint(s.config_state) =>
                \A i \in 1..s.log_count :
                    s.log[i].index <= s.commit_index /\ s.log[i].term = s.current_term
                        => IsOnMajority(s.log[i], s.config_state.old)

-----------------------------------------------------------------------------
(* Membership.                                                             *)

\* Entry i of a log is the last enter_joint before entry j.
EntersBefore(log, i, j) ==
    /\ log[i].command.op = "enter_joint"
    /\ \A k \in (i + 1)..(j - 1) : log[k].command.op # "enter_joint"

\* A leave_joint entry names the members the enter_joint before it named.
LeaveMatchesEnter ==
    \A n \in Server :
        LET log == LogOf(node[n])
        IN  \A j \in 1..Len(log) : log[j].command.op = "leave_joint" =>
                \A i \in 1..(j - 1) :
                    EntersBefore(log, i, j) => log[j].command.members = log[i].command.members

\* A configuration is the one that the log entry it names set, unless it is the initial one
\* or the entry is compacted: config_state and its index follow what was applied, through
\* changes of leader, a stop and a start.
ConfigurationIsLogged ==
    \A n \in Server :
        LET s == node[n]
            c == s.config_state
            e == LogEntryAt(s, c.index).command
        IN  c.index > s.snapshot_last_included_index =>
                /\ node_has_log_index(s, c.index)
                /\ IF configuration_is_joint(c)
                   THEN e.op = "enter_joint" /\ c.new = e.members
                   ELSE e.op = "leave_joint" /\ c.old = e.members

\* Lists of members that are initial ones or that an operator asked for, as a whole.
Chosen(c) ==
    /\ c.old \in Memberships \cup {{}} \cup {InitialMembers[n] : n \in Server}
    /\ c.new \in Memberships \cup {{}}

\* Nodes and files have no other configurations, never a mixture of lists: what becomes of
\* a request through log, messages, files and changes of leader is the list that was asked
\* for, also where requests overlap or a leave_joint names another list than its enter_joint.
MembersWereChosen ==
    \A n \in Server : Chosen(node[n].config_state) /\ Chosen(disk[n].meta.config_state)

\* Only a member of its own configuration campaigns or leads: a leader that is expelled
\* gives up the role in the tick that applies the leave_joint entry.
OnlyMembersLead ==
    \A n \in Server : node_self_is_member(node[n]) \/ node[n].role = "FOLLOWER"
=============================================================================
