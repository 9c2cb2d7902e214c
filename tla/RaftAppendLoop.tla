--------------------------- MODULE RaftAppendLoop ---------------------------
(***************************************************************************)
(* The loop of node_append_entries_from_leader over message.entries, one   *)
(* step per entry, as c/src/raft.c runs it.  RaftCore has the loop in      *)
(* closed form (MergeEntries, ReplacesApplied), which is what the cluster  *)
(* uses; ClosedForm says that the two agree.                               *)
(***************************************************************************)
EXTENDS RaftNode

CONSTANTS
    Starts,            \* nodes the loop may start from
    Received           \* messages it may run over

\* Every entry sits where its index says (LogIsContiguous, RaftProperties).
Contiguous(s) ==
    \A p \in 1..s.log_count : s.log[p].index = s.snapshot_last_included_index + p

ASSUME LoopAssumption ==
    /\ Starts \subseteq Node /\ \A s \in Starts : Contiguous(s)
    /\ Received \subseteq Message
    /\ \A m \in Received : \A k \in 1..Len(m.entries) :
           m.entries[k].index = m.prev_log_index + k

VARIABLES
    start,             \* the node when the loop begins
    message,           \* the message it handles
    s,                 \* the node now
    next,              \* the next entry
    rebuild            \* rebuild_applied_state

vars == <<start, message, s, next, rebuild>>

\* The loop is reached when the consistency check succeeds.
Init ==
    /\ start \in Starts /\ message \in Received
    /\ PrevMatches(start, message)
    /\ s = start
    /\ next = 1
    /\ rebuild = FALSE

NextEntry == message.entries[next]

Conflict(e) ==
    \/ node_term_at_index(s, e.index) # e.term
    \/ e.leader_id # Nil /\ node_leader_at_index(s, e.index) # e.leader_id

AppendEntry(t, e) ==
    IF e.index = node_last_log_index(t) + 1 /\ t.log_count < RAFT_MAX_LOG
    THEN [t EXCEPT !.log[t.log_count + 1] = e, !.log_count = @ + 1, !.persist_dirty = TRUE]
    ELSE t

\* The entry is under the snapshot, or in the log.
Known(e) ==
    \/ e.index <= s.snapshot_last_included_index
    \/ node_has_log_index(s, e.index) /\ ~Conflict(e)

Continue(e) == Known(e) /\ UNCHANGED <<s, rebuild>>

\* Mutant: the last applied entry does not count as applied.
ReplaceOffByOne(e) ==
    /\ node_has_log_index(s, e.index) /\ Conflict(e)
    /\ rebuild' = (rebuild \/ e.index < s.last_applied)
    /\ s' = AppendEntry([s EXCEPT !.log_count = node_physical_index(s, e.index) - 1,
                                  !.persist_dirty = TRUE], e)

\* The suffix that starts with a conflicting entry is cut off.
Replace(e) ==
    /\ node_has_log_index(s, e.index) /\ Conflict(e)
    /\ rebuild' = (rebuild \/ e.index <= s.last_applied)
    /\ s' = AppendEntry([s EXCEPT !.log_count = node_physical_index(s, e.index) - 1,
                                  !.persist_dirty = TRUE], e)

AppendAtEnd(e) ==
    /\ e.index > node_last_log_index(s)
    /\ s' = AppendEntry(s, e)
    /\ UNCHANGED rebuild

Next ==
    /\ next <= Len(message.entries)
    /\ Continue(NextEntry) \/ Replace(NextEntry) \/ AppendAtEnd(NextEntry)
    /\ next' = next + 1
    /\ UNCHANGED <<start, message>>

Spec == Init /\ [][Next]_vars

\* When the loop of node_append_entries_from_leader ends, the node is the one the closed
\* form computes and rebuild_applied_state is set exactly if an applied entry was replaced:
\* truncation at a conflict, a full array and entries the log already has, in any mix.
ClosedForm ==
    next > Len(message.entries) =>
        /\ s = MergeEntries(start, message)
        /\ rebuild = ReplacesApplied(start, message)
=============================================================================
