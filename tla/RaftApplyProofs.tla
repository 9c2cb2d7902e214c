-------------------------- MODULE RaftApplyProofs --------------------------
(***************************************************************************)
(* What a node has applied, for any number of nodes and entries: the       *)
(* application has seen the commands of the node's own log up to           *)
(* last_applied, each once and in order; a node that an applied entry      *)
(* expels from the configuration neither campaigns nor leads; and a        *)
(* configuration consists of lists of members that somebody chose.         *)
(*                                                                         *)
(* The invariants are of every node by itself, and a handler is described  *)
(* by what it keeps of them (Keeps, which composes).  The first needs the  *)
(* commit index within the log (LogInv) to know that the entry to apply is *)
(* one of the log, and that snapshot.bin is never the one a node without   *)
(* snapshot loads.  The others follow the lists of members on their way    *)
(* from a request into log, messages, files and configuration (SpeakInv).  *)
(***************************************************************************)
EXTENDS RaftMatchProofs

-----------------------------------------------------------------------------
(* One node.                                                               *)

\* The body of AppliedIsLogPrefix: command number k of the application is the k-th one
\* among the entries up to last_applied.
Truthful(s) ==
    LET P == AppliedCommands(s)
    IN  /\ s.last_applied <= s.log_count
        /\ Len(s.app) = Cardinality(P)
        /\ \A p \in P : s.app[Cardinality({q \in P : q <= p})] = s.log[p].command

\* The body of OnlyMembersLead.
Rightful(s) == node_self_is_member(s) \/ s.role = "FOLLOWER"

\* A command that changes the members names a list of L.
Named(L, c) == c.op \in {"enter_joint", "leave_joint"} => c.members \in L

\* So do the entries of a message.
Spoken(L, m) == \A k \in 1..Len(m.entries) : Named(L, m.entries[k].command)

\* A configuration of lists of L, and of initial ones as long as nothing has replaced them.
Formed(L, c) == c.new \in L /\ c.old \in L \cup {InitialMembers[n] : n \in Server}

\* A node whose log, stale slots of the array included, whose messages, configuration and
\* pending request name lists of L only.
Speaks(L, s) ==
    /\ \A p \in 1..RAFT_MAX_LOG : Named(L, s.log[p].command)
    /\ \A m \in s.outbox : Spoken(L, m)
    /\ Formed(L, s.config_state)
    /\ s.requested_membership \in L

\* What the messages in flight and the memory behind the log array name.
Hears(L) == Named(L, OutOfBounds.command) /\ \A m \in net : Spoken(L, m)

\* A handler that names no list but those it knows of, for every set of lists.
Repeats(s, t) == \A L : Hears(L) /\ Speaks(L, s) => Speaks(L, t)

\* What every handler but ApplyNext and compaction does.
Keeps(s, t) ==
    /\ t.id = s.id /\ SameSnapshot(s, t) /\ t.config_state = s.config_state
    /\ s.snapshot_last_included_index = 0 /\ Truthful(s) => Truthful(t)
    /\ Rightful(s) => Rightful(t)
    /\ Repeats(s, t)

\* Handlers compose.
LEMMA KeepsTransitive ==
    ASSUME NEW s, NEW t, NEW u, Keeps(s, t), Keeps(t, u)
    PROVE  Keeps(s, u)
BY Zenon DEF Keeps, SameSnapshot, Repeats

\* Doing nothing.
LEMMA KeepsReflexive ==
    ASSUME NEW s
    PROVE  Keeps(s, s)
BY Zenon DEF Keeps, SameSnapshot, Repeats

\* A handler that leaves the log and the members alone.
LEMMA CalmRepeats ==
    ASSUME NEW s, NEW t, Calm(s, t), SameApplied(s, t)
    PROVE  Repeats(s, t)
<1>1. ASSUME NEW L, Hears(L), Speaks(L, s) PROVE Speaks(L, t)
  <2>1. ASSUME NEW i PROVE Named(L, LogEntryAt(s, i).command)
    BY <1>1, Zenon DEF LogEntryAt, Hears, Speaks
  <2>2. ASSUME NEW m \in t.outbox PROVE Spoken(L, m)
    <3>1. CASE m \in s.outbox
      BY <1>1, <3>1, Zenon DEF Speaks
    <3>2. CASE Quotes(m, s)
      BY <2>1, <3>2, Zenon DEF Quotes, Excerpt, Spoken
    <3> QED
      BY <2>2, <3>1, <3>2, Zenon DEF Calm
  <2> QED
    BY <1>1, <2>2, Zenon DEF Speaks, Calm, SameApplied
<1> QED
  BY <1>1, Zenon DEF Repeats

\* A node with the same application and the same applied entries.
LEMMA SameTruth ==
    ASSUME NEW s, NEW t, Truthful(s),
           t.last_applied = s.last_applied, t.app = s.app, s.last_applied <= t.log_count,
           \A p \in 1..s.last_applied : t.log[p] = s.log[p]
    PROVE  Truthful(t)
<1>1. AppliedCommands(t) = AppliedCommands(s)
  BY DEF AppliedCommands
<1>2. \A p \in AppliedCommands(s) : t.log[p] = s.log[p]
  BY Zenon DEF AppliedCommands
<1> QED
  BY <1>1, <1>2, Zenon DEF Truthful

\* A handler that lets the log grow and applies nothing.
LEMMA GrowsKeeps ==
    ASSUME NEW s \in Node, NEW t \in Node, t.id = s.id, SameSnapshot(s, t), Grows(s, t),
           SameApplied(s, t), Repeats(s, t),
           Rightful(s) => t.role \in {s.role, "FOLLOWER"} \/ node_self_is_member(s)
    PROVE  Keeps(s, t)
<1>1. ASSUME Truthful(s) PROVE Truthful(t)
  <2>1. /\ s.last_applied \in Nat /\ s.log_count \in Nat /\ t.log_count \in Nat
        /\ s.snapshot_last_included_index \in Nat
        /\ t.snapshot_last_included_index = s.snapshot_last_included_index
    BY NodeFields, LimitAssumption DEF SameSnapshot
  <2>2. s.last_applied <= s.log_count
    BY <1>1, Zenon DEF Truthful
  <2>3. ASSUME NEW p \in 1..s.last_applied PROVE p <= t.log_count /\ t.log[p] = s.log[p]
    <3>1. p \in 1..s.log_count
      BY <2>1, <2>2
    <3>2. Survives(s, t, p)
      BY <3>1 DEF Grows
    <3>3. s.snapshot_last_included_index + p - t.snapshot_last_included_index = p /\ p > 0
      BY <2>1
    <3> QED
      BY <3>2, <3>3, Zenon DEF Survives
  <2>4. s.last_applied <= t.log_count
    <3>1. CASE s.last_applied = 0
      BY <2>1, <3>1
    <3>2. CASE s.last_applied # 0
      <4>1. s.last_applied \in 1..s.last_applied
        BY <2>1, <3>2
      <4> QED
        BY <2>3, <4>1
    <3> QED
      BY <3>1, <3>2
  <2> QED
    BY <1>1, <2>3, <2>4, SameTruth, Zenon DEF SameApplied
<1>2. Rightful(s) => Rightful(t)
  BY Zenon DEF Rightful, SameApplied, node_self_is_member
<1> QED
  BY <1>1, <1>2, Zenon DEF Keeps, SameApplied

\* Handlers that leave the log and what was applied alone.
LEMMA HandledKeeps ==
    ASSUME NEW s \in Node, NEW t \in Node, Handled(s, t), Calm(s, t), SameApplied(s, t)
    PROVE  Keeps(s, t)
<1>1. Repeats(s, t)
  BY CalmRepeats, Zenon DEF Handled, Preserves
<1> QED
  BY <1>1, GrowsKeeps, Zenon DEF Handled, Preserves, Stays

\* A node that steps down.
LEMMA StepDownKeeps ==
    ASSUME NEW s \in Node
    PROVE  LET t == [s EXCEPT !.role = "FOLLOWER"]
           IN  t \in Node /\ Keeps(s, t) /\ t.role = "FOLLOWER"
<1> DEFINE t == [s EXCEPT !.role = "FOLLOWER"]
<1>1. t \in Node
  BY Zenon DEF Node, Role
<1>2. Calm(s, t) /\ SameApplied(s, t) /\ t.role = "FOLLOWER"
  BY NodeFields DEF Calm, SameSnapshot, SameApplied, Node
<1> HIDE DEF t
<1>3. Grows(s, t) /\ Repeats(s, t)
  BY <1>2, SameLogGrows, CalmRepeats, Zenon DEF Calm
<1>4. Keeps(s, t)
  BY <1>1, <1>2, <1>3, GrowsKeeps, Zenon DEF Calm
<1> QED
  BY <1>1, <1>2, <1>4 DEF t

-----------------------------------------------------------------------------
(* Handlers.                                                               *)

\* Appending a command whose members the node knows.
LEMMA AppendedRepeats ==
    ASSUME NEW s \in Node, NEW c \in Command, s.log_count < RAFT_MAX_LOG,
           \A L : Speaks(L, s) => Named(L, c)
    PROVE  Repeats(s, Appended(s, c))
<1> DEFINE t == Appended(s, c)
           last == s.log_count + 1
<1>1. /\ t.outbox = s.outbox /\ t.config_state = s.config_state
      /\ t.requested_membership = s.requested_membership
      /\ t.requested_membership_pending = s.requested_membership_pending
      /\ t.log[last].command = c
      /\ \A p \in 1..RAFT_MAX_LOG : p = last \/ t.log[p] = s.log[p]
  BY AppendedFields
<1> HIDE DEF t, last
<1>2. ASSUME NEW L, Speaks(L, s) PROVE Speaks(L, t)
  <2>1. ASSUME NEW p \in 1..RAFT_MAX_LOG PROVE Named(L, t.log[p].command)
    <3>1. CASE p = last
      BY <1>1, <1>2, <3>1, Zenon
    <3>2. CASE t.log[p] = s.log[p]
      BY <1>2, <3>2, Zenon DEF Speaks
    <3> QED
      BY <1>1, <3>1, <3>2, Zenon
  <2> QED
    BY <1>1, <1>2, <2>1, Zenon DEF Speaks
<1>3. Repeats(s, t)
  BY <1>2, Zenon DEF Repeats
<1> QED
  BY <1>3 DEF t

\* Appending and broadcasting such a command.
LEMMA AppendAndBroadcastKeeps ==
    ASSUME NEW s \in Node, NEW c \in Command, s.log_count < RAFT_MAX_LOG,
           \A L : Speaks(L, s) => Named(L, c)
    PROVE  Keeps(s, AppendAndBroadcast(s, c))
<1> DEFINE t == Appended(s, c)
           u == node_broadcast_append_entries(t)
<1>1. t \in Node /\ Handled(s, t) /\ Repeats(s, t)
  BY AppendedType, AppendedHandled, AppendedRepeats
<1>2. SameApplied(s, t)
  BY AppendedFields DEF SameApplied
<1> HIDE DEF t
<1>3. Keeps(s, t)
  BY <1>1, <1>2, GrowsKeeps, Zenon DEF Handled, Preserves, Stays
<1>4. u \in Node /\ Keeps(t, u)
  BY <1>1, BroadcastHandled, BroadcastType, BroadcastSteady, HandledKeeps DEF Steady
<1>5. AppendAndBroadcast(s, c) = u
  BY DEF AppendAndBroadcast, t
<1> HIDE DEF u
<1> QED
  BY <1>3, <1>4, <1>5, KeepsTransitive

\* node_append_internal_command.
LEMMA AppendInternalKeeps ==
    ASSUME NEW s \in Node, NEW op \in InternalOp
    PROVE  Keeps(s, AppendInternal(s, op))
<1> DEFINE c == [op |-> op, value |-> 0, members |-> s.requested_membership]
<1>1. c \in Command
  BY NodeFields DEF Command
<1>a. ASSUME NEW L, Speaks(L, s) PROVE Named(L, c)
  BY <1>a, Zenon DEF Speaks, Named
<1>2. s.log_count < RAFT_MAX_LOG \/ s.log_count >= RAFT_MAX_LOG
  BY NodeFields, LimitAssumption
<1>3. CASE s.log_count >= RAFT_MAX_LOG
  BY <1>3, KeepsReflexive, Zenon DEF AppendInternal
<1>4. CASE s.log_count < RAFT_MAX_LOG /\ ~(s.log_count >= RAFT_MAX_LOG)
  <2>1. AppendInternal(s, op) = AppendAndBroadcast(s, c)
    BY <1>4, Zenon DEF AppendInternal
  <2> HIDE DEF c
  <2> QED
    BY <1>1, <1>a, <1>4, <2>1, AppendAndBroadcastKeeps
<1> QED
  BY <1>2, <1>3, <1>4

\* node_maybe_drive_membership.
LEMMA DriveMembershipKeeps ==
    ASSUME NEW s \in Node
    PROVE  Keeps(s, node_maybe_drive_membership(s))
<1> DEFINE u == node_maybe_drive_membership(s)
           i == AppendInternalIndex(s)
           enter == AppendInternal(s, "enter_joint")
           leave == AppendInternal(s, "leave_joint")
           Same(a, b) == /\ Calm(a, b) /\ SameApplied(a, b)
                         /\ b.role = a.role
<1>1. u \in Node
  BY DriveMembershipType
<1>2. enter \in Node /\ leave \in Node /\ Keeps(s, enter) /\ Keeps(s, leave)
  BY AppendInternalType, AppendInternalKeeps, Zenon DEF InternalOp
<1> HIDE DEF enter, leave, i
<1>3. /\ Same(enter, [enter EXCEPT !.joint_config_index = i,
                        !.membership_state = IF i > 0 THEN "JOINT_PENDING" ELSE @])
      /\ Same(leave, [leave EXCEPT !.final_config_index = i,
                        !.membership_state = IF i > 0 THEN "FINALIZING" ELSE @])
      /\ Same(s, [s EXCEPT !.membership_state = "JOINT"])
      /\ Same(s, [s EXCEPT !.membership_state = "STABLE"])
      /\ Same(s, s)
  <2>1. Same(enter, [enter EXCEPT !.joint_config_index = i,
                       !.membership_state = IF i > 0 THEN "JOINT_PENDING" ELSE @])
    BY <1>2, NodeFields DEF Calm, SameApplied, SameSnapshot, Node
  <2>2. Same(leave, [leave EXCEPT !.final_config_index = i,
                       !.membership_state = IF i > 0 THEN "FINALIZING" ELSE @])
    BY <1>2, NodeFields DEF Calm, SameApplied, SameSnapshot, Node
  <2>3. /\ Same(s, [s EXCEPT !.membership_state = "JOINT"])
        /\ Same(s, [s EXCEPT !.membership_state = "STABLE"])
    BY NodeFields DEF Calm, SameApplied, SameSnapshot, Node
  <2>4. Same(s, s)
    BY SteadyReflexive, Zenon DEF Steady
  <2> HIDE DEF Same
  <2> QED
    BY <2>1, <2>2, <2>3, <2>4
<1>4. Same(s, u) \/ Same(enter, u) \/ Same(leave, u)
  <2> HIDE DEF Same
  <2> QED
    BY <1>3 DEF node_maybe_drive_membership, node_joint_members_are_caught_up, enter, leave, i
<1> HIDE DEF u, Same
<1>5. ASSUME NEW t \in Node, Keeps(s, t), Same(t, u) PROVE Keeps(s, u)
  <2>1. Grows(t, u) /\ Repeats(t, u)
    BY <1>1, <1>5, SameLogGrows, CalmRepeats, Zenon DEF Same, Calm
  <2>2. Keeps(t, u)
    BY <1>1, <1>5, <2>1, GrowsKeeps, Zenon DEF Same, Calm
  <2> QED
    BY <1>5, <2>2, KeepsTransitive
<1> QED
  BY <1>2, <1>4, <1>5, KeepsReflexive, Zenon DEF u

\* A latch.
LEMMA LatchedKeeps ==
    ASSUME NEW s \in Node, NEW r \in SUBSET Message,
           NEW commands, commands # << >> => commands \in Seq(ClientCommands)
    PROVE  Keeps(s, Latched(s, r, commands))
<1> DEFINE responses == {m \in r : IsResponse(m)}
           m == CHOOSE m \in responses : TRUE
           t == IF responses = {} THEN s ELSE node_handle_append_entries_response(s, m)
<1>1. t \in Node /\ Keeps(s, t)
  <2>1. CASE responses = {}
    BY <2>1, KeepsReflexive, Zenon
  <2>2. CASE responses # {}
    <3>1. m \in Message
      BY <2>2
    <3> HIDE DEF m, responses
    <3>2. /\ node_handle_append_entries_response(s, m) \in Node
          /\ Keeps(s, node_handle_append_entries_response(s, m))
      BY <3>1, AppendEntriesResponseType, AppendEntriesResponseHandled,
         AppendEntriesResponseSteady, HandledKeeps DEF Steady
    <3> QED
      BY <2>2, <3>2, Zenon
  <2> QED
    BY <2>1, <2>2
<1>2. Latched(s, r, commands) =
        IF commands # << >> /\ node_is_leader(t) /\ t.log_count < RAFT_MAX_LOG
        THEN AppendAndBroadcast(t, Head(commands))
        ELSE t
  BY Zenon DEF Latched
<1> HIDE DEF t
<1>3. ASSUME commands # << >>, t.log_count < RAFT_MAX_LOG
      PROVE  Keeps(s, AppendAndBroadcast(t, Head(commands)))
  <2> DEFINE c == Head(commands)
  <2>1. c \in Command /\ c.op \in {"app", "set_maxlog"}
    <3>1. c \in ClientCommands
      BY <1>3
    <3> QED
      BY <3>1, BoundAssumption
  <2> HIDE DEF c
  <2>2. \A L : Named(L, c)
    BY <2>1 DEF Named
  <2>3. Keeps(t, AppendAndBroadcast(t, c))
    BY <1>1, <1>3, <2>1, <2>2, AppendAndBroadcastKeeps
  <2> QED
    BY <1>1, <2>3, KeepsTransitive DEF c
<1> QED
  BY <1>1, <1>2, <1>3

-----------------------------------------------------------------------------
(* The entries of a leader.                                                *)

\* rebuild_applied_state empties the application of a node without snapshot; otherwise
\* what was applied stays.
LEMMA UpdateCommitApplied ==
    ASSUME NEW s \in Node, NEW m \in Message, NEW rebuild \in BOOLEAN
    PROVE  LET t == UpdateCommit(s, m, rebuild)
           IN  /\ rebuild /\ s.snapshot_last_included_index = 0 =>
                     t.last_applied = 0 /\ t.app = << >>
               /\ ~rebuild => t.last_applied = s.last_applied /\ t.app = s.app
<1> DEFINE last == node_last_log_index(s)
           restored == IF s.snapshot_last_included_index > 0 THEN s.snapshot_buf ELSE << >>
           commit == Smaller(m.leader_commit, last)
           a == [s EXCEPT !.commit_index = commit, !.app = restored,
                          !.last_applied = s.snapshot_last_included_index,
                          !.persist_dirty = TRUE]
           b == [s EXCEPT !.commit_index = commit, !.persist_dirty = TRUE]
           c == [s EXCEPT !.commit_index = last, !.persist_dirty = TRUE]
<1>1. UpdateCommit(s, m, rebuild) =
        IF rebuild THEN a ELSE IF m.leader_commit > s.commit_index THEN b
        ELSE IF s.commit_index > last THEN c ELSE s
  BY Zenon DEF UpdateCommit
<1>2. s.snapshot_last_included_index = 0 => restored = << >>
  OBVIOUS
<1> HIDE DEF commit, restored, last
<1>3. a.last_applied = s.snapshot_last_included_index /\ a.app = restored
  BY DEF Node
<1>4. b.last_applied = s.last_applied /\ b.app = s.app
  BY DEF Node
<1>5. c.last_applied = s.last_applied /\ c.app = s.app
  BY DEF Node
<1> HIDE DEF a, b, c
<1> QED
  BY <1>1, <1>2, <1>3, <1>4, <1>5, Zenon

\* A merge that replaces no applied entry leaves the applied entries in the log.
LEMMA MergeKeepsApplied ==
    ASSUME NEW s \in Node, NEW m \in Message, PrevMatches(s, m), ~ReplacesApplied(s, m),
           s.snapshot_last_included_index = 0, s.last_applied <= s.log_count
    PROVE  /\ s.last_applied <= MergedCount(s, m)
           /\ \A p \in 1..s.last_applied : MergedLog(s, m)[p] = s.log[p]
<1> DEFINE n == Len(m.entries)
           prev == m.prev_log_index
<1>1. /\ s.log_count \in Nat /\ prev \in Nat /\ n \in Nat /\ s.last_applied \in Nat
      /\ prev <= s.log_count /\ RAFT_MAX_LOG \in Nat /\ s.log_count <= RAFT_MAX_LOG
      /\ node_last_log_index(s) = s.log_count
  BY MergeNumbers, NodeFields DEF node_last_log_index
<1>2. ASSUME NEW k \in 1..n, Conflicts(s, m, k) PROVE prev + k > s.last_applied
  <2>1. ~(prev + k <= s.last_applied)
    BY <1>2, Zenon DEF ReplacesApplied
  <2> QED
    BY <1>1, <2>1
<1>3. s.last_applied <= MergedCount(s, m)
  <2>1. CASE ~LogChanges(s, m)
    BY <2>1 DEF MergedCount
  <2>2. CASE LogChanges(s, m)
    <3>1. prev + n >= s.last_applied
      <4>1. CASE \E k \in 1..n : Conflicts(s, m, k)
        <5>1. PICK k \in 1..n : Conflicts(s, m, k)
          BY <4>1
        <5>2. prev + k > s.last_applied
          BY <1>2, <5>1
        <5> QED
          BY <1>1, <5>2
      <4>2. CASE prev + n > node_last_log_index(s)
        BY <1>1, <4>2
      <4> QED
        BY <2>2, <4>1, <4>2, Zenon DEF LogChanges
    <3>2. MergedCount(s, m) = Smaller(RAFT_MAX_LOG, prev + n - s.snapshot_last_included_index)
      BY <2>2, Zenon DEF MergedCount
    <3>3. prev + n - s.snapshot_last_included_index = prev + n
      BY <1>1
    <3> HIDE DEF prev, n
    <3> QED
      BY <1>1, <3>1, <3>2, <3>3 DEF Smaller
  <2> QED
    BY <2>1, <2>2
<1>4. ASSUME NEW p \in 1..s.last_applied PROVE MergedLog(s, m)[p] = s.log[p]
  <2> DEFINE k == s.snapshot_last_included_index + p - prev
  <2>1. p \in 1..RAFT_MAX_LOG /\ ~(p > s.log_count) /\ k = p - prev
    BY <1>1
  <2>2. \/ MergedLog(s, m)[p] = s.log[p]
        \/ k \in 1..n /\ (p > s.log_count \/ \E j \in 1..k : Conflicts(s, m, j))
    BY <2>1, MergedSlot, Zenon
  <2>3. ASSUME k \in 1..n, NEW j \in 1..k, Conflicts(s, m, j) PROVE FALSE
    <3>1. j \in 1..n /\ prev + j <= s.last_applied
      BY <1>1, <2>1, <2>3
    <3>2. prev + j > s.last_applied
      BY <1>2, <2>3, <3>1
    <3> QED
      BY <1>1, <3>1, <3>2
  <2> QED
    BY <2>1, <2>2, <2>3
<1> QED
  BY <1>3, <1>4

\* An application that has seen nothing.
LEMMA NothingApplied ==
    ASSUME NEW t \in Node, t.last_applied = 0, t.app = << >>
    PROVE  Truthful(t)
<1>1. AppliedCommands(t) = {}
  BY DEF AppliedCommands
<1>2. Cardinality({}) = 0 /\ Len(<< >>) = 0 /\ 0 <= t.log_count
  BY FS_EmptySet, NodeFields, LimitAssumption
<1> QED
  BY <1>1, <1>2 DEF Truthful

\* Merging the entries of a leader, and rebuilding the application if one was applied.
LEMMA MergeTruthful ==
    ASSUME NEW s \in Node, NEW m \in Message, PrevMatches(s, m),
           s.snapshot_last_included_index = 0, Truthful(s)
    PROVE  Truthful(node_append_entries_from_leader(s, m))
<1> DEFINE e == MergeEntries(s, m)
           rebuild == ReplacesApplied(s, m)
           t == UpdateCommit(e, m, rebuild)
<1>1. e \in Node /\ rebuild \in BOOLEAN
  BY MergeType DEF ReplacesApplied
<1>2. t = node_append_entries_from_leader(s, m)
  BY Zenon DEF node_append_entries_from_leader
<1>3. /\ e.log = MergedLog(s, m) /\ e.log_count = MergedCount(s, m)
      /\ e.snapshot_last_included_index = s.snapshot_last_included_index
      /\ e.last_applied = s.last_applied /\ e.app = s.app
  BY DEF MergeEntries, Node
<1> HIDE DEF e
<1>4. ~rebuild => /\ s.last_applied <= MergedCount(s, m)
                  /\ \A p \in 1..s.last_applied : MergedLog(s, m)[p] = s.log[p]
  BY MergeKeepsApplied DEF Truthful
<1> HIDE DEF rebuild
<1>5. t \in Node /\ t.log = e.log /\ t.log_count = e.log_count
  BY <1>1, UpdateCommitType, UpdateCommitFields
<1>6. /\ rebuild /\ e.snapshot_last_included_index = 0 => t.last_applied = 0 /\ t.app = << >>
      /\ ~rebuild => t.last_applied = e.last_applied /\ t.app = e.app
  BY <1>1, UpdateCommitApplied
<1> HIDE DEF t
<1>7. CASE rebuild
  BY <1>2, <1>3, <1>5, <1>6, <1>7, NothingApplied
<1>8. CASE ~rebuild
  <2>1. /\ t.last_applied = s.last_applied /\ t.app = s.app /\ s.last_applied <= t.log_count
        /\ \A p \in 1..s.last_applied : t.log[p] = s.log[p]
    BY <1>3, <1>4, <1>5, <1>6, <1>8, Zenon
  <2>2. Truthful(t)
    BY <2>1, SameTruth, Zenon
  <2> QED
    BY <1>2, <2>2
<1> QED
  BY <1>1, <1>7, <1>8

\* A merge takes over the lists that the message names.
LEMMA MergeRepeats ==
    ASSUME NEW s \in Node, NEW m \in Message, m \in net, PrevMatches(s, m)
    PROVE  Repeats(s, node_append_entries_from_leader(s, m))
<1> DEFINE e == MergeEntries(s, m)
           rebuild == ReplacesApplied(s, m)
           t == UpdateCommit(e, m, rebuild)
<1>1. e \in Node /\ rebuild \in BOOLEAN
  BY MergeType DEF ReplacesApplied
<1>2. t = node_append_entries_from_leader(s, m)
  BY Zenon DEF node_append_entries_from_leader
<1>3. /\ e.log = MergedLog(s, m) /\ e.outbox = s.outbox /\ e.config_state = s.config_state
      /\ e.requested_membership = s.requested_membership
      /\ e.requested_membership_pending = s.requested_membership_pending
  BY DEF MergeEntries, Node
<1> HIDE DEF e, rebuild
<1>4. /\ t.log = e.log /\ t.outbox = e.outbox /\ t.config_state = e.config_state
      /\ t.requested_membership = e.requested_membership
      /\ t.requested_membership_pending = e.requested_membership_pending
  BY <1>1, UpdateCommitFields
<1> HIDE DEF t
<1>5. ASSUME NEW L, Hears(L), Speaks(L, s) PROVE Speaks(L, t)
  <2>1. ASSUME NEW p \in 1..RAFT_MAX_LOG PROVE Named(L, t.log[p].command)
    <3>1. CASE t.log[p] = s.log[p]
      BY <1>5, <3>1, Zenon DEF Speaks
    <3>2. CASE \E k \in 1..Len(m.entries) : t.log[p] = m.entries[k]
      BY <1>5, <3>2, Zenon DEF Hears, Spoken
    <3>3. \/ MergedLog(s, m)[p] = s.log[p]
          \/ \E k \in 1..Len(m.entries) : MergedLog(s, m)[p] = m.entries[k]
      BY MergedSlot, Zenon
    <3> QED
      BY <1>3, <1>4, <3>1, <3>2, <3>3, Zenon
  <2> QED
    BY <1>3, <1>4, <1>5, <2>1, Zenon DEF Speaks
<1>6. Repeats(s, t)
  BY <1>5, Zenon DEF Repeats
<1> QED
  BY <1>2, <1>6

\* node_handle_append_entries, of a node that ends as a follower.
LEMMA AppendEntriesKeeps ==
    ASSUME NEW s \in Node, NEW m \in Message, m \in net
    PROVE  LET f == [node_handle_append_entries(s, m) EXCEPT !.role = "FOLLOWER"]
           IN  f \in Node /\ Keeps(s, f)
<1> DEFINE t  == node_handle_term_update(s, m)
           l  == [t EXCEPT !.leader_id = m.source]
           ok == m.term = t.current_term /\ PrevMatches(l, m)
           w  == node_append_entries_from_leader(l, m)
           u  == IF m.term # t.current_term THEN t ELSE IF ok THEN w ELSE l
           response == [ZeroMessage EXCEPT
                          !.kind = "APPEND_ENTRIES_RESPONSE", !.term = u.current_term,
                          !.success = ok, !.match_index = node_last_log_index(u),
                          !.source = s.id, !.target = m.source]
           v == node_queue_message(u, response)
           f == [v EXCEPT !.role = "FOLLOWER"]
           Tells(a, b) == /\ b.id = a.id /\ SameSnapshot(a, b) /\ b.config_state = a.config_state
                          /\ Repeats(a, b)
                          /\ a.snapshot_last_included_index = 0 /\ Truthful(a) => Truthful(b)
<1>0. ASSUME NEW a, NEW b, NEW c, Tells(a, b), Tells(b, c) PROVE Tells(a, c)
  BY <1>0, Zenon DEF SameSnapshot, Repeats
<1>1. t \in Node /\ Tells(s, t)
  BY TermUpdateType, TermUpdateHandled, TermUpdateSteady, HandledKeeps DEF Steady, Keeps
<1>2. l \in Node /\ Tells(t, l)
  <2> HIDE DEF t
  <2>1. l \in Node
    BY <1>1, MessageFields, Zenon DEF Node
  <2>2. /\ Calm(t, l) /\ SameApplied(t, l) /\ l.role = t.role
    BY <1>1, NodeFields DEF Calm, SameSnapshot, SameApplied, Node
  <2> HIDE DEF l
  <2>3. Grows(t, l) /\ Repeats(t, l)
    BY <1>1, <2>2, SameLogGrows, CalmRepeats, Zenon DEF Calm
  <2>4. Keeps(t, l)
    BY <1>1, <2>1, <2>2, <2>3, GrowsKeeps, Zenon DEF Calm
  <2> QED
    BY <2>1, <2>4, Zenon DEF Keeps
<1>3. ASSUME ok PROVE w \in Node /\ Tells(l, w)
  <2> HIDE DEF t, l
  <2>1. w = UpdateCommit(MergeEntries(l, m), m, ReplacesApplied(l, m))
    BY Zenon DEF node_append_entries_from_leader
  <2>2. MergeEntries(l, m) \in Node /\ ReplacesApplied(l, m) \in BOOLEAN
    BY <1>2, <1>3, MergeType DEF ReplacesApplied
  <2>3. w \in Node
    BY <2>1, <2>2, UpdateCommitType
  <2>4. w.id = l.id /\ SameSnapshot(l, w) /\ w.config_state = l.config_state
    <3> DEFINE e == MergeEntries(l, m)
               rebuild == ReplacesApplied(l, m)
    <3>1. e.id = l.id /\ SameSnapshot(l, e) /\ e.config_state = l.config_state
      BY <1>2 DEF MergeEntries, SameSnapshot, Node
    <3> HIDE DEF e, rebuild
    <3>2. /\ UpdateCommit(e, m, rebuild).id = e.id
          /\ UpdateCommit(e, m, rebuild).config_state = e.config_state
          /\ SameSnapshot(e, UpdateCommit(e, m, rebuild))
      BY <2>2, UpdateCommitFields DEF e, rebuild
    <3>3. w = UpdateCommit(e, m, rebuild)
      BY <2>1 DEF e, rebuild
    <3> HIDE DEF w
    <3> QED
      BY <3>1, <3>2, <3>3, Zenon DEF SameSnapshot
  <2>5. l.snapshot_last_included_index = 0 /\ Truthful(l) => Truthful(w)
    BY <1>2, <1>3, MergeTruthful
  <2>6. Repeats(l, w)
    BY <1>2, <1>3, MergeRepeats
  <2> QED
    BY <2>3, <2>4, <2>5, <2>6
<1>4. u \in Node /\ Tells(s, u)
  <2>1. u \in {t, l} \/ (ok /\ u = w)
    BY Zenon
  <2> HIDE DEF t, l, u, w, ok, Tells
  <2>2. Tells(s, l)
    BY <1>0, <1>1, <1>2, Zenon
  <2>3. ok => w \in Node /\ Tells(s, w)
    BY <1>0, <1>3, <2>2, Zenon
  <2> QED
    BY <1>1, <1>2, <2>1, <2>2, <2>3, Zenon
<1>5. v = node_handle_append_entries(s, m)
  BY Zenon DEF node_handle_append_entries
<1>6. v \in Node
  BY <1>5, AppendEntriesType
<1> HIDE DEF t, u, response, Tells
<1>7. Tells(u, v)
  <2>1. Calm(u, v) /\ SameApplied(u, v)
    <3>1. response.entries = << >>
      <4> HIDE DEF ok
      <4> QED
        BY DEF response, ZeroMessage
    <3> QED
      BY <1>4, <3>1, NoEntriesQuotes, QueueSteady DEF Steady
  <2>2. v.role = u.role
    BY <1>4 DEF node_queue_message, Node
  <2> HIDE DEF v
  <2>3. Grows(u, v) /\ Repeats(u, v)
    BY <1>4, <2>1, <2>2, SameLogGrows, CalmRepeats, Zenon DEF Calm
  <2>4. Keeps(u, v)
    BY <1>4, <1>6, <2>1, <2>2, <2>3, GrowsKeeps, Zenon DEF Calm
  <2> QED
    BY <2>4, Zenon DEF Keeps, Tells
<1> HIDE DEF v
<1>8. f \in Node /\ Keeps(v, f) /\ f.role = "FOLLOWER"
  BY <1>6, StepDownKeeps
<1> HIDE DEF f
<1>9. Tells(s, f)
  <2>1. Tells(v, f)
    BY <1>8, Zenon DEF Keeps, Tells
  <2> QED
    BY <1>0, <1>4, <1>7, <2>1
<1>10. Keeps(s, f)
  BY <1>8, <1>9, Zenon DEF Keeps, Tells, Rightful
<1> QED
  BY <1>5, <1>8, <1>10, Zenon DEF f

-----------------------------------------------------------------------------
(* Rows and ticks.                                                         *)

\* Every row of RAFT_TRANSITIONS.
LEMMA RowKeeps ==
    ASSUME TypeOK, NEW n \in Server, NEW s \in Node, NEW r \in SUBSET net, Transition(n, s, r)
    PROVE  \E t \in Node : Keeps(s, t) /\ Dump(n, t, r)
<1>0. \A m \in r : m \in Message /\ m \in net
  BY DEF TypeOK
<1>a. ASSUME NEW t \in Node, Handled(s, t), Steady(s, t), Dump(n, t, r)
      PROVE  \E u \in Node : Keeps(s, u) /\ Dump(n, u, r)
  BY <1>a, HandledKeeps, Zenon DEF Steady
<1>1. CASE BecomeCandidate(n, s, r)
  <2> DEFINE t == action_become_candidate(s)
  <2>1. t \in Node
    BY BecomeCandidateType
  <2>2. Calm(s, t) /\ SameApplied(s, t) /\ Repeats(s, t)
    <3>1. Calm(s, t) /\ SameApplied(s, t) /\ Acted(s, t)
      BY BecomeCandidateCalm, BecomeCandidateActed
    <3> HIDE DEF t
    <3> QED
      BY <3>1, CalmRepeats, Zenon DEF Acted, Preserves
  <2>3. Dump(n, t, r) /\ node_self_is_member(s)
    BY <1>1, Zenon DEF BecomeCandidate, guard_timeout_expired
  <2> HIDE DEF t
  <2>4. Keeps(s, t)
    <3>1. Grows(s, t)
      BY <2>2, SameLogGrows, Zenon DEF Calm
    <3> QED
      BY <2>1, <2>2, <2>3, <3>1, GrowsKeeps, Zenon DEF Calm
  <2> QED
    BY <2>1, <2>3, <2>4
<1>2. CASE BackToFollower(n, s, r)
  BY <1>2, <1>a, BackToFollowerType, BackToFollowerHandled, BackToFollowerSteady, Zenon
     DEF BackToFollower
<1>3. CASE BecomeLeader(n, s, r)
  <2> DEFINE t == action_become_leader(s)
  <2>1. t \in Node
    BY BecomeLeaderType
  <2>2. Calm(s, t) /\ SameApplied(s, t) /\ Repeats(s, t)
    <3>1. Calm(s, t) /\ SameApplied(s, t) /\ Acted(s, t)
      BY BecomeLeaderCalm, BecomeLeaderActed
    <3> HIDE DEF t
    <3> QED
      BY <3>1, CalmRepeats, Zenon DEF Acted, Preserves
  <2>3. Dump(n, t, r) /\ s.role = "CANDIDATE"
    BY <1>3, Zenon DEF BecomeLeader
  <2> HIDE DEF t
  <2>4. Rightful(s) => node_self_is_member(s)
    BY <2>3 DEF Rightful
  <2>5. Keeps(s, t)
    <3>1. Grows(s, t)
      BY <2>2, SameLogGrows, Zenon DEF Calm
    <3> QED
      BY <2>1, <2>2, <2>4, <3>1, GrowsKeeps, Zenon DEF Calm
  <2> QED
    BY <2>1, <2>3, <2>5
<1>4. CASE HandleAppendEntries(n, s, r)
  <2>1. PICK m \in Pending(r, "APPEND_ENTRIES") :
          Dump(n, [node_handle_append_entries(s, m) EXCEPT !.role = "FOLLOWER"], r)
    BY <1>4, Zenon DEF HandleAppendEntries
  <2>2. m \in Message /\ m \in net
    BY <1>0, <2>1, Zenon DEF Pending
  <2> DEFINE f == [node_handle_append_entries(s, m) EXCEPT !.role = "FOLLOWER"]
  <2>3. f \in Node /\ Keeps(s, f)
    BY <2>2, AppendEntriesKeeps
  <2> QED
    BY <2>1, <2>3, Zenon
<1>5. CASE HandleHigherVoteRequest(n, s, r)
  <2>1. PICK m \in Pending(r, "REQUEST_VOTE") :
          Dump(n, [node_handle_vote_request(s, m) EXCEPT !.role = "FOLLOWER"], r)
    BY <1>5, Zenon DEF HandleHigherVoteRequest
  <2>2. m \in Message
    BY <1>0, <2>1, Zenon DEF Pending
  <2> DEFINE t == node_handle_vote_request(s, m)
             f == [t EXCEPT !.role = "FOLLOWER"]
  <2>3. t \in Node /\ Keeps(s, t)
    BY <2>2, VoteRequestType, VoteRequestHandled, VoteRequestSteady, HandledKeeps DEF Steady
  <2> HIDE DEF t
  <2>4. f \in Node /\ Keeps(t, f)
    BY <2>3, StepDownKeeps
  <2> HIDE DEF f
  <2>5. Keeps(s, f)
    BY <2>3, <2>4, KeepsTransitive
  <2> QED
    BY <2>1, <2>4, <2>5, Zenon DEF t, f
<1>6. CASE HandleVoteRequest(n, s, r)
  <2>1. PICK m \in Pending(r, "REQUEST_VOTE") :
          Dump(n, IF s.role = "LEADER" THEN s ELSE node_handle_vote_request(s, m), r)
    BY <1>6, Zenon DEF HandleVoteRequest
  <2>2. m \in Message
    BY <1>0, <2>1, Zenon DEF Pending
  <2>3. CASE s.role = "LEADER"
    BY <1>a, <2>1, <2>3, HandledReflexive, SteadyReflexive, Zenon
  <2>4. CASE s.role # "LEADER"
    BY <1>a, <2>1, <2>2, <2>4, VoteRequestType, VoteRequestHandled, VoteRequestSteady, Zenon
  <2> QED
    BY <2>3, <2>4
<1>7. CASE HandleVote(n, s, r)
  <2>1. PICK m \in Pending(r, "REQUEST_VOTE_RESPONSE") :
          Dump(n, IF s.role = "CANDIDATE" THEN node_handle_vote_response(s, m) ELSE s, r)
    BY <1>7, Zenon DEF HandleVote
  <2>2. m \in Message
    BY <1>0, <2>1, Zenon DEF Pending
  <2>3. CASE s.role = "CANDIDATE"
    BY <1>a, <2>1, <2>2, <2>3, VoteResponseType, VoteResponseHandled, VoteResponseSteady, Zenon
  <2>4. CASE s.role # "CANDIDATE"
    BY <1>a, <2>1, <2>4, HandledReflexive, SteadyReflexive, Zenon
  <2> QED
    BY <2>3, <2>4
<1>8. CASE SendHeartbeat(n, s, r)
  BY <1>8, <1>a, BroadcastType, BroadcastHandled, BroadcastSteady, Zenon DEF SendHeartbeat
<1>9. CASE NoTransition(n, s, r)
  BY <1>9, <1>a, HandledReflexive, SteadyReflexive, Zenon DEF NoTransition
<1> QED
  BY <1>1, <1>2, <1>3, <1>4, <1>5, <1>6, <1>7, <1>8, <1>9, Zenon DEF Transition

\* The dump that follows a row.
LEMMA DumpKeeps ==
    ASSUME NEW n \in Server, NEW s \in Node, NEW t \in Node, Keeps(s, t), NEW r, Dump(n, t, r)
    PROVE  \E u \in Node :
              /\ Keeps(s, u)
              /\ \/ node' = [node EXCEPT ![n] = u] /\ UNCHANGED <<disk, net>> /\ tick'.node = n
                 \/ \E received : FinishDump(n, u, received)
<1> DEFINE u == Advanced(t)
<1>1. u \in Node /\ Handled(t, u) /\ Calm(t, u) /\ SameApplied(t, u)
  BY AdvancedType, AdvancedHandled, AdvancedSteady DEF Steady
<1>2. \/ node' = [node EXCEPT ![n] = u] /\ UNCHANGED <<disk, net>> /\ tick'.node = n
      \/ \E received : FinishDump(n, u, received)
  <2>1. ASSUME NEW q, tick' = [node |-> n, step |-> "dump", received |-> q] PROVE tick'.node = n
    BY <2>1
  <2> QED
    BY <2>1, Zenon DEF Dump
<1> HIDE DEF u
<1>3. Keeps(s, u)
  BY <1>1, HandledKeeps, KeepsTransitive
<1> QED
  BY <1>1, <1>2, <1>3

\* Every step of a node's tick: it applies an entry, or keeps what the node has applied
\* and may end in the last step of the dump.
LEMMA TickKeeps ==
    ASSUME TypeOK, NEW n \in Server, Tick(n)
    PROVE  \/ ApplyEntry(n)
           \/ \E u \in Node :
                 /\ Keeps(node[n], u)
                 /\ \/ node' = [node EXCEPT ![n] = u] /\ UNCHANGED <<disk, net>> /\ tick'.node = n
                    \/ \E received : FinishDump(n, u, received)
<1>1. node[n] \in Node /\ net \in SUBSET Message
  BY DEF TypeOK
<1>2. CASE LatchResponse(n)
  <2>1. PICK m \in Inbox(n) :
          node' = [node EXCEPT ![n] = node_handle_append_entries_response(@, m)]
    BY <1>2, Zenon DEF LatchResponse
  <2> DEFINE t == node_handle_append_entries_response(node[n], m)
  <2>2. m \in Message
    BY <1>1, <2>1, Zenon DEF Inbox
  <2>3. t \in Node /\ Keeps(node[n], t)
    BY <1>1, <2>2, AppendEntriesResponseType, AppendEntriesResponseHandled,
       AppendEntriesResponseSteady, HandledKeeps DEF Steady
  <2>4. node' = [node EXCEPT ![n] = t] /\ UNCHANGED <<disk, net>>
    BY <1>2, <2>1, Zenon DEF LatchResponse, TypeOK
  <2>5. tick'.node = n
    BY <1>2 DEF LatchResponse
  <2> HIDE DEF t
  <2> QED
    BY <2>3, <2>4, <2>5
<1>3. CASE LatchAndRow(n)
  <2>1. PICK r \in Batches(n), commands \in Submitted(n) :
          Transition(n, Latched(node[n], r, commands), r)
    BY <1>3, Zenon DEF LatchAndRow
  <2>2. r \in SUBSET net
    <3>1. r \in SUBSET Inbox(n)
      BY <2>1, Zenon DEF Batches
    <3> QED
      BY <3>1, Zenon DEF Inbox
  <2>3. commands # << >> => commands \in Seq(ClientCommands) /\ commands \in Seq(Command)
    <3>1. commands = << >> \/ \E c \in ClientCommands : commands = <<c>>
      BY <2>1, Zenon DEF Submitted
    <3>2. ClientCommands \subseteq Command
      BY BoundAssumption, Zenon
    <3>3. ASSUME NEW c \in ClientCommands, c \in Command
          PROVE  <<c>> \in Seq(ClientCommands) /\ <<c>> \in Seq(Command)
      BY <3>3
    <3> QED
      BY <3>1, <3>2, <3>3, Zenon
  <2>4. r \in SUBSET Message
    BY <1>1, <2>2
  <2> DEFINE s == Latched(node[n], r, commands)
  <2>5. s \in Node /\ Keeps(node[n], s)
    BY <1>1, <2>3, <2>4, LatchedType, LatchedKeeps, Zenon
  <2> HIDE DEF s
  <2>6. PICK t \in Node : Keeps(s, t) /\ Dump(n, t, r)
    BY <2>1, <2>2, <2>5, RowKeeps DEF s
  <2>7. Keeps(node[n], t)
    BY <2>5, <2>6, KeepsTransitive
  <2> QED
    BY <1>1, <2>6, <2>7, DumpKeeps
<1>4. CASE FinishTick(n)
  BY <1>1, <1>4, KeepsReflexive, Zenon DEF FinishTick
<1> QED
  BY <1>2, <1>3, <1>4, Zenon DEF Tick

-----------------------------------------------------------------------------
(* Applying.                                                               *)

\* Internal commands do not reach the application.
LEMMA InternalKeepsApp ==
    ASSUME NEW s \in Node, NEW c \in Command
    PROVE  node_apply_command(s, c).app = IF IsAppCommand(c) THEN Append(s.app, c) ELSE s.app
<1>1. ApplySetMaxlog(s, c).app = s.app
  BY DEF ApplySetMaxlog, Node
<1>2. ApplyEnterJoint(s, c).app = s.app
  <2> DEFINE t == [s EXCEPT !.config_state = [old |-> @.old, new |-> c.members,
                                              index |-> s.last_applied],
                            !.membership_state = "JOINT",
                            !.joint_config_index = s.last_applied,
                            !.requested_membership = c.members,
                            !.requested_membership_pending = TRUE]
  <2>1. t.app = s.app
    BY DEF Node
  <2> HIDE DEF t
  <2> QED
    BY <2>1, Zenon DEF ApplyEnterJoint, t
<1>3. ApplyLeaveJoint(s, c).app = s.app
  <2> DEFINE t == [s EXCEPT !.config_state = [old |-> c.members, new |-> {},
                                              index |-> s.last_applied],
                            !.membership_state = "STABLE",
                            !.final_config_index = s.last_applied,
                            !.joint_config_index = 0,
                            !.requested_membership = {},
                            !.requested_membership_pending = FALSE]
             u == [t EXCEPT !.running = FALSE, !.leader_id = Nil,
                            !.votes_received = {}, !.role = "FOLLOWER"]
  <2>1. t.app = s.app
    BY DEF Node
  <2>2. u.app = s.app
    BY DEF Node
  <2>3. ApplyLeaveJoint(s, c) \in {s, t, u}
    <3> HIDE DEF u
    <3> QED
      BY Zenon DEF ApplyLeaveJoint, u
  <2> HIDE DEF t, u
  <2> QED
    BY <2>1, <2>2, <2>3
<1>4. [s EXCEPT !.app = Append(@, c)].app = Append(s.app, c)
  BY DEF Node
<1> QED
  BY <1>1, <1>2, <1>3, <1>4 DEF node_apply_command, IsAppCommand, InternalOp

\* ApplyNext first counts the entry.
LEMMA CountedType ==
    ASSUME NEW s \in Node, NEW i \in Nat
    PROVE  [s EXCEPT !.last_applied = i, !.persist_dirty = TRUE] \in Node
BY Zenon DEF Node

\* What applying the next entry of a log that is not compacted does.
LEMMA ApplyNextFields ==
    ASSUME NEW s \in Node, s.snapshot_last_included_index = 0, s.last_applied < s.log_count
    PROVE  LET t == ApplyNext(s)
               i == s.last_applied + 1
               c == s.log[i].command
           IN  /\ t.last_applied = i /\ t.log = s.log /\ t.log_count = s.log_count
               /\ t.app = IF IsAppCommand(c) THEN Append(s.app, c) ELSE s.app
<1> DEFINE i == s.last_applied + 1
           a == [s EXCEPT !.last_applied = i, !.persist_dirty = TRUE]
           c == LogEntryAt(s, i).command
           t == node_apply_command(a, c)
<1>1. /\ i \in Nat /\ s.last_applied \in Nat /\ s.log_count \in Nat
      /\ s.log_count <= RAFT_MAX_LOG /\ RAFT_MAX_LOG \in Nat
  BY NodeFields, LimitAssumption
<1>2. LogEntryAt(s, i) = s.log[i]
  <2>1. i - s.snapshot_last_included_index = i /\ i \in 1..RAFT_MAX_LOG
    BY <1>1
  <2> HIDE DEF i
  <2> QED
    BY <2>1, Zenon DEF LogEntryAt, node_physical_index
<1>3. a \in Node /\ c \in Command
  <2> HIDE DEF i
  <2>1. a \in Node
    BY <1>1, CountedType
  <2>2. c \in Command
    BY <1>1, LogEntryAtType DEF Entry
  <2> QED
    BY <2>1, <2>2
<1>4. a.last_applied = i /\ a.log = s.log /\ a.log_count = s.log_count /\ a.app = s.app
  <2> HIDE DEF i
  <2> QED
    BY DEF Node
<1>5. ApplyNext(s) = t
  BY Zenon DEF ApplyNext
<1> HIDE DEF a, i, c
<1>6. /\ Applied(a, t)
      /\ t.app = IF IsAppCommand(c) THEN Append(a.app, c) ELSE a.app
  BY <1>3, ApplyCommandApplied, InternalKeepsApp
<1> HIDE DEF t
<1>7. /\ t.last_applied = i /\ t.log = s.log /\ t.log_count = s.log_count
      /\ t.app = IF IsAppCommand(c) THEN Append(s.app, c) ELSE s.app
  BY <1>4, <1>6, Zenon DEF Applied
<1>8. c = s.log[i].command
  BY <1>2 DEF c
<1> QED
  BY <1>5, <1>7, <1>8, Zenon DEF i

\* The application sees the next command of the log.
LEMMA NextTruthful ==
    ASSUME NEW s \in Node, s.snapshot_last_included_index = 0, s.last_applied < s.log_count,
           Truthful(s)
    PROVE  Truthful(ApplyNext(s))
<1> DEFINE t == ApplyNext(s)
           i == s.last_applied + 1
           c == s.log[i].command
           P == AppliedCommands(s)
           Q == AppliedCommands(t)
           Upto(S, p) == {q \in S : q <= p}
<1>1. /\ t.last_applied = i /\ t.log = s.log /\ t.log_count = s.log_count
      /\ t.app = IF IsAppCommand(c) THEN Append(s.app, c) ELSE s.app
  BY ApplyNextFields
<1>2. s.last_applied \in Nat /\ s.log_count \in Nat /\ i <= s.log_count
  BY NodeFields, LimitAssumption
<1>3. /\ P \subseteq 1..s.last_applied
      /\ \A p : p \in P <=> p \in 1..s.last_applied /\ IsAppCommand(s.log[p].command)
      /\ \A p : p \in Q <=> p \in 1..i /\ IsAppCommand(s.log[p].command)
  BY <1>1 DEF AppliedCommands
<1>4. IsFiniteSet(P) /\ Cardinality(P) \in Nat
  <2>1. IsFiniteSet(1..s.last_applied)
    BY <1>2, FS_Interval
  <2> QED
    BY <1>3, <2>1, FS_Subset, FS_CardinalityType
<1>5. /\ Len(s.app) = Cardinality(P) /\ s.app \in Seq(Command)
      /\ \A p \in P : s.app[Cardinality(Upto(P, p))] = s.log[p].command
  BY NodeFields, Zenon DEF Truthful
<1> HIDE DEF t, P, Q
<1>6. CASE ~IsAppCommand(c)
  <2>1. Q = P
    <3>1. \A p : p \in 1..i <=> p \in 1..s.last_applied \/ p = i
      BY <1>2
    <3> QED
      BY <1>3, <1>6, <3>1, Zenon
  <2> QED
    BY <1>1, <1>2, <1>5, <1>6, <2>1 DEF Truthful, P, Q, t
<1>7. CASE IsAppCommand(c)
  <2>1. c \in Command
    <3>1. i \in 1..RAFT_MAX_LOG /\ s.log \in [1..RAFT_MAX_LOG -> Entry]
      BY <1>2, NodeFields, LimitAssumption
    <3>2. s.log[i] \in Entry
      BY <3>1, Zenon
    <3> QED
      BY <3>2 DEF Entry
  <2>2. Q = P \cup {i} /\ i \notin P
    <3>1. /\ \A p : p \in 1..i <=> p \in 1..s.last_applied \/ p = i
          /\ i \notin 1..s.last_applied
      BY <1>2
    <3> HIDE DEF i
    <3>2. \A p : p \in Q <=> p \in P \/ p = i
      BY <1>3, <1>7, <3>1, Zenon DEF c
    <3>3. i \notin P
      BY <1>3, <3>1, Zenon
    <3> QED
      BY <3>2, <3>3
  <2>3. Cardinality(Q) = Cardinality(P) + 1
    BY <1>4, <2>2, FS_AddElement
  <2> HIDE DEF c
  <2>4. /\ Len(t.app) = Len(s.app) + 1 /\ t.app[Len(s.app) + 1] = c
        /\ \A k \in 1..Len(s.app) : t.app[k] = s.app[k]
    BY <1>1, <1>5, <1>7, <2>1
  <2>5. Len(t.app) = Cardinality(Q)
    BY <1>5, <2>3, <2>4
  <2>6. ASSUME NEW p \in Q PROVE t.app[Cardinality(Upto(Q, p))] = s.log[p].command
    <3>1. CASE p = i
      <4>1. Upto(Q, p) = Q
        BY <1>2, <1>3, <2>2, <3>1
      <4> QED
        BY <1>5, <2>3, <2>4, <3>1, <4>1 DEF c
    <3>2. CASE p # i
      <4>1. p \in P
        BY <2>2, <2>6, <3>2
      <4>2. Upto(Q, p) = Upto(P, p)
        BY <1>2, <1>3, <2>2, <4>1
      <4>3. /\ Cardinality(Upto(P, p)) \in Nat /\ Cardinality(Upto(P, p)) <= Cardinality(P)
            /\ Cardinality(Upto(P, p)) # 0
        <5>1. Upto(P, p) \in SUBSET P /\ p \in Upto(P, p)
          BY <1>2, <1>3, <4>1
        <5> HIDE DEF Upto
        <5>2. IsFiniteSet(Upto(P, p)) /\ Cardinality(Upto(P, p)) <= Cardinality(P)
          BY <1>4, <5>1, FS_Subset
        <5> QED
          BY <5>1, <5>2, FS_CardinalityType, FS_EmptySet
      <4> HIDE DEF Upto
      <4>4. Cardinality(Upto(P, p)) \in 1..Len(s.app)
        BY <1>4, <1>5, <4>3
      <4>5. t.app[Cardinality(Upto(P, p))] = s.app[Cardinality(Upto(P, p))]
        BY <2>4, <4>4
      <4> QED
        BY <1>5, <4>1, <4>2, <4>5, Zenon
    <3> QED
      BY <3>1, <3>2
  <2>7. Truthful(t)
    BY <1>1, <1>2, <2>5, <2>6, Zenon DEF Truthful, Q
  <2> QED
    BY <2>7 DEF t
<1> QED
  BY <1>6, <1>7

-----------------------------------------------------------------------------
(* The application.                                                        *)

\* Every application is truthful, and no snapshot.bin is one of index 0, which a node
\* without snapshot would load.
ApplyInv == \A n \in Server : Truthful(node[n]) /\ disk[n].snapshot.index # 0

\* A step of node n.
LEMMA NodeApply ==
    ASSUME ApplyInv, NEW n \in Server,
           \A p \in Server \ {n} : node'[p] = node[p] /\ disk'[p] = disk[p],
           Truthful(node'[n]), disk'[n].snapshot.index # 0
    PROVE  ApplyInv'
<1>1. ASSUME NEW p \in Server PROVE Truthful(node'[p]) /\ disk'[p].snapshot.index # 0
  <2>1. CASE p = n
    BY <2>1, Zenon
  <2>2. CASE p # n
    <3>1. node'[p] = node[p] /\ disk'[p] = disk[p]
      BY <2>2, Zenon
    <3> QED
      BY <3>1, Zenon DEF ApplyInv
  <2> QED
    BY <2>1, <2>2
<1> QED
  BY <1>1, Zenon DEF ApplyInv

\* A step that changes the memory of node n only.
LEMMA MemoryApply ==
    ASSUME ApplyInv, TypeOK, NEW n \in Server, NEW t, Truthful(t),
           node' = [node EXCEPT ![n] = t], UNCHANGED disk
    PROVE  ApplyInv'
<1>1. /\ node'[n] = t /\ disk'[n] = disk[n]
      /\ \A p \in Server \ {n} : node'[p] = node[p] /\ disk'[p] = disk[p]
  BY Zenon DEF TypeOK
<1>2. Truthful(node'[n]) /\ disk'[n].snapshot.index # 0
  BY <1>1, Zenon DEF ApplyInv
<1> QED
  BY <1>1, <1>2, NodeApply, Zenon

\* The end of a dump that compacts nothing.
LEMMA FinishDumpApply ==
    ASSUME ApplyInv, TypeOK, NotCompacted, NotCompacted', NEW n \in Server,
           NEW s \in Node, Keeps(node[n], s), NEW received, FinishDump(n, s, received)
    PROVE  ApplyInv'
<1> DEFINE t == Compacted(s)
           d == DiskAfterCompaction(disk[n], s, t)
           f == raft_storage_node_save(d, t)
           saved == IF t.persist_dirty THEN f ELSE d
           sent == [t EXCEPT !.persist_dirty = FALSE, !.outbox = {}]
<1>1. disk[n] \in Disk /\ t \in Node
  BY CompactedType DEF TypeOK
<1>2. disk' = [disk EXCEPT ![n] = saved] /\ node' = [node EXCEPT ![n] = sent]
  BY Zenon DEF FinishDump
<1>3. Truthful(s) /\ s.snapshot_last_included_index = 0
  BY Zenon DEF ApplyInv, NotCompacted, Keeps, SameSnapshot
<1> HIDE DEF t
<1>4. /\ sent.log = t.log /\ sent.log_count = t.log_count /\ SameSnapshot(t, sent)
      /\ SameApplied(t, sent)
  BY <1>1 DEF SameSnapshot, SameApplied, Node
<1>5. /\ t.snapshot_last_included_index = s.snapshot_last_included_index => d = disk[n]
      /\ f.snapshot = d.snapshot
  BY <1>1, DumpedFiles
<1> HIDE DEF d, f, sent
<1>6. /\ node'[n] = sent /\ disk'[n] = saved
      /\ \A p \in Server \ {n} : node'[p] = node[p] /\ disk'[p] = disk[p]
  BY <1>2, Zenon DEF TypeOK
<1>7. t.snapshot_last_included_index = 0
  BY <1>4, <1>6, Zenon DEF NotCompacted, SameSnapshot
<1>8. t = node_maybe_drive_membership(s)
  BY <1>7, NothingCompacted DEF t
<1>9. Truthful(t)
  BY <1>3, <1>8, DriveMembershipKeeps DEF Keeps
<1>10. Truthful(sent)
  <2>1. t.last_applied <= sent.log_count
    BY <1>4, <1>9, Zenon DEF Truthful
  <2> QED
    BY <1>4, <1>9, <2>1, SameTruth, Zenon DEF SameApplied
<1>11. saved.snapshot.index # 0
  BY <1>3, <1>5, <1>7, Zenon DEF ApplyInv
<1>12. Truthful(node'[n]) /\ disk'[n].snapshot.index # 0
  BY <1>6, <1>10, <1>11, Zenon
<1> QED
  BY <1>6, <1>12, NodeApply, Zenon

\* Every step of a node's tick.
LEMMA TickApply ==
    ASSUME ApplyInv, TypeOK, LogInv, LogsSurvive, NotCompacted, NotCompacted', NEW n \in Server, Tick(n)
    PROVE  ApplyInv'
<1>1. node[n] \in Node /\ Truthful(node[n]) /\ node[n].snapshot_last_included_index = 0
  BY DEF TypeOK, ApplyInv, NotCompacted
<1>2. CASE ApplyEntry(n)
  <2> DEFINE t == ApplyNext(node[n])
  <2>1. /\ node' = [node EXCEPT ![n] = t] /\ UNCHANGED disk
        /\ node[n].last_applied < node[n].commit_index
    BY <1>2, Zenon DEF ApplyEntry, TypeOK
  <2>2. node[n].last_applied < node[n].log_count
    <3>1. node[n].commit_index <= node_last_log_index(node[n])
      BY Zenon DEF LogInv, Process, Sound
    <3>2. /\ node[n].last_applied \in Nat /\ node[n].commit_index \in Nat
          /\ node[n].log_count \in Nat
      BY <1>1, NodeFields, LimitAssumption
    <3> QED
      BY <1>1, <2>1, <3>1, <3>2 DEF node_last_log_index
  <2>3. Truthful(t)
    BY <1>1, <2>2, NextTruthful
  <2> HIDE DEF t
  <2> QED
    BY <2>1, <2>3, MemoryApply
<1>3. ASSUME NEW u \in Node, Keeps(node[n], u),
             \/ node' = [node EXCEPT ![n] = u] /\ UNCHANGED <<disk, net>> /\ tick'.node = n
             \/ \E received : FinishDump(n, u, received)
      PROVE  ApplyInv'
  <2>1. CASE node' = [node EXCEPT ![n] = u] /\ UNCHANGED <<disk, net>>
    <3>1. Truthful(u)
      BY <1>1, <1>3, Zenon DEF Keeps
    <3> QED
      BY <2>1, <3>1, MemoryApply
  <2>2. CASE \E received : FinishDump(n, u, received)
    BY <1>3, <2>2, FinishDumpApply
  <2> QED
    BY <1>3, <2>1, <2>2
<1> QED
  BY <1>2, <1>3, TickKeeps, Zenon

\* What is loaded if snapshot.bin is not the one meta.txt names.
LEMMA LoadedTruthful ==
    ASSUME NEW n, NEW d, NEW t \in Node, Loads(n, t, d),
           t.snapshot_last_included_index = 0, d.snapshot.index # 0
    PROVE  Truthful(t)
<1>1. ~SnapshotMatches(d)
  BY DEF Loads, SameSnapshot, SnapshotMatches
<1>2. t.last_applied = 0 /\ t.app = << >>
  BY <1>1, Zenon DEF Loads
<1> QED
  BY <1>2, NothingApplied

\* A crash: the application starts from nothing and will see the whole log again.
LEMMA FailApply ==
    ASSUME ApplyInv, TypeOK, LogsSurvive, NotCompacted, NotCompacted', NEW n \in Server, Fail(n)
    PROVE  ApplyInv'
<1> DEFINE s == node[n]
           t == Compacted(s)
           d == DiskAfterCompaction(disk[n], s, t)
           m == [d EXCEPT !.meta = write_meta(t)]
           f == raft_storage_node_save(d, t)
<1>1. s \in Node /\ disk[n] \in Disk /\ t \in Node
  BY CompactedType DEF TypeOK
<1>2. PICK e \in {disk[n], d, m, f} : Reboot(n, e)
  BY Zenon DEF Fail, Crash, CrashAfterSnapshot, CrashAfterMeta, CrashAfterSave, AllApplied, InTick
<1> HIDE DEF t
<1>3. /\ d \in Disk /\ m \in Disk /\ f \in Disk /\ f.snapshot = d.snapshot
      /\ t.snapshot_last_included_index = s.snapshot_last_included_index => d = disk[n]
      /\ t.snapshot_last_included_index # s.snapshot_last_included_index =>
            d.snapshot.index = t.snapshot_last_included_index
  BY <1>1, DumpedFiles
<1>4. m.snapshot = d.snapshot
  <2> HIDE DEF d
  <2> QED
    BY <1>3 DEF Disk
<1> HIDE DEF d, m, f, s
<1>5. d.snapshot.index # 0
  <2>1. s.snapshot_last_included_index = 0 /\ disk[n].snapshot.index # 0
    BY Zenon DEF ApplyInv, NotCompacted, s
  <2> QED
    BY <1>3, <2>1, Zenon
<1>6. e \in Disk /\ e.snapshot.index # 0
  BY <1>1, <1>2, <1>3, <1>4, <1>5, Zenon DEF ApplyInv
<1>7. n \notin Learners
  <2>1. crashes < MaxCrashes
    BY <1>2, Zenon DEF Reboot
  <2>2. MaxCrashes # 0
    BY <2>1, BoundAssumption DEF TypeOK
  <2> QED
    BY <2>2 DEF LogsSurvive
<1> DEFINE b == raft_node_init(n, e)
<1>8. node' = [node EXCEPT ![n] = b] /\ disk' = [disk EXCEPT ![n] = e]
  BY <1>2, Zenon DEF Reboot
<1>9. b \in Node /\ Loads(n, b, e)
  BY <1>6, <1>7, BootLoads, InitNodeType
<1> HIDE DEF b
<1>10. /\ node'[n] = b /\ disk'[n] = e
       /\ \A p \in Server \ {n} : node'[p] = node[p] /\ disk'[p] = disk[p]
  BY <1>8, Zenon DEF TypeOK
<1>11. b.snapshot_last_included_index = 0
  BY <1>10, Zenon DEF NotCompacted
<1>12. Truthful(b)
  BY <1>6, <1>9, <1>11, LoadedTruthful
<1>13. Truthful(node'[n]) /\ disk'[n].snapshot.index # 0
  BY <1>6, <1>10, <1>12, Zenon
<1> QED
  BY <1>10, <1>13, NodeApply, Zenon

\* The application's calls: a start loads the files, a reset also empties the application.
LEMMA CallApply ==
    ASSUME ApplyInv, TypeOK, LogInv, NotCompacted, NotCompacted', NEW n \in Server, Call(n)
    PROVE  ApplyInv'
<1>1. node[n] \in Node /\ disk[n] \in Disk /\ node[n].id = n
  BY DEF TypeOK, LogInv, Process
<1>2. Truthful(node[n]) /\ disk[n].snapshot.index # 0
  BY Zenon DEF ApplyInv
<1>3. ASSUME NEW t, t.log = node[n].log, t.log_count = node[n].log_count,
             t.last_applied = node[n].last_applied, t.app = node[n].app
      PROVE  Truthful(t)
  <2>1. node[n].last_applied <= t.log_count
    BY <1>2, <1>3, Zenon DEF Truthful
  <2> QED
    BY <1>2, <1>3, <2>1, SameTruth, Zenon
<1>4. CASE Stop(n)
  <2> DEFINE t == raft_node_stop(node[n])
  <2>1. node' = [node EXCEPT ![n] = t] /\ UNCHANGED disk
    BY <1>4, Zenon DEF Stop, TypeOK
  <2>2. t.log = node[n].log /\ t.log_count = node[n].log_count 
      /\ t.last_applied = node[n].last_applied /\ t.app = node[n].app
    BY <1>1 DEF raft_node_stop, Node
  <2> HIDE DEF t
  <2> QED
    BY <1>3, <2>1, <2>2, MemoryApply
<1>5. CASE RequestMembershipChange(n)
  <2>1. PICK members \in Memberships :
          node' = [node EXCEPT ![n].requested_membership = members,
                               ![n].requested_membership_pending = @ \/ members # {}]
    BY <1>5, Zenon DEF RequestMembershipChange
  <2> DEFINE t == [node[n] EXCEPT !.requested_membership = members,
                                  !.requested_membership_pending = @ \/ members # {}]
  <2>2. node' = [node EXCEPT ![n] = t]
    BY <2>1 DEF TypeOK
  <2>3. UNCHANGED disk
    BY <1>5, Zenon DEF RequestMembershipChange
  <2>4. t.log = node[n].log /\ t.log_count = node[n].log_count 
      /\ t.last_applied = node[n].last_applied /\ t.app = node[n].app
    BY <1>1 DEF Node
  <2> HIDE DEF t
  <2> QED
    BY <1>3, <2>2, <2>3, <2>4, MemoryApply
<1>6. CASE Start(n)
  <2> DEFINE t == raft_node_start(node[n], disk[n])
  <2>1. node' = [node EXCEPT ![n] = t] /\ UNCHANGED disk
    BY <1>6, Zenon DEF Start, TypeOK
  <2>2. t \in Node /\ Loads(n, t, disk[n])
    BY <1>1, StartType, StartLoads
  <2> HIDE DEF t
  <2>3. t.snapshot_last_included_index = 0
    <3>1. node'[n] = t
      BY <2>1, Zenon DEF TypeOK
    <3> QED
      BY <3>1, Zenon DEF NotCompacted
  <2>4. Truthful(t)
    BY <1>2, <2>2, <2>3, LoadedTruthful
  <2> QED
    BY <2>1, <2>4, MemoryApply
<1>7. CASE ResetForJoin(n)
  <2> DEFINE r == raft_node_reset_for_join(node[n])
             t == [r EXCEPT !.app = << >>]
             f == raft_storage_node_save(disk[n], r)
  <2>1. r \in Node
    BY <1>1, ResetType
  <2>2. node' = [node EXCEPT ![n] = t] /\ disk' = [disk EXCEPT ![n] = f]
    BY <1>7, Zenon DEF ResetForJoin, TypeOK
  <2>3. r.last_applied = 0
    <3> DEFINE g == Forget(node[n])
    <3>1. g \in Node
      BY <1>1, ForgetType
    <3>2. g.last_applied = 0
      BY <1>1 DEF Forget, Node
    <3>3. r = [g EXCEPT !.log = [p \in 1..RAFT_MAX_LOG |-> ZeroEntry],
                        !.leader_id = Nil, !.votes_received = {}, !.outbox = {},
                        !.learner = TRUE, !.membership_state = "STABLE",
                        !.running = TRUE, !.role = "FOLLOWER", !.persist_dirty = FALSE]
      BY Zenon DEF raft_node_reset_for_join
    <3> HIDE DEF g, r
    <3> QED
      BY <3>1, <3>2, <3>3 DEF Node
  <2>4. f.snapshot = disk[n].snapshot
    <3> HIDE DEF r
    <3> QED
      BY <1>1 DEF raft_storage_node_save, Disk
  <2> HIDE DEF r, f
  <2>5. t \in Node
    <3>1. << >> \in Seq(Command)
      OBVIOUS
    <3> QED
      BY <2>1, <3>1, Zenon DEF Node
  <2>6. t.last_applied = 0 /\ t.app = << >>
    BY <2>1, <2>3 DEF Node
  <2> HIDE DEF t
  <2>7. Truthful(t)
    BY <2>5, <2>6, NothingApplied
  <2>8. /\ node'[n] = t /\ disk'[n] = f
        /\ \A p \in Server \ {n} : node'[p] = node[p] /\ disk'[p] = disk[p]
    BY <2>2, Zenon DEF TypeOK
  <2>9. Truthful(node'[n]) /\ disk'[n].snapshot.index # 0
    BY <1>2, <2>4, <2>7, <2>8, Zenon
  <2> QED
    BY <2>8, <2>9, NodeApply, Zenon
<1> QED
  BY <1>4, <1>5, <1>6, <1>7, Zenon DEF Call

\* At first no application has seen anything.
LEMMA ApplyInvInit ==
    ASSUME Init
    PROVE  ApplyInv
<1>1. EmptyDisk \in Disk
  BY EmptyDiskType
<1>2. EmptyDisk.snapshot.index # 0 /\ ~SnapshotMatches(EmptyDisk)
  BY DEF EmptyDisk, NoMeta, NoSnapshot, SnapshotMatches
<1>3. ASSUME NEW n \in Server PROVE Truthful(raft_node_init(n, EmptyDisk))
  <2> DEFINE t == raft_node_init(n, EmptyDisk)
  <2>1. t \in Node
    BY <1>1, InitNodeType
  <2>2. t.last_applied = 0 /\ t.app = << >>
    <3>1. CASE n \in Learners
      BY <1>1, <1>2, <3>1, BootForgets
    <3>2. CASE n \notin Learners
      <4>1. Loads(n, t, EmptyDisk)
        BY <1>1, <3>2, BootLoads
      <4> HIDE DEF t
      <4> QED
        BY <1>2, <4>1, Zenon DEF Loads
    <3> QED
      BY <3>1, <3>2
  <2> HIDE DEF t
  <2>3. Truthful(t)
    BY <2>1, <2>2, NothingApplied
  <2> QED
    BY <2>3 DEF t
<1>4. ASSUME NEW n \in Server PROVE node[n] = raft_node_init(n, EmptyDisk) /\ disk[n] = EmptyDisk
  BY Zenon DEF Init
<1> QED
  BY <1>2, <1>3, <1>4, Zenon DEF ApplyInv

\* Every step keeps the applications truthful.
LEMMA ApplyInvStep ==
    ASSUME LogsSurvive, TypeOK, LogInv, ApplyInv, NotCompacted, NotCompacted', [Next]_vars
    PROVE  ApplyInv'
<1>1. ASSUME NEW n \in Server, Tick(n) \/ Fail(n) \/ Call(n) PROVE ApplyInv'
  BY <1>1, TickApply, FailApply, CallApply, Zenon
<1>2. CASE UNCHANGED vars
  BY <1>2, Zenon DEF vars, ApplyInv
<1>3. CASE QuietTicks
  BY <1>2, <1>3, Zenon DEF QuietTicks
<1> QED
  BY <1>1, <1>2, <1>3, Zenon DEF Next

\* As long as nothing is compacted, every application has seen exactly the application
\* commands of its own node's log up to last_applied, each once and in order: through merges
\* that replace applied entries (node_handle_append_entries moves last_applied back and
\* rebuild_applied_state starts over), restarts, resets and, if no learner crashes, crashes
\* anywhere in the dump.
THEOREM AppliedInOrder ==
    ASSUME LogsSurvive
    PROVE  Spec /\ []NotCompacted => []AppliedIsLogPrefix
<1>1. Init => LogInv /\ ApplyInv
  BY LogInvInit, ApplyInvInit
<1>2. TypeOK /\ LogInv /\ [Next]_vars => LogInv'
  BY LogInvStep
<1>3. TypeOK /\ LogInv /\ ApplyInv /\ NotCompacted /\ NotCompacted' /\ [Next]_vars => ApplyInv'
  BY ApplyInvStep
<1>4. ApplyInv => AppliedIsLogPrefix
  BY Zenon DEF ApplyInv, Truthful, AppliedIsLogPrefix
<1> QED
  BY <1>1, <1>2, <1>3, <1>4, TypeCorrect, PTL DEF Spec

-----------------------------------------------------------------------------
(* Membership.                                                             *)

\* A node that campaigns or leads in a joint configuration enters no other one: the
\* enter_joint entries it applies before the leave_joint name the same members.
NoOverlap ==
    \A n \in Server :
        LET old == node[n].config_state
            new == node'[n].config_state
        IN  node[n].role # "FOLLOWER" /\ configuration_is_joint(old) /\ configuration_is_joint(new)
                => new.new = old.new

\* A node with the same configuration that takes no role.
LEMMA SameMember ==
    ASSUME NEW s, NEW t, Rightful(s), t.id = s.id, t.config_state = s.config_state,
           t.role \in {s.role, "FOLLOWER"}
    PROVE  Rightful(t)
BY DEF Rightful, node_self_is_member

\* Applying a command.
LEMMA ApplyRightful ==
    ASSUME NEW s \in Node, NEW c \in Command, Rightful(s),
           LET t == node_apply_command(s, c)
           IN  /\ s.role # "FOLLOWER"
               /\ configuration_is_joint(s.config_state)
               /\ configuration_is_joint(t.config_state)
               => t.config_state.new = s.config_state.new
    PROVE  Rightful(node_apply_command(s, c))
<1> DEFINE t == node_apply_command(s, c)
<1>1. ASSUME NEW u, u = [s EXCEPT !.compaction_threshold = c.value] PROVE Rightful(u)
  <2>1. u.id = s.id /\ u.config_state = s.config_state /\ u.role = s.role
    BY <1>1 DEF Node
  <2> QED
    BY <2>1, SameMember, Zenon
<1>2. ASSUME NEW u, u = [s EXCEPT !.app = Append(@, c)] PROVE Rightful(u)
  <2>1. u.id = s.id /\ u.config_state = s.config_state /\ u.role = s.role
    BY <1>2 DEF Node
  <2> QED
    BY <2>1, SameMember, Zenon
<1>3. CASE c.op = "enter_joint"
  <2> DEFINE u == [s EXCEPT !.config_state = [old |-> @.old, new |-> c.members,
                                              index |-> s.last_applied],
                            !.membership_state = "JOINT",
                            !.joint_config_index = s.last_applied,
                            !.requested_membership = c.members,
                            !.requested_membership_pending = TRUE]
  <2>1. /\ u.id = s.id /\ u.role = s.role
        /\ u.config_state.old = s.config_state.old /\ u.config_state.new = c.members
    BY DEF Node
  <2>2. t = ApplyEnterJoint(s, c)
    BY <1>3 DEF node_apply_command
  <2> HIDE DEF t
  <2>3. \/ t = s
        \/ t = u /\ c.members # {}
    <3> HIDE DEF u
    <3> QED
      BY <2>2, Zenon DEF ApplyEnterJoint, u
  <2> HIDE DEF u
  <2>4. CASE t = u /\ c.members # {}
    <3>1. s.role # "FOLLOWER" /\ s.config_state.new # {} => c.members = s.config_state.new
      BY <2>1, <2>4 DEF configuration_is_joint, t
    <3> QED
      BY <2>1, <2>4, <3>1 DEF Rightful, node_self_is_member, t
  <2> QED
    BY <2>3, <2>4 DEF t
<1>4. CASE c.op = "leave_joint"
  <2> DEFINE u == [s EXCEPT !.config_state = [old |-> c.members, new |-> {},
                                              index |-> s.last_applied],
                            !.membership_state = "STABLE",
                            !.final_config_index = s.last_applied,
                            !.joint_config_index = 0,
                            !.requested_membership = {},
                            !.requested_membership_pending = FALSE]
             v == [u EXCEPT !.running = FALSE, !.leader_id = Nil,
                            !.votes_received = {}, !.role = "FOLLOWER"]
  <2>1. u.role = s.role
    BY DEF Node
  <2>2. v.role = "FOLLOWER"
    BY DEF Node
  <2>3. t = ApplyLeaveJoint(s, c)
    BY <1>4 DEF node_apply_command
  <2> HIDE DEF t
  <2>4. \/ t = s \/ t = v
        \/ t = u /\ ~(node_self_is_member(s) /\ ~node_self_is_member(u))
    <3> HIDE DEF v
    <3> QED
      BY <2>3, Zenon DEF ApplyLeaveJoint, v
  <2> HIDE DEF u, v
  <2> QED
    BY <2>1, <2>2, <2>4, Zenon DEF Rightful, t
<1>5. CASE c.op = "set_maxlog"
  <2>1. t = ApplySetMaxlog(s, c)
    BY <1>5 DEF node_apply_command
  <2> QED
    BY <1>1, <2>1, Zenon DEF ApplySetMaxlog
<1>6. CASE c.op \notin {"set_maxlog", "enter_joint", "leave_joint"}
  <2>1. t = [s EXCEPT !.app = Append(@, c)]
    BY <1>6, Zenon DEF node_apply_command
  <2> QED
    BY <1>2, <2>1, Zenon
<1> QED
  BY <1>3, <1>4, <1>5, <1>6

\* Compaction.
LEMMA CompactedRightful ==
    ASSUME NEW s \in Node, Rightful(s)
    PROVE  Rightful(Compacted(s))
<1> DEFINE t == node_maybe_drive_membership(s)
           u == node_do_compact(t)
<1>1. t \in Node /\ Rightful(t)
  BY DriveMembershipType, DriveMembershipKeeps DEF Keeps
<1> HIDE DEF t
<1>2. u.id = t.id /\ u.config_state = t.config_state /\ u.role = t.role
  BY <1>1 DEF node_do_compact, Node
<1> HIDE DEF u
<1>3. Rightful(u)
  BY <1>1, <1>2, SameMember, Zenon
<1> QED
  BY <1>1, <1>3, Zenon DEF Compacted, t, u

\* A step of node n alone.
LEMMA NodeRightful ==
    ASSUME TypeOK, OnlyMembersLead, NEW n \in Server, NEW t, node' = [node EXCEPT ![n] = t],
           Rightful(t)
    PROVE  OnlyMembersLead'
<1>1. ASSUME NEW p \in Server PROVE Rightful(node'[p])
  <2>1. CASE p = n
    <3>1. node'[n] = t
      BY Zenon DEF TypeOK
    <3> QED
      BY <2>1, <3>1, Zenon
  <2>2. CASE p # n
    <3>1. node'[p] = node[p]
      BY <2>2, Zenon DEF TypeOK
    <3> QED
      BY <3>1, Zenon DEF OnlyMembersLead, Rightful
  <2> QED
    BY <2>1, <2>2
<1> QED
  BY <1>1, Zenon DEF OnlyMembersLead, Rightful

\* Every step of a node's tick.
LEMMA TickRightful ==
    ASSUME TypeOK, OnlyMembersLead, NoOverlap, NEW n \in Server, Tick(n)
    PROVE  OnlyMembersLead'
<1>1. node[n] \in Node /\ Rightful(node[n])
  BY DEF TypeOK, OnlyMembersLead, Rightful
<1>2. CASE ApplyEntry(n)
  <2> DEFINE s == node[n]
             i == s.last_applied + 1
             a == [s EXCEPT !.last_applied = i, !.persist_dirty = TRUE]
             c == LogEntryAt(s, i).command
             t == node_apply_command(a, c)
  <2>1. node' = [node EXCEPT ![n] = ApplyNext(s)]
    BY <1>2, Zenon DEF ApplyEntry, TypeOK
  <2>2. ApplyNext(s) = t
    BY Zenon DEF ApplyNext
  <2>3. i \in Nat /\ s.last_applied \in Nat
    BY <1>1, NodeFields
  <2> HIDE DEF i
  <2>4. a \in Node /\ c \in Command
    <3>1. a \in Node
      BY <1>1, <2>3, CountedType
    <3>2. c \in Command
      BY <1>1, <2>3, LogEntryAtType DEF Entry
    <3> QED
      BY <3>1, <3>2
  <2>5. a.id = s.id /\ a.config_state = s.config_state /\ a.role = s.role
    BY <1>1 DEF Node
  <2> HIDE DEF a, c, t
  <2>6. node'[n] = t
    BY <2>1, <2>2, Zenon DEF TypeOK
  <2>7. Rightful(a)
    BY <1>1, <2>5, SameMember, Zenon
  <2>8. /\ a.role # "FOLLOWER"
        /\ configuration_is_joint(a.config_state)
        /\ configuration_is_joint(t.config_state)
        => t.config_state.new = a.config_state.new
    BY <2>5, <2>6, Zenon DEF NoOverlap
  <2>9. Rightful(t)
    BY <2>4, <2>7, <2>8, ApplyRightful DEF t
  <2> QED
    BY <2>1, <2>2, <2>9, NodeRightful
<1>3. ASSUME NEW u \in Node, Keeps(node[n], u),
             \/ node' = [node EXCEPT ![n] = u] /\ UNCHANGED <<disk, net>> /\ tick'.node = n
             \/ \E received : FinishDump(n, u, received)
      PROVE  OnlyMembersLead'
  <2>1. Rightful(u)
    BY <1>1, <1>3, Zenon DEF Keeps
  <2>2. CASE node' = [node EXCEPT ![n] = u] /\ UNCHANGED <<disk, net>>
    BY <2>1, <2>2, NodeRightful
  <2>3. CASE \E received : FinishDump(n, u, received)
    <3> DEFINE t == Compacted(u)
               sent == [t EXCEPT !.persist_dirty = FALSE, !.outbox = {}]
    <3>1. t \in Node /\ Rightful(t)
      BY <1>3, <2>1, CompactedType, CompactedRightful
    <3>2. node' = [node EXCEPT ![n] = sent]
      BY <2>3, Zenon DEF FinishDump
    <3> HIDE DEF t
    <3>3. sent.id = t.id /\ sent.config_state = t.config_state /\ sent.role = t.role
      BY <3>1 DEF Node
    <3> HIDE DEF sent
    <3>4. Rightful(sent)
      BY <3>1, <3>3, SameMember, Zenon
    <3> QED
      BY <3>2, <3>4, NodeRightful
  <2> QED
    BY <1>3, <2>2, <2>3
<1> QED
  BY <1>2, <1>3, TickKeeps, Zenon

\* A crash: a node boots as a follower.
LEMMA FailRightful ==
    ASSUME TypeOK, OnlyMembersLead, NEW n \in Server, Fail(n)
    PROVE  OnlyMembersLead'
<1> DEFINE s == node[n]
           t == Compacted(s)
           d == DiskAfterCompaction(disk[n], s, t)
           m == [d EXCEPT !.meta = write_meta(t)]
           f == raft_storage_node_save(d, t)
<1>1. s \in Node /\ disk[n] \in Disk /\ t \in Node
  BY CompactedType DEF TypeOK
<1>2. PICK e \in {disk[n], d, m, f} : Reboot(n, e)
  BY Zenon DEF Fail, Crash, CrashAfterSnapshot, CrashAfterMeta, CrashAfterSave, AllApplied, InTick
<1> HIDE DEF t
<1>3. d \in Disk /\ m \in Disk /\ f \in Disk
  BY <1>1, DumpedFiles
<1> HIDE DEF d, m, f, s
<1>4. e \in Disk
  BY <1>1, <1>2, <1>3
<1> DEFINE b == raft_node_init(n, e)
<1>5. node' = [node EXCEPT ![n] = b]
  BY <1>2, Zenon DEF Reboot
<1>6. b.role = "FOLLOWER"
  BY <1>4, BootLoads, BootForgets
<1> HIDE DEF b
<1>7. Rightful(b)
  BY <1>6, Zenon DEF Rightful
<1> QED
  BY <1>5, <1>7, NodeRightful

\* The application's calls: only a request for a change leaves a node its role.
LEMMA CallRightful ==
    ASSUME TypeOK, OnlyMembersLead, NEW n \in Server, Call(n)
    PROVE  OnlyMembersLead'
<1>1. node[n] \in Node /\ disk[n] \in Disk /\ Rightful(node[n])
  BY DEF TypeOK, OnlyMembersLead, Rightful
<1>2. ASSUME NEW t, node' = [node EXCEPT ![n] = t], t.role = "FOLLOWER" PROVE OnlyMembersLead'
  <2>1. Rightful(t)
    BY <1>2, Zenon DEF Rightful
  <2> QED
    BY <1>2, <2>1, NodeRightful
<1>3. CASE Stop(n)
  <2> DEFINE t == raft_node_stop(node[n])
  <2>1. node' = [node EXCEPT ![n] = t]
    BY <1>3, Zenon DEF Stop, TypeOK
  <2>2. t.role = "FOLLOWER"
    BY <1>1 DEF raft_node_stop, Node
  <2> HIDE DEF t
  <2> QED
    BY <1>2, <2>1, <2>2
<1>4. CASE RequestMembershipChange(n)
  <2>1. PICK members \in Memberships :
          node' = [node EXCEPT ![n].requested_membership = members,
                               ![n].requested_membership_pending = @ \/ members # {}]
    BY <1>4, Zenon DEF RequestMembershipChange
  <2> DEFINE t == [node[n] EXCEPT !.requested_membership = members,
                                  !.requested_membership_pending = @ \/ members # {}]
  <2>2. node' = [node EXCEPT ![n] = t]
    BY <2>1 DEF TypeOK
  <2>3. t.id = node[n].id /\ t.config_state = node[n].config_state /\ t.role = node[n].role
    BY <1>1 DEF Node
  <2> HIDE DEF t
  <2>4. Rightful(t)
    BY <1>1, <2>3, SameMember, Zenon
  <2> QED
    BY <2>2, <2>4, NodeRightful
<1>5. CASE Start(n)
  <2> DEFINE t == raft_node_start(node[n], disk[n])
  <2>1. node' = [node EXCEPT ![n] = t]
    BY <1>5, Zenon DEF Start, TypeOK
  <2>2. t.role = "FOLLOWER"
    BY <1>1, StartLoads
  <2> HIDE DEF t
  <2> QED
    BY <1>2, <2>1, <2>2
<1>6. CASE ResetForJoin(n)
  <2> DEFINE r == raft_node_reset_for_join(node[n])
             t == [r EXCEPT !.app = << >>]
  <2>1. node' = [node EXCEPT ![n] = t]
    BY <1>6, Zenon DEF ResetForJoin, TypeOK
  <2>2. r \in Node
    BY <1>1, ResetType
  <2>3. r.role = "FOLLOWER"
    <3> DEFINE g == Forget(node[n])
    <3>1. g \in Node
      BY <1>1, ForgetType
    <3>2. r = [g EXCEPT !.log = [p \in 1..RAFT_MAX_LOG |-> ZeroEntry],
                        !.leader_id = Nil, !.votes_received = {}, !.outbox = {},
                        !.learner = TRUE, !.membership_state = "STABLE",
                        !.running = TRUE, !.role = "FOLLOWER", !.persist_dirty = FALSE]
      BY Zenon DEF raft_node_reset_for_join
    <3> HIDE DEF g, r
    <3> QED
      BY <3>1, <3>2 DEF Node
  <2> HIDE DEF r
  <2>4. t.role = "FOLLOWER"
    BY <2>2, <2>3 DEF Node
  <2> HIDE DEF t
  <2> QED
    BY <1>2, <2>1, <2>4
<1> QED
  BY <1>3, <1>4, <1>5, <1>6, Zenon DEF Call

\* Only a member of its own configuration campaigns or leads, as long as no node passes from
\* one joint configuration to another while it does: a row gives no role to a node that is
\* not a member, and ApplyLeaveJoint takes it from a member that the new configuration leaves
\* out.  Crashes, resets, compaction and leaders that share a term do not matter.
THEOREM ExpelledStepsDown ==
    Spec /\ [][NoOverlap]_vars => []OnlyMembersLead
<1>1. ASSUME Init PROVE OnlyMembersLead
  <2>1. EmptyDisk \in Disk
    BY EmptyDiskType
  <2>2. ASSUME NEW n \in Server PROVE raft_node_init(n, EmptyDisk).role = "FOLLOWER"
    BY <2>1, BootLoads, BootForgets
  <2>3. ASSUME NEW n \in Server PROVE node[n] = raft_node_init(n, EmptyDisk)
    BY <1>1, Zenon DEF Init
  <2> QED
    BY <2>2, <2>3, Zenon DEF OnlyMembersLead
<1>2. ASSUME TypeOK, OnlyMembersLead, [Next]_vars, [NoOverlap]_vars PROVE OnlyMembersLead'
  <2>1. CASE UNCHANGED vars
    BY <1>2, <2>1, Zenon DEF vars, OnlyMembersLead
  <2>2. ASSUME NEW n \in Server, Tick(n) \/ Fail(n) \/ Call(n), NoOverlap PROVE OnlyMembersLead'
    BY <1>2, <2>2, TickRightful, FailRightful, CallRightful, Zenon
  <2>3. CASE QuietTicks
    BY <2>1, <2>3, Zenon DEF QuietTicks
  <2> QED
    BY <1>2, <2>1, <2>2, <2>3, Zenon DEF Next
<1> QED
  BY <1>1, <1>2, TypeCorrect, PTL DEF Spec

-----------------------------------------------------------------------------
(* The lists of members that entries, configurations and requests name.    *)

\* A node that changes its configuration or its request, if at all, to what it may name.
LEMMA SpeaksOn ==
    ASSUME NEW L, NEW s, NEW t, Speaks(L, s), t.log = s.log, t.outbox \in {s.outbox, {}},
           Formed(L, t.config_state), t.requested_membership \in L
    PROVE  Speaks(L, t)
<1>1. \A m \in t.outbox : Spoken(L, m)
  BY Zenon DEF Speaks
<1> QED
  BY <1>1, Zenon DEF Speaks

\* A node with the same configuration and the same request.
LEMMA SpeaksSame ==
    ASSUME NEW L, NEW s, NEW t, Speaks(L, s), t.log = s.log, t.outbox \in {s.outbox, {}},
           t.config_state = s.config_state, t.requested_membership = s.requested_membership
    PROVE  Speaks(L, t)
BY SpeaksOn, Zenon DEF Speaks

\* An applied command hands its own list on.
LEMMA ApplySpeaks ==
    ASSUME NEW L, {} \in L, NEW s \in Node, NEW c \in Command, Speaks(L, s), Named(L, c)
    PROVE  Speaks(L, node_apply_command(s, c))
<1> DEFINE t == node_apply_command(s, c)
<1>1. ASSUME NEW u, u.log = s.log, u.outbox = s.outbox,
             u.config_state = s.config_state, u.requested_membership = s.requested_membership
      PROVE  Speaks(L, u)
  BY <1>1, SpeaksSame, Zenon
<1>3. CASE c.op = "enter_joint"
  <2> DEFINE u == [s EXCEPT !.config_state = [old |-> @.old, new |-> c.members,
                                              index |-> s.last_applied],
                            !.membership_state = "JOINT",
                            !.joint_config_index = s.last_applied,
                            !.requested_membership = c.members,
                            !.requested_membership_pending = TRUE]
  <2>1. /\ u.log = s.log /\ u.outbox = s.outbox /\ u.requested_membership = c.members
        /\ u.config_state.old = s.config_state.old /\ u.config_state.new = c.members
    BY DEF Node
  <2>2. t = ApplyEnterJoint(s, c)
    BY <1>3 DEF node_apply_command
  <2> HIDE DEF t
  <2>3. t \in {s, u}
    <3> HIDE DEF u
    <3> QED
      BY <2>2, Zenon DEF ApplyEnterJoint, u
  <2> HIDE DEF u
  <2>4. c.members \in L
    BY <1>3, Zenon DEF Named
  <2>5. Formed(L, u.config_state)
    BY <2>1, <2>4, Zenon DEF Speaks, Formed
  <2>6. Speaks(L, u)
    BY <2>1, <2>4, <2>5, SpeaksOn, Zenon
  <2> QED
    BY <2>3, <2>6, Zenon DEF t
<1>4. CASE c.op = "leave_joint"
  <2> DEFINE u == [s EXCEPT !.config_state = [old |-> c.members, new |-> {},
                                              index |-> s.last_applied],
                            !.membership_state = "STABLE",
                            !.final_config_index = s.last_applied,
                            !.joint_config_index = 0,
                            !.requested_membership = {},
                            !.requested_membership_pending = FALSE]
             v == [u EXCEPT !.running = FALSE, !.leader_id = Nil,
                            !.votes_received = {}, !.role = "FOLLOWER"]
             Left(w) == /\ w.log = s.log /\ w.outbox = s.outbox
                        /\ w.config_state.old = c.members /\ w.config_state.new = {}
                        /\ w.requested_membership = {}
  <2>1. Left(u)
    BY DEF Node
  <2>2. Left(v)
    BY DEF Node
  <2>3. t = ApplyLeaveJoint(s, c)
    BY <1>4 DEF node_apply_command
  <2> HIDE DEF t
  <2>4. t \in {s, u, v}
    <3> HIDE DEF v
    <3> QED
      BY <2>3, Zenon DEF ApplyLeaveJoint, v
  <2> HIDE DEF u, v
  <2>5. ASSUME NEW w, Left(w) PROVE Speaks(L, w)
    <3>1. Formed(L, w.config_state)
      BY <1>4, <2>5 DEF Named, Formed
    <3> QED
      BY <2>5, <3>1, SpeaksOn, Zenon
  <2> QED
    BY <2>1, <2>2, <2>4, <2>5, Zenon DEF t
<1>5. CASE c.op = "set_maxlog"
  <2> DEFINE u == [s EXCEPT !.compaction_threshold = c.value]
  <2>1. Speaks(L, u)
    <3>1. /\ u.log = s.log /\ u.outbox = s.outbox
          /\ u.config_state = s.config_state /\ u.requested_membership = s.requested_membership
      BY DEF Node
    <3> HIDE DEF u
    <3> QED
      BY <1>1, <3>1, Zenon
  <2>2. t = ApplySetMaxlog(s, c)
    BY <1>5 DEF node_apply_command
  <2> QED
    BY <2>1, <2>2, Zenon DEF ApplySetMaxlog
<1>6. CASE c.op \notin {"set_maxlog", "enter_joint", "leave_joint"}
  <2> DEFINE u == [s EXCEPT !.app = Append(@, c)]
  <2>1. /\ u.log = s.log /\ u.outbox = s.outbox
        /\ u.config_state = s.config_state /\ u.requested_membership = s.requested_membership
    BY DEF Node
  <2>2. t = u
    BY <1>6, Zenon DEF node_apply_command
  <2> HIDE DEF u
  <2> QED
    BY <1>1, <2>1, <2>2, Zenon
<1> QED
  BY <1>3, <1>4, <1>5, <1>6

\* Applying the next entry, which is one of the log array or OutOfBounds.
LEMMA NextSpeaks ==
    ASSUME NEW L, {} \in L, NEW s \in Node, Hears(L), Speaks(L, s)
    PROVE  Speaks(L, ApplyNext(s))
<1> DEFINE i == s.last_applied + 1
           a == [s EXCEPT !.last_applied = i, !.persist_dirty = TRUE]
           c == LogEntryAt(s, i).command
           t == node_apply_command(a, c)
<1>1. i \in Nat
  BY NodeFields
<1>2. ApplyNext(s) = t
  BY Zenon DEF ApplyNext
<1> HIDE DEF i
<1>3. a \in Node /\ c \in Command
  <2>1. a \in Node
    BY <1>1, CountedType
  <2>2. c \in Command
    BY <1>1, LogEntryAtType DEF Entry
  <2> QED
    BY <2>1, <2>2
<1>4. Named(L, c)
  BY Zenon DEF LogEntryAt, Hears, Speaks
<1>5. /\ a.log = s.log /\ a.outbox = s.outbox
      /\ a.config_state = s.config_state /\ a.requested_membership = s.requested_membership
  BY DEF Node
<1> HIDE DEF a, c
<1>6. Speaks(L, a)
  BY <1>5, SpeaksSame, Zenon
<1>7. Speaks(L, t)
  BY <1>3, <1>4, <1>6, ApplySpeaks
<1> HIDE DEF t
<1> QED
  BY <1>2, <1>7, Zenon

\* Compaction moves entries within the array.
LEMMA DoCompactSpeaks ==
    ASSUME NEW L, NEW s \in Node, Compacts(s), Speaks(L, s)
    PROVE  Speaks(L, node_do_compact(s))
<1> DEFINE target == node_compactible_index(s)
           from == target - s.snapshot_last_included_index
           keep == s.log_count - from
           t == node_do_compact(s)
<1>1. target \in Nat /\ s.snapshot_last_included_index \in Nat /\ s.log_count \in 0..RAFT_MAX_LOG
  BY CompactibleType, NodeFields
<1>2. target > s.snapshot_last_included_index /\ target <= node_last_log_index(s)
  BY DEF Compacts
<1>3. from \in 1..s.log_count /\ keep \in 0..RAFT_MAX_LOG
  <2> HIDE DEF target
  <2> QED
    BY <1>1, <1>2, LimitAssumption DEF node_last_log_index
<1>4. ASSUME NEW p \in 1..RAFT_MAX_LOG PROVE \E q \in 1..RAFT_MAX_LOG : t.log[p] = s.log[q]
  <2>1. t.log[p] = IF p <= keep THEN s.log[p + from] ELSE s.log[p]
    BY DEF node_do_compact, Node
  <2> HIDE DEF t, from, target
  <2>2. p <= keep => p + from \in 1..RAFT_MAX_LOG
    BY <1>1, <1>3, LimitAssumption
  <2> HIDE DEF keep
  <2> QED
    BY <2>1, <2>2
<1>5. /\ t.outbox = s.outbox /\ t.config_state = s.config_state
      /\ t.requested_membership = s.requested_membership
  BY DEF node_do_compact, Node
<1> HIDE DEF t
<1>6. \A p \in 1..RAFT_MAX_LOG : Named(L, t.log[p].command)
  BY <1>4, Zenon DEF Speaks
<1>7. Speaks(L, t)
  BY <1>5, <1>6, Zenon DEF Speaks
<1> QED
  BY <1>7, Zenon DEF t

\* The membership driver and compaction.
LEMMA CompactedSpeaks ==
    ASSUME NEW L, NEW s \in Node, Hears(L), Speaks(L, s)
    PROVE  Speaks(L, Compacted(s))
<1> DEFINE u == node_maybe_drive_membership(s)
           v == node_do_compact(u)
<1>1. u \in Node /\ Repeats(s, u)
  BY DriveMembershipType, DriveMembershipKeeps DEF Keeps
<1> HIDE DEF u
<1>2. Speaks(L, u)
  BY <1>1, Zenon DEF Repeats
<1>3. Compacts(u) => Speaks(L, v)
  BY <1>1, <1>2, DoCompactSpeaks
<1> HIDE DEF v
<1> QED
  BY <1>2, <1>3, Zenon DEF Compacted, u, v

\* Files that name lists of L only.
Writes(L, d) ==
    /\ \A k \in 1..Len(d.log) : Named(L, d.log[k].command)
    /\ Formed(L, d.meta.config_state)

\* What a save writes.
LEMMA SavedWrites ==
    ASSUME NEW L, NEW s \in Node, Speaks(L, s), NEW d \in Disk
    PROVE  Writes(L, raft_storage_node_save(d, s))
<1> DEFINE f == raft_storage_node_save(d, s)
<1>1. f.log = write_log(s) /\ f.meta.config_state = s.config_state
  BY DEF raft_storage_node_save, write_meta, Disk
<1> HIDE DEF f
<1>2. s.log_count \in 0..RAFT_MAX_LOG /\ RAFT_MAX_LOG \in Nat
  BY NodeFields, LimitAssumption
<1>3. Len(write_log(s)) = s.log_count
  BY <1>2 DEF write_log
<1>4. ASSUME NEW k \in 1..Len(f.log) PROVE Named(L, f.log[k].command)
  <2>1. k \in 1..s.log_count /\ k \in 1..RAFT_MAX_LOG
    BY <1>1, <1>2, <1>3
  <2>2. f.log[k] = s.log[k]
    BY <1>1, <2>1 DEF write_log
  <2> QED
    BY <2>1, <2>2, Zenon DEF Speaks
<1>5. Writes(L, f)
  BY <1>1, <1>4, Zenon DEF Writes, Speaks
<1> QED
  BY <1>5, Zenon DEF f

\* What a load reads.
LEMMA LoadSpeaks ==
    ASSUME NEW L, NEW s \in Node, NEW d \in Disk, Writes(L, d),
           \A m \in s.outbox : Spoken(L, m), s.requested_membership \in L
    PROVE  Speaks(L, raft_storage_node_load(s, d))
<1> DEFINE t == raft_storage_node_load(s, d)
<1>1. /\ t.log = LoadedLog(d) /\ t.outbox = s.outbox /\ t.config_state = d.meta.config_state
      /\ t.requested_membership = s.requested_membership
  BY DEF raft_storage_node_load, Node
<1> HIDE DEF t
<1>2. ASSUME NEW p \in 1..RAFT_MAX_LOG PROVE Named(L, LoadedLog(d)[p].command)
  <2>1. Named(L, ZeroEntry.command)
    BY DEF Named, ZeroEntry, ZeroCommand
  <2>2. p <= LoadedCount(d) => p + SkippedLines(d) \in 1..Len(d.log)
    BY LoadedCountType, DiskFields, LimitAssumption
  <2>3. LoadedLog(d)[p] = IF p <= LoadedCount(d) THEN d.log[p + SkippedLines(d)] ELSE ZeroEntry
    BY DEF LoadedLog
  <2> QED
    BY <2>1, <2>2, <2>3, Zenon DEF Writes
<1>3. Speaks(L, t)
  BY <1>1, <1>2, Zenon DEF Speaks, Writes
<1> QED
  BY <1>3, Zenon DEF t

\* A node without members takes the configured ones.
LEMMA DefaultMembersSpeaks ==
    ASSUME NEW L, {} \in L, NEW s \in Node, Speaks(L, s)
    PROVE  Speaks(L, DefaultMembers(s))
<1> DEFINE u == [s EXCEPT !.config_state = [old |-> InitialMembers[s.id], new |-> {}, index |-> 0]]
<1>1. /\ u.log = s.log /\ u.outbox = s.outbox /\ u.config_state.new = {}
      /\ u.config_state.old = InitialMembers[s.id] /\ s.id \in Server
      /\ u.requested_membership = s.requested_membership
  BY DEF Node
<1> HIDE DEF u
<1>2. Formed(L, u.config_state)
  BY <1>1, Zenon DEF Formed
<1>3. Speaks(L, u)
  BY <1>1, <1>2, SpeaksOn, Zenon DEF Speaks
<1> QED
  BY <1>3, Zenon DEF DefaultMembers, u

\* A learner forgets what it loaded.
LEMMA ForgetSpeaks ==
    ASSUME NEW L, {} \in L, NEW s \in Node, Speaks(L, s)
    PROVE  Speaks(L, Forget(s))
<1> DEFINE t == Forget(s)
<1>1. /\ t.log = s.log /\ t.outbox = s.outbox /\ t.config_state = ZeroConfiguration
      /\ t.requested_membership = s.requested_membership
  BY DEF Forget, Node
<1> HIDE DEF t
<1>2. Formed(L, t.config_state)
  BY <1>1 DEF Formed, ZeroConfiguration
<1>3. Speaks(L, t)
  BY <1>1, <1>2, SpeaksOn, Zenon DEF Speaks
<1> QED
  BY <1>3, Zenon DEF t

\* A process that boots has no request.
LEMMA BootSpeaks ==
    ASSUME NEW L, {} \in L, NEW n \in Server, NEW d \in Disk, Writes(L, d)
    PROVE  Speaks(L, raft_node_init(n, d))
<1> DEFINE zero    == ZeroNode(n)
           loaded  == raft_storage_node_load(zero, d)
           checked == [loaded EXCEPT !.compaction_threshold = IF @ <= 0 THEN RAFT_MAX_LOG ELSE @]
           forgot  == Forget(checked)
           known   == IF n \in Learners THEN forgot ELSE checked
           s       == DefaultMembers(known)
           booted  == [s EXCEPT !.membership_state =
                          IF configuration_is_joint(s.config_state) THEN "JOINT" ELSE "STABLE"]
           Fit(t)  == t \in Node /\ Speaks(L, t)
<1>1. raft_node_init(n, d) = booted
  BY Zenon DEF raft_node_init
<1>2. zero \in Node /\ zero.outbox = {} /\ zero.requested_membership = {}
  BY ZeroNodeType DEF ZeroNode
<1> HIDE DEF zero
<1>3. Fit(loaded)
  <2>1. (\A m \in zero.outbox : Spoken(L, m)) /\ zero.requested_membership \in L
    BY <1>2
  <2> QED
    BY <1>2, <2>1, LoadSpeaks, LoadType
<1> HIDE DEF loaded
<1>4. Fit(checked)
  <2>1. checked \in Node
    <3>1. (IF loaded.compaction_threshold <= 0 THEN RAFT_MAX_LOG
           ELSE loaded.compaction_threshold) \in Nat
      BY <1>3, NodeFields, LimitAssumption
    <3> QED
      BY <1>3, <3>1, Zenon DEF Node
  <2>2. /\ checked.log = loaded.log /\ checked.outbox = loaded.outbox
        /\ checked.config_state = loaded.config_state
        /\ checked.requested_membership = loaded.requested_membership
    BY <1>3 DEF Node
  <2> HIDE DEF checked
  <2>3. Speaks(L, checked)
    BY <1>3, <2>2, SpeaksSame, Zenon
  <2> QED
    BY <1>3, <2>1, <2>2, <2>3, Zenon
<1> HIDE DEF checked
<1>5. Fit(forgot)
  BY <1>4, ForgetSpeaks, ForgetType
<1> HIDE DEF forgot
<1>6. Fit(known)
  BY <1>4, <1>5, Zenon
<1> HIDE DEF known
<1>7. Fit(s)
  BY <1>6, DefaultMembersSpeaks, DefaultMembersType
<1> HIDE DEF s
<1>8. /\ booted.log = s.log /\ booted.outbox = s.outbox /\ booted.config_state = s.config_state
      /\ booted.requested_membership = s.requested_membership
  BY <1>7 DEF Node
<1> HIDE DEF booted
<1>9. Speaks(L, booted)
  BY <1>7, <1>8, SpeaksSame, Zenon
<1> QED
  BY <1>1, <1>9, Zenon

\* raft_node_start keeps the request.
LEMMA StartSpeaks ==
    ASSUME NEW L, {} \in L, NEW s \in Node, Speaks(L, s), NEW d \in Disk, Writes(L, d)
    PROVE  Speaks(L, raft_node_start(s, d))
<1> DEFINE l == raft_storage_node_load(s, d)
           u == DefaultMembers(l)
           t == [u EXCEPT !.running = TRUE, !.role = "FOLLOWER"]
<1>1. raft_node_start(s, d) = t
  BY Zenon DEF raft_node_start
<1>2. (\A m \in s.outbox : Spoken(L, m)) /\ s.requested_membership \in L
  BY Zenon DEF Speaks
<1>3. l \in Node /\ Speaks(L, l)
  BY <1>2, LoadSpeaks, LoadType
<1> HIDE DEF l
<1>4. u \in Node /\ Speaks(L, u)
  BY <1>3, DefaultMembersSpeaks, DefaultMembersType
<1> HIDE DEF u
<1>5. /\ t.log = u.log /\ t.outbox = u.outbox /\ t.config_state = u.config_state
      /\ t.requested_membership = u.requested_membership
  BY <1>4 DEF Node
<1> HIDE DEF t
<1>6. Speaks(L, t)
  BY <1>4, <1>5, SpeaksSame, Zenon
<1> QED
  BY <1>1, <1>6, Zenon

\* raft_node_reset_for_join keeps the request too.
LEMMA ResetSpeaks ==
    ASSUME NEW L, {} \in L, NEW s \in Node, Speaks(L, s)
    PROVE  Speaks(L, raft_node_reset_for_join(s))
<1> DEFINE g == Forget(s)
           t == [g EXCEPT !.log = [p \in 1..RAFT_MAX_LOG |-> ZeroEntry],
                          !.leader_id = Nil, !.votes_received = {}, !.outbox = {},
                          !.learner = TRUE, !.membership_state = "STABLE",
                          !.running = TRUE, !.role = "FOLLOWER", !.persist_dirty = FALSE]
<1>1. g \in Node /\ Speaks(L, g)
  BY ForgetSpeaks, ForgetType
<1>2. raft_node_reset_for_join(s) = t
  BY Zenon DEF raft_node_reset_for_join
<1> HIDE DEF g
<1>3. /\ t.log = [p \in 1..RAFT_MAX_LOG |-> ZeroEntry] /\ t.outbox = {}
      /\ t.config_state = g.config_state
      /\ t.requested_membership = g.requested_membership
  BY <1>1 DEF Node
<1> HIDE DEF t
<1>4. \A p \in 1..RAFT_MAX_LOG : Named(L, t.log[p].command)
  <2>1. Named(L, ZeroEntry.command)
    BY DEF Named, ZeroEntry, ZeroCommand
  <2>2. ASSUME NEW p \in 1..RAFT_MAX_LOG PROVE t.log[p] = ZeroEntry
    BY <1>3
  <2> QED
    BY <2>1, <2>2, Zenon
<1>5. \A m \in t.outbox : Spoken(L, m)
  BY <1>3
<1>6. Speaks(L, t)
  BY <1>1, <1>3, <1>4, <1>5, Zenon DEF Speaks
<1> QED
  BY <1>2, <1>6, Zenon

\* The inductive invariant: nodes, files and messages name lists of L only.
SpeakInv(L) ==
    /\ Hears(L)
    /\ \A n \in Server : Speaks(L, node[n]) /\ Writes(L, disk[n])

\* A step of node n.
LEMMA NodeSpeaks ==
    ASSUME NEW L, SpeakInv(L), NEW n \in Server,
           \A p \in Server \ {n} : node'[p] = node[p] /\ disk'[p] = disk[p],
           Speaks(L, node'[n]), Writes(L, disk'[n]), \A m \in net' : Spoken(L, m)
    PROVE  SpeakInv(L)'
<1>1. ASSUME NEW p \in Server PROVE Speaks(L, node'[p]) /\ Writes(L, disk'[p])
  <2>1. CASE p = n
    BY <2>1, Zenon
  <2>2. CASE p # n
    BY <2>2, Zenon DEF SpeakInv
  <2> QED
    BY <2>1, <2>2
<1>2. Hears(L)'
  BY Zenon DEF SpeakInv, Hears
<1> QED
  BY <1>1, <1>2, Zenon DEF SpeakInv

\* A step that leaves the files and the network alone.
LEMMA MemorySpeaks ==
    ASSUME NEW L, SpeakInv(L), NEW n \in Server,
           \A p \in Server \ {n} : node'[p] = node[p], disk' = disk, net' = net,
           Speaks(L, node'[n])
    PROVE  SpeakInv(L)'
<1>1. /\ Writes(L, disk'[n]) /\ \A m \in net' : Spoken(L, m)
      /\ \A p \in Server \ {n} : node'[p] = node[p] /\ disk'[p] = disk[p]
  BY Zenon DEF SpeakInv, Hears
<1> QED
  BY <1>1, NodeSpeaks, Zenon DEF SpeakInv, Hears

\* What is delivered was in flight or sent.
LEMMA DeliverSpoken ==
    ASSUME NEW L, \A m \in net : Spoken(L, m), NEW out, \A m \in out : Spoken(L, m),
           NEW received, Deliver(received, out)
    PROVE  \A m \in net' : Spoken(L, m)
<1>1. PICK left \in {net \ received} \cup (IF Duplication THEN {net} ELSE {}) :
        \E sent \in Accepted(left, out) : net' = left \cup sent
  BY Zenon DEF Deliver
<1>2. PICK sent \in Accepted(left, out) : net' = left \cup sent
  BY <1>1, Zenon
<1>3. left \subseteq net
  BY <1>1
<1>4. sent \subseteq out
  BY <1>2 DEF Accepted
<1> QED
  BY <1>2, <1>3, <1>4, Zenon

\* snapshot.bin names no members.
LEMMA SnapshotFileWrites ==
    ASSUME NEW L, NEW s, NEW t, NEW d \in Disk, Writes(L, d)
    PROVE  Writes(L, DiskAfterCompaction(d, s, t))
<1> DEFINE e == DiskAfterCompaction(d, s, t)
<1>1. e.log = d.log /\ e.meta = d.meta
  BY DEF DiskAfterCompaction, raft_storage_save_snapshot, Disk
<1> HIDE DEF e
<1> QED
  BY <1>1, Zenon DEF Writes, e

\* The last step of a dump.
LEMMA FinishDumpSpeaks ==
    ASSUME NEW L, SpeakInv(L), TypeOK, NEW n \in Server, NEW u \in Node, Keeps(node[n], u),
           NEW received, FinishDump(n, u, received)
    PROVE  SpeakInv(L)'
<1> DEFINE t == Compacted(u)
           d == DiskAfterCompaction(disk[n], u, t)
           f == raft_storage_node_save(d, t)
           e == IF t.persist_dirty THEN f ELSE d
           sent == [t EXCEPT !.persist_dirty = FALSE, !.outbox = {}]
<1>1. node[n] \in Node /\ disk[n] \in Disk
  BY DEF TypeOK
<1>2. /\ Hears(L) /\ Speaks(L, node[n]) /\ Writes(L, disk[n])
      /\ \A m \in net : Spoken(L, m)
  BY Zenon DEF SpeakInv, Hears
<1>3. Speaks(L, u)
  BY <1>2, Zenon DEF Keeps, Repeats
<1>4. t \in Node /\ Speaks(L, t)
  BY <1>2, <1>3, CompactedSpeaks, CompactedType
<1>5. /\ node' = [node EXCEPT ![n] = sent] /\ disk' = [disk EXCEPT ![n] = e]
      /\ Deliver(received, t.outbox)
  BY Zenon DEF FinishDump
<1> HIDE DEF t
<1>6. d \in Disk /\ f \in Disk
  BY <1>1, <1>4, DumpedFiles DEF t
<1>7. Writes(L, d)
  BY <1>1, <1>2, SnapshotFileWrites
<1> HIDE DEF d
<1>8. Writes(L, f)
  BY <1>4, <1>6, SavedWrites
<1> HIDE DEF f
<1>9. /\ sent.log = t.log /\ sent.outbox = {} /\ sent.config_state = t.config_state
      /\ sent.requested_membership = t.requested_membership
  BY <1>4 DEF Node
<1> HIDE DEF sent
<1>10. Speaks(L, sent)
  BY <1>4, <1>9, SpeaksSame, Zenon
<1>11. Writes(L, e)
  BY <1>7, <1>8, Zenon
<1> HIDE DEF e
<1>12. \A m \in net' : Spoken(L, m)
  <2>1. \A m \in t.outbox : Spoken(L, m)
    BY <1>4, Zenon DEF Speaks
  <2> QED
    BY <1>2, <1>5, <2>1, DeliverSpoken
<1>13. /\ node'[n] = sent /\ disk'[n] = e
       /\ \A p \in Server \ {n} : node'[p] = node[p] /\ disk'[p] = disk[p]
  BY <1>5, Zenon DEF TypeOK
<1> QED
  BY <1>10, <1>11, <1>12, <1>13, NodeSpeaks, Zenon DEF SpeakInv, Hears

\* Every step of a node's tick.
LEMMA TickSpeaks ==
    ASSUME NEW L, {} \in L, SpeakInv(L), TypeOK, NEW n \in Server, Tick(n)
    PROVE  SpeakInv(L)'
<1>1. node[n] \in Node
  BY DEF TypeOK
<1>2. Hears(L) /\ Speaks(L, node[n])
  BY Zenon DEF SpeakInv
<1>3. ASSUME NEW t, Speaks(L, t), node' = [node EXCEPT ![n] = t], disk' = disk, net' = net
      PROVE  SpeakInv(L)'
  <2>1. node'[n] = t /\ \A p \in Server \ {n} : node'[p] = node[p]
    BY <1>3, Zenon DEF TypeOK
  <2> QED
    BY <1>3, <2>1, MemorySpeaks, Zenon DEF SpeakInv, Hears
<1>4. CASE ApplyEntry(n)
  <2>1. node' = [node EXCEPT ![n] = ApplyNext(node[n])] /\ disk' = disk /\ net' = net
    BY <1>4, Zenon DEF ApplyEntry, TypeOK
  <2>2. Speaks(L, ApplyNext(node[n]))
    BY <1>1, <1>2, NextSpeaks
  <2> QED
    BY <1>3, <2>1, <2>2
<1>5. ASSUME NEW u \in Node, Keeps(node[n], u),
             \/ node' = [node EXCEPT ![n] = u] /\ UNCHANGED <<disk, net>> /\ tick'.node = n
             \/ \E received : FinishDump(n, u, received)
      PROVE  SpeakInv(L)'
  <2>1. CASE node' = [node EXCEPT ![n] = u] /\ UNCHANGED <<disk, net>> /\ tick'.node = n
    <3>1. Speaks(L, u)
      BY <1>2, <1>5, Zenon DEF Keeps, Repeats
    <3>2. disk' = disk /\ net' = net
      BY <2>1
    <3> QED
      BY <1>3, <2>1, <3>1, <3>2
  <2>2. CASE \E received : FinishDump(n, u, received)
    BY <1>5, <2>2, FinishDumpSpeaks DEF SpeakInv, Hears
  <2> QED
    BY <1>5, <2>1, <2>2
<1> QED
  BY <1>4, <1>5, TickKeeps, Zenon

\* A crash.
LEMMA FailSpeaks ==
    ASSUME NEW L, {} \in L, SpeakInv(L), TypeOK, NEW n \in Server, Fail(n)
    PROVE  SpeakInv(L)'
<1> DEFINE s == node[n]
           t == Compacted(s)
           d == DiskAfterCompaction(disk[n], s, t)
           m == [d EXCEPT !.meta = write_meta(t)]
           f == raft_storage_node_save(d, t)
<1>1. s \in Node /\ disk[n] \in Disk /\ t \in Node
  BY CompactedType DEF TypeOK
<1>2. /\ Hears(L) /\ Speaks(L, s) /\ Writes(L, disk[n])
      /\ \A q \in net : Spoken(L, q)
  BY Zenon DEF SpeakInv, Hears
<1>3. Speaks(L, t)
  BY <1>1, <1>2, CompactedSpeaks
<1>4. PICK e \in {disk[n], d, m, f} : Reboot(n, e)
  BY Zenon DEF Fail, Crash, CrashAfterSnapshot, CrashAfterMeta, CrashAfterSave, AllApplied, InTick
<1> HIDE DEF t
<1>6. d \in Disk /\ m \in Disk /\ f \in Disk
  BY <1>1, DumpedFiles
<1>7. Writes(L, d)
  BY <1>1, <1>2, SnapshotFileWrites
<1> HIDE DEF d, s
<1>8. Writes(L, f)
  BY <1>1, <1>3, <1>6, SavedWrites
<1>9. Writes(L, m)
  <2>1. m.log = d.log /\ m.meta.config_state = t.config_state
    BY <1>6 DEF write_meta, Disk
  <2> HIDE DEF m
  <2> QED
    BY <1>3, <1>7, <2>1, Zenon DEF Writes, Speaks
<1> HIDE DEF m, f
<1>10. e \in Disk /\ Writes(L, e)
  BY <1>1, <1>2, <1>4, <1>6, <1>7, <1>8, <1>9, Zenon
<1> DEFINE b == raft_node_init(n, e)
<1>11. /\ node' = [node EXCEPT ![n] = b] /\ disk' = [disk EXCEPT ![n] = e]
       /\ Deliver(tick.received, {})
  BY <1>4, Zenon DEF Reboot
<1>12. Speaks(L, b)
  BY <1>10, BootSpeaks
<1> HIDE DEF b
<1>13. \A q \in net' : Spoken(L, q)
  BY <1>2, <1>11, DeliverSpoken
<1>14. /\ node'[n] = b /\ disk'[n] = e
       /\ \A p \in Server \ {n} : node'[p] = node[p] /\ disk'[p] = disk[p]
  BY <1>11, Zenon DEF TypeOK
<1> QED
  BY <1>10, <1>12, <1>13, <1>14, NodeSpeaks, Zenon DEF SpeakInv, Hears

\* The application's calls.
LEMMA CallSpeaks ==
    ASSUME NEW L, {} \in L, Memberships \subseteq L, SpeakInv(L), TypeOK, NEW n \in Server, Call(n)
    PROVE  SpeakInv(L)'
<1>1. node[n] \in Node /\ disk[n] \in Disk
  BY DEF TypeOK
<1>2. Speaks(L, node[n]) /\ Writes(L, disk[n]) /\ \A m \in net : Spoken(L, m)
  BY Zenon DEF SpeakInv, Hears
<1>3. net' = net
  BY Zenon DEF Call, Stop, Start, RequestMembershipChange, ResetForJoin
<1>4. ASSUME NEW t, node' = [node EXCEPT ![n] = t], disk' = disk, Speaks(L, t)
      PROVE  SpeakInv(L)'
  <2>1. node'[n] = t /\ \A p \in Server \ {n} : node'[p] = node[p]
    BY <1>4, Zenon DEF TypeOK
  <2> QED
    BY <1>3, <1>4, <2>1, MemorySpeaks, Zenon DEF SpeakInv, Hears
<1>5. CASE Stop(n)
  <2> DEFINE t == raft_node_stop(node[n])
  <2>1. node' = [node EXCEPT ![n] = t] /\ disk' = disk
    BY <1>5, Zenon DEF Stop, TypeOK
  <2>2. /\ t.log = node[n].log /\ t.outbox = {} /\ t.config_state = node[n].config_state
        /\ t.requested_membership = node[n].requested_membership
    BY <1>1 DEF raft_node_stop, Node
  <2> HIDE DEF t
  <2>3. Speaks(L, t)
    BY <1>2, <2>2, SpeaksSame, Zenon
  <2> QED
    BY <1>4, <2>1, <2>3
<1>6. CASE RequestMembershipChange(n)
  <2>1. PICK members \in Memberships :
          node' = [node EXCEPT ![n].requested_membership = members,
                               ![n].requested_membership_pending = @ \/ members # {}]
    BY <1>6, Zenon DEF RequestMembershipChange
  <2> DEFINE t == [node[n] EXCEPT !.requested_membership = members,
                                  !.requested_membership_pending = @ \/ members # {}]
  <2>2. node' = [node EXCEPT ![n] = t]
    BY <2>1 DEF TypeOK
  <2>3. disk' = disk
    BY <1>6, Zenon DEF RequestMembershipChange
  <2>4. /\ t.log = node[n].log /\ t.outbox = node[n].outbox
        /\ t.config_state = node[n].config_state /\ t.requested_membership = members
    BY <1>1 DEF Node
  <2> HIDE DEF t
  <2>5. t.requested_membership \in L
    BY <2>1, <2>4
  <2>6. Speaks(L, t)
    BY <1>2, <2>4, <2>5, SpeaksOn, Zenon DEF Speaks
  <2> QED
    BY <1>4, <2>2, <2>3, <2>6
<1>7. CASE Start(n)
  <2>1. node' = [node EXCEPT ![n] = raft_node_start(node[n], disk[n])] /\ disk' = disk
    BY <1>7, Zenon DEF Start, TypeOK
  <2>2. Speaks(L, raft_node_start(node[n], disk[n]))
    BY <1>1, <1>2, StartSpeaks
  <2> QED
    BY <1>4, <2>1, <2>2
<1>8. CASE ResetForJoin(n)
  <2> DEFINE r == raft_node_reset_for_join(node[n])
             t == [r EXCEPT !.app = << >>]
             f == raft_storage_node_save(disk[n], r)
  <2>1. r \in Node /\ Speaks(L, r)
    BY <1>1, <1>2, ResetType, ResetSpeaks
  <2>2. node' = [node EXCEPT ![n] = t] /\ disk' = [disk EXCEPT ![n] = f]
    BY <1>8, Zenon DEF ResetForJoin, TypeOK
  <2> HIDE DEF r
  <2>3. Writes(L, f)
    BY <1>1, <2>1, SavedWrites
  <2> HIDE DEF f
  <2>4. /\ t.log = r.log /\ t.outbox = r.outbox /\ t.config_state = r.config_state
        /\ t.requested_membership = r.requested_membership
    BY <2>1 DEF Node
  <2> HIDE DEF t
  <2>5. Speaks(L, t)
    BY <2>1, <2>4, SpeaksSame, Zenon
  <2>6. /\ node'[n] = t /\ disk'[n] = f
        /\ \A p \in Server \ {n} : node'[p] = node[p] /\ disk'[p] = disk[p]
    BY <2>2, Zenon DEF TypeOK
  <2> QED
    BY <1>2, <1>3, <2>3, <2>5, <2>6, NodeSpeaks, Zenon DEF SpeakInv, Hears
<1> QED
  BY <1>5, <1>6, <1>7, <1>8, Zenon DEF Call

\* The invariant holds in the beginning.
LEMMA SpeakInvInit ==
    ASSUME NEW L, {} \in L, Named(L, OutOfBounds.command), Init
    PROVE  SpeakInv(L)
<1>1. EmptyDisk \in Disk
  BY EmptyDiskType
<1>2. Writes(L, EmptyDisk)
  BY DEF Writes, Formed, EmptyDisk, NoMeta, ZeroConfiguration
<1>3. ASSUME NEW n \in Server PROVE node[n] = raft_node_init(n, EmptyDisk) /\ disk[n] = EmptyDisk
  BY Zenon DEF Init
<1>4. ASSUME NEW n \in Server PROVE Speaks(L, node[n]) /\ Writes(L, disk[n])
  <2>1. Speaks(L, raft_node_init(n, EmptyDisk))
    BY <1>1, <1>2, BootSpeaks
  <2> QED
    BY <1>2, <1>3, <2>1, Zenon
<1>5. Hears(L)
  BY DEF Init, Hears
<1> QED
  BY <1>4, <1>5, Zenon DEF SpeakInv

\* Every step keeps it.
LEMMA SpeakInvStep ==
    ASSUME NEW L, {} \in L, Memberships \subseteq L, SpeakInv(L), TypeOK, [Next]_vars
    PROVE  SpeakInv(L)'
<1>1. CASE UNCHANGED vars
  BY <1>1, Zenon DEF vars, SpeakInv, Hears
<1>2. ASSUME NEW n \in Server, Tick(n) \/ Fail(n) \/ Call(n) PROVE SpeakInv(L)'
  BY <1>2, TickSpeaks, FailSpeaks, CallSpeaks, Zenon
<1>3. CASE QuietTicks
  BY <1>1, <1>3, Zenon DEF QuietTicks
<1> QED
  BY <1>1, <1>2, <1>3, Zenon DEF Next

\* Only a member of its own configuration campaigns or leads, if the operators ask for one
\* list of members only, again and again perhaps, and whether or not nodes forget it: every
\* enter_joint in a log, a file or a message then names it, and no joint configuration
\* follows a different one.  (The memory behind the log array reads as no such entry.)
THEOREM OneListIsEnough ==
    ASSUME NEW M, Memberships \subseteq {{}, M},
           OutOfBounds.command.op \notin {"enter_joint", "leave_joint"}
    PROVE  Spec => []OnlyMembersLead
<1> DEFINE L == {{}, M}
<1>1. Memberships \subseteq L /\ {} \in L /\ Named(L, OutOfBounds.command)
  BY DEF Named
<1>2. ASSUME NEW s, Speaks(L, s), NEW t, Speaks(L, t),
             configuration_is_joint(s.config_state), configuration_is_joint(t.config_state)
      PROVE  t.config_state.new = s.config_state.new
  BY <1>2 DEF Speaks, Formed, configuration_is_joint
<1> HIDE DEF L
<1>3. Init => SpeakInv(L)
  BY <1>1, SpeakInvInit
<1>4. SpeakInv(L) /\ TypeOK /\ [Next]_vars => SpeakInv(L)'
  BY <1>1, SpeakInvStep
<1>5. SpeakInv(L) /\ SpeakInv(L)' => NoOverlap
  BY <1>2, Zenon DEF SpeakInv, NoOverlap
<1> QED
  BY <1>3, <1>4, <1>5, TypeCorrect, ExpelledStepsDown, PTL DEF Spec

\* A configuration in memory or on disk consists of lists that somebody chose as a whole:
\* the initial ones and those the operators asked for, whatever requests overlap, whoever
\* forgets one in a crash and leaves the joint configuration with another or an empty list,
\* and whichever logs are merged, replaced or loaded.  (The memory behind the log array
\* reads as no entry that changes the members.)
THEOREM ConfigurationWasChosen ==
    ASSUME OutOfBounds.command.op \notin {"enter_joint", "leave_joint"}
    PROVE  Spec => []MembersWereChosen
<1> DEFINE L == Memberships \cup {{}}
<1>1. Memberships \subseteq L /\ {} \in L /\ Named(L, OutOfBounds.command)
  BY DEF Named
<1>2. ASSUME NEW c, Formed(L, c) PROVE Chosen(c)
  BY <1>2 DEF Formed, Chosen
<1> HIDE DEF L
<1>3. Init => SpeakInv(L)
  BY <1>1, SpeakInvInit
<1>4. SpeakInv(L) /\ TypeOK /\ [Next]_vars => SpeakInv(L)'
  BY <1>1, SpeakInvStep
<1>5. SpeakInv(L) => MembersWereChosen
  BY <1>2, Zenon DEF SpeakInv, Speaks, Writes, MembersWereChosen
<1> QED
  BY <1>3, <1>4, <1>5, TypeCorrect, PTL DEF Spec
=============================================================================
