-------------------------- MODULE RaftMatchProofs --------------------------
(***************************************************************************)
(* Logs agree, for any number of nodes, entries, elections and crashes: an *)
(* entry that two logs have from the same leader, in the same term, at the *)
(* same position is the same entry, and so is every entry before it.       *)
(*                                                                         *)
(* What two logs have in common may come from a third one that has since   *)
(* been overwritten, so the invariant speaks of a history: a set of logs   *)
(* that agree with each other and of which every log, on disk, in memory   *)
(* or quoted by a message, is a part.  There is a history H of what is     *)
(* durable and a larger one, F, that also has what the node in its tick    *)
(* has appended and not saved; a save makes F durable and a crash goes     *)
(* back to H.  A leader extends F, and its new entry disagrees with        *)
(* nothing because no log of F has an entry of its term behind its own     *)
(* last one; a follower takes over a part of a log that H already has,     *)
(* which is what the check of term and leader at prev_log_index and at     *)
(* every later position is for.                                            *)
(***************************************************************************)
EXTENDS RaftLogProofs

\* Logs whose positions are their indexes.
NotCompacted == \A n \in Server : node[n].snapshot_last_included_index = 0

-----------------------------------------------------------------------------
(* Histories.                                                              *)

\* Entry p is an entry leader l created in term t.
CreatedBy(f, p, l, t) == f[p].leader_id = l /\ f[p].term = t

\* Two logs that have an entry in common have everything before it in common.
Agree(f, g) ==
    \A p \in 1..Len(f) :
        p <= Len(g) /\ CreatedBy(f, p, g[p].leader_id, g[p].term) =>
            \A q \in 1..p : f[q] = g[q]

\* A set of logs that agree; every entry has a creator.
History(F) ==
    /\ F \subseteq Seq(Entry) /\ << >> \in F
    /\ \A f \in F : \A p \in 1..Len(f) : f[p].leader_id \in Server
    /\ \A f, g \in F : Agree(f, g)

\* The first n entries of a log are the beginning of a log of the history.
Within(log, n, F) == \E f \in F : n <= Len(f) /\ \A p \in 1..n : log[p] = f[p]

\* The entries of a message, and what it says of the entry before them, are a part of
\* the first n entries of a log.
Fragment(m, log, n) ==
    LET prev == m.prev_log_index
    IN  m.entries # << >> =>
            /\ prev + Len(m.entries) <= n
            /\ \A k \in 1..Len(m.entries) : m.entries[k] = log[prev + k]
            /\ prev > 0 => CreatedBy(log, prev, m.prev_log_leader_id, m.prev_log_term)

\* A message quotes a log of the history.
Covered(m, F) == \E f \in F : Fragment(m, f, Len(f))

\* E adds to F nothing but entries of node n.
Extension(n, F, E) ==
    /\ F \subseteq E
    /\ \A f \in E : \A p \in 1..Len(f) :
          f[p].leader_id = n \/ \E g \in F : p <= Len(g) /\ g[p] = f[p]

\* The entries that node n created in the history are of terms up to t.
TermsUpTo(n, t, F) ==
    \A f \in F : \A p \in 1..Len(f) : f[p].leader_id = n => f[p].term <= t

\* The entries that s created in its current term are at most at position i.
NoneBehind(s, i, F) ==
    \A f \in F : \A p \in 1..Len(f) : CreatedBy(f, p, s.id, s.current_term) => p <= i

\* A node and the history.
Fits(s, F) ==
    /\ s.snapshot_last_included_index = 0
    /\ Within(s.log, s.log_count, F)
    /\ \A m \in s.outbox : Covered(m, F)
    /\ TermsUpTo(s.id, s.current_term, F)
    /\ s.role = "LEADER" => NoneBehind(s, s.log_count, F)
    /\ s.role = "CANDIDATE" => NoneBehind(s, 0, F)

\* What a handler does, for every history that includes H.
Carries(H, s, t) ==
    \A F : H \subseteq F /\ History(F) /\ Fits(s, F) =>
        \E E : /\ History(E) /\ Extension(s.id, F, E) /\ Fits(t, E)
               /\ E = F \/ t.persist_dirty

-----------------------------------------------------------------------------
(* Handlers that leave the log alone.                                      *)

\* The entries of a message are read from the log array.
Excerpt(m, s) == \A k \in 1..Len(m.entries) : \E i : m.entries[k] = LogEntryAt(s, i)

\* A message was built from the log of s.
Quotes(m, s) ==
    /\ Excerpt(m, s)
    /\ s.snapshot_last_included_index = 0 => Fragment(m, s.log, s.log_count)

\* t has the log of s and no earlier term.
Calm(s, t) ==
    /\ t.id = s.id /\ SameSnapshot(s, t)
    /\ t.log = s.log /\ t.log_count = s.log_count
    /\ s.current_term <= t.current_term
    /\ \A m \in t.outbox : m \in s.outbox \/ Quotes(m, s)

\* t has applied what s had applied, and is asked for the same members.
SameApplied(s, t) ==
    /\ t.last_applied = s.last_applied /\ t.app = s.app /\ t.config_state = s.config_state
    /\ t.requested_membership = s.requested_membership
    /\ t.requested_membership_pending = s.requested_membership_pending

\* A handler that only passes on what the node has.
Steady(s, t) == Calm(s, t) /\ SameApplied(s, t) /\ t.role \in {s.role, "FOLLOWER"}

\* Every history extends itself.
LEMMA ExtensionReflexive ==
    ASSUME NEW n, NEW F
    PROVE  Extension(n, F, F)
<1>1. ASSUME NEW f \in F, NEW p \in 1..Len(f) PROVE \E g \in F : p <= Len(g) /\ g[p] = f[p]
  BY <1>1
<1> QED
  BY <1>1 DEF Extension

\* Extensions compose.
LEMMA ExtensionTransitive ==
    ASSUME NEW n, NEW F, NEW E, NEW D, F \subseteq Seq(Entry), E \subseteq Seq(Entry),
           D \subseteq Seq(Entry), Extension(n, F, E), Extension(n, E, D)
    PROVE  Extension(n, F, D)
<1>1. F \subseteq D
  BY DEF Extension
<1>2. ASSUME NEW f \in D, NEW p \in 1..Len(f), f[p].leader_id # n
      PROVE  \E g \in F : p <= Len(g) /\ g[p] = f[p]
  <2>1. PICK e \in E : p <= Len(e) /\ e[p] = f[p]
    BY <1>2 DEF Extension
  <2>2. p \in 1..Len(e)
    <3>1. Len(e) \in Nat
      BY <2>1
    <3> QED
      BY <2>1, <3>1
  <2>3. \E g \in F : p <= Len(g) /\ g[p] = e[p]
    BY <1>2, <2>1, <2>2 DEF Extension
  <2> QED
    BY <2>1, <2>3
<1> QED
  BY <1>1, <1>2 DEF Extension

\* A larger history covers what a smaller one covers.
LEMMA LargerHistory ==
    ASSUME NEW F, NEW E, F \subseteq E
    PROVE  /\ \A log, n : Within(log, n, F) => Within(log, n, E)
           /\ \A m : Covered(m, F) => Covered(m, E)
           /\ \A n, t : TermsUpTo(n, t, E) => TermsUpTo(n, t, F)
           /\ \A s, i : NoneBehind(s, i, E) => NoneBehind(s, i, F)
<1>1. ASSUME NEW log, NEW n, Within(log, n, F) PROVE Within(log, n, E)
  BY <1>1, Zenon DEF Within
<1>2. ASSUME NEW m, Covered(m, F) PROVE Covered(m, E)
  BY <1>2, Zenon DEF Covered
<1>3. ASSUME NEW n, NEW t, TermsUpTo(n, t, E) PROVE TermsUpTo(n, t, F)
  BY <1>3, Zenon DEF TermsUpTo
<1>4. ASSUME NEW s, NEW i, NoneBehind(s, i, E) PROVE NoneBehind(s, i, F)
  BY <1>4, Zenon DEF NoneBehind
<1> QED
  BY <1>1, <1>2, <1>3, <1>4, Zenon

\* Handlers that keep a history compose.
LEMMA CarriesTransitive ==
    ASSUME NEW H, NEW s \in Node, NEW t \in Node, NEW u \in Node, t.id = s.id,
           Carries(H, s, t), Carries(H, t, u), t.persist_dirty => u.persist_dirty
    PROVE  Carries(H, s, u)
<1> SUFFICES ASSUME NEW F, H \subseteq F, History(F), Fits(s, F)
             PROVE  \E E : /\ History(E) /\ Extension(s.id, F, E) /\ Fits(u, E)
                           /\ E = F \/ u.persist_dirty
  BY Zenon DEF Carries
<1>1. PICK E : /\ History(E) /\ Extension(s.id, F, E) /\ Fits(t, E)
               /\ E = F \/ t.persist_dirty
  BY Zenon DEF Carries
<1>2. H \subseteq E
  BY <1>1 DEF Extension
<1>3. PICK D : /\ History(D) /\ Extension(t.id, E, D) /\ Fits(u, D)
               /\ D = E \/ u.persist_dirty
  BY <1>1, <1>2, Zenon DEF Carries
<1>4. Extension(s.id, F, D)
  BY <1>1, <1>3, ExtensionTransitive, Zenon DEF History
<1> QED
  BY <1>1, <1>3, <1>4, Zenon

\* A handler that leaves the log alone keeps every history.
LEMMA CalmCarries ==
    ASSUME NEW H, NEW s \in Node, NEW t \in Node, Calm(s, t),
           \/ t.role \in {s.role, "FOLLOWER"}
           \/ t.role = "CANDIDATE" /\ s.current_term < t.current_term
           \/ s.role = "CANDIDATE" /\ t.role = "LEADER"
    PROVE  Carries(H, s, t)
<1> SUFFICES ASSUME NEW F, History(F), Fits(s, F)
             PROVE  Fits(t, F)
  BY ExtensionReflexive, Zenon DEF Carries
<1>1. t.snapshot_last_included_index = 0 /\ Within(t.log, t.log_count, F)
  BY Zenon DEF Calm, Fits, SameSnapshot
<1>2. ASSUME NEW m \in t.outbox PROVE Covered(m, F)
  <2>1. CASE m \in s.outbox
    BY <2>1 DEF Fits
  <2>2. CASE Quotes(m, s)
    <3>1. Fragment(m, s.log, s.log_count)
      BY <2>2 DEF Quotes, Fits
    <3>2. PICK f \in F : s.log_count <= Len(f) /\ \A p \in 1..s.log_count : s.log[p] = f[p]
      BY DEF Fits, Within
    <3>3. Fragment(m, f, Len(f))
      <4>1. SUFFICES ASSUME m.entries # << >> PROVE Fragment(m, f, Len(f))
        BY Zenon DEF Fragment
      <4>2. m \in Message /\ s.log_count \in Nat /\ Len(f) \in Nat
        BY NodeFields, LimitAssumption DEF History
      <4>3. m.prev_log_index \in Nat /\ m.entries \in Seq(Entry) /\ Len(m.entries) \in Nat
        BY <4>2, MessageFields
      <4>4. /\ m.prev_log_index + Len(m.entries) <= s.log_count
            /\ \A k \in 1..Len(m.entries) : m.entries[k] = s.log[m.prev_log_index + k]
            /\ m.prev_log_index > 0 =>
                 CreatedBy(s.log, m.prev_log_index, m.prev_log_leader_id, m.prev_log_term)
        BY <3>1, <4>1 DEF Fragment
      <4>5. m.prev_log_index + Len(m.entries) <= Len(f)
        BY <3>2, <4>2, <4>3, <4>4
      <4>6. ASSUME NEW k \in 1..Len(m.entries) PROVE m.entries[k] = f[m.prev_log_index + k]
        <5>1. m.prev_log_index + k \in 1..s.log_count
          BY <4>2, <4>3, <4>4
        <5> QED
          BY <3>2, <4>4, <5>1
      <4>7. ASSUME m.prev_log_index > 0
            PROVE  CreatedBy(f, m.prev_log_index, m.prev_log_leader_id, m.prev_log_term)
        <5>1. m.prev_log_index \in 1..s.log_count
          BY <4>2, <4>3, <4>4, <4>7
        <5> QED
          BY <3>2, <4>4, <4>7, <5>1 DEF CreatedBy
      <4> QED
        BY <4>5, <4>6, <4>7, Zenon DEF Fragment
    <3> QED
      BY <3>3 DEF Covered
  <2> QED
    BY <2>1, <2>2 DEF Calm
<1>3. s.current_term \in Nat /\ t.current_term \in Nat /\ s.current_term <= t.current_term
      /\ t.id = s.id
  BY NodeFields DEF Calm
<1>4. ASSUME NEW f \in F, NEW p \in 1..Len(f), f[p].leader_id = s.id
      PROVE  f[p].term \in Nat /\ f[p].term <= s.current_term
  <2>1. f[p] \in Entry
    BY DEF History
  <2> QED
    BY <1>4, <2>1 DEF Fits, TermsUpTo, Entry
<1>5. TermsUpTo(t.id, t.current_term, F)
  BY <1>3, <1>4 DEF TermsUpTo
<1>6. ASSUME s.current_term < t.current_term, NEW i PROVE NoneBehind(t, i, F)
  BY <1>3, <1>4, <1>6 DEF NoneBehind, CreatedBy
<1>7. ASSUME NEW i, NoneBehind(s, i, F) PROVE NoneBehind(t, i, F)
  <2>1. CASE s.current_term < t.current_term
    BY <1>6, <2>1
  <2>2. CASE ~(s.current_term < t.current_term)
    <3>1. t.current_term = s.current_term
      BY <1>3, <2>2
    <3> QED
      BY <1>3, <1>7, <3>1, Zenon DEF NoneBehind
  <2> QED
    BY <2>1, <2>2
<1>8. ASSUME NoneBehind(s, 0, F) PROVE NoneBehind(s, s.log_count, F)
  <2>1. s.log_count \in Nat
    BY NodeFields, LimitAssumption
  <2>2. ASSUME NEW f \in F, NEW p \in 1..Len(f) PROVE p \in Nat /\ p > 0
    BY <2>2 DEF History
  <2> QED
    BY <1>8, <2>1, <2>2 DEF NoneBehind
<1>9. t.log_count = s.log_count
  BY DEF Calm
<1>10. t.role = "LEADER" => NoneBehind(t, t.log_count, F)
  BY <1>7, <1>8, <1>9 DEF Fits
<1>11. t.role = "CANDIDATE" => NoneBehind(t, 0, F)
  BY <1>6, <1>7 DEF Fits
<1> QED
  BY <1>1, <1>2, <1>5, <1>10, <1>11, Zenon DEF Fits

\* Steady handlers keep every history.
LEMMA SteadyCarries ==
    ASSUME NEW H, NEW s \in Node, NEW t \in Node, Steady(s, t)
    PROVE  Carries(H, s, t)
BY CalmCarries, Zenon DEF Steady

\* Handlers that leave the log alone compose.
LEMMA CalmTransitive ==
    ASSUME NEW s \in Node, NEW t \in Node, NEW u \in Node, Calm(s, t), Calm(t, u)
    PROVE  Calm(s, u)
<1>1. s.current_term <= u.current_term
  <2>1. s.current_term \in Nat /\ t.current_term \in Nat /\ u.current_term \in Nat
    BY NodeFields
  <2> QED
    BY <2>1 DEF Calm
<1>2. ASSUME NEW m, Quotes(m, t) PROVE Quotes(m, s)
  <2>1. \A i : LogEntryAt(t, i) = LogEntryAt(s, i)
    BY Zenon DEF LogEntryAt, node_physical_index, Calm, SameSnapshot
  <2>2. Excerpt(m, s)
    BY <1>2, <2>1, Zenon DEF Quotes, Excerpt
  <2> QED
    BY <1>2, <2>2, Zenon DEF Quotes, Calm, SameSnapshot
<1>3. \A m \in u.outbox : m \in s.outbox \/ Quotes(m, s)
  BY <1>2, Zenon DEF Calm
<1> QED
  BY <1>1, <1>3, Zenon DEF Calm, SameSnapshot

\* Steady handlers compose.
LEMMA SteadyTransitive ==
    ASSUME NEW s \in Node, NEW t \in Node, NEW u \in Node, Steady(s, t), Steady(t, u)
    PROVE  Steady(s, u)
<1>1. Calm(s, u)
  BY CalmTransitive DEF Steady
<1> QED
  BY <1>1, Zenon DEF Steady, SameApplied

\* Doing nothing.
LEMMA SteadyReflexive ==
    ASSUME NEW s \in Node
    PROVE  Steady(s, s)
<1>1. s.current_term <= s.current_term
  BY NodeFields
<1> QED
  BY <1>1, Zenon DEF Steady, Calm, SameApplied, SameSnapshot

\* A message without entries quotes nothing.
LEMMA NoEntriesQuotes ==
    ASSUME NEW m, NEW s, m.entries = << >>
    PROVE  Quotes(m, s)
<1>1. Excerpt(m, s)
  BY DEF Excerpt
<1> QED
  BY <1>1, Zenon DEF Quotes, Fragment

\* The entries of an AppendEntries message are read from the log array.
LEMMA AppendEntriesForExcerpt ==
    ASSUME NEW s \in Node, NEW p
    PROVE  Excerpt(AppendEntriesFor(s, p), s)
<1> DEFINE k    == node_peer_index(s, p)
           last == node_last_log_index(s)
           want == IF k \in 1..RAFT_MAX_PEERS THEN s.next_index[k] ELSE last + 1
           next == Larger(want, node_log_base_index(s))
           n    == IF next > last THEN 0 ELSE Smaller(last + 1 - next, RAFT_MAX_BATCH)
           es   == [j \in 1..n |-> LogEntryAt(s, next + j - 1)]
           msg  == AppendEntriesFor(s, p)
<1>1. msg = [ZeroMessage EXCEPT
          !.kind = "APPEND_ENTRIES", !.term = s.current_term,
          !.source = s.id, !.target = p,
          !.prev_log_index = next - 1,
          !.prev_log_term = node_term_at_index(s, next - 1),
          !.prev_log_leader_id = node_leader_at_index(s, next - 1),
          !.leader_commit = s.commit_index,
          !.entries = es]
  BY Zenon DEF AppendEntriesFor
<1>2. last \in Nat /\ node_log_base_index(s) \in Nat /\ want \in Nat
  <2>1. last \in Nat /\ node_log_base_index(s) \in Nat
    BY LogIndexTypes
  <2> HIDE DEF k, last
  <2>2. ASSUME k \in 1..RAFT_MAX_PEERS PROVE s.next_index[k] \in Nat
    BY <2>2, NodeFields
  <2> QED
    BY <2>1, <2>2
<1> HIDE DEF want, last
<1>3. next \in Nat
  BY <1>2 DEF Larger
<1> HIDE DEF next
<1>4. n \in Nat
  BY <1>2, <1>3, LimitAssumption DEF Smaller
<1> HIDE DEF n
<1>5. Len(es) = n /\ \A j \in 1..n : es[j] = LogEntryAt(s, next + j - 1)
  BY <1>4
<1> HIDE DEF msg, es
<1>6. msg.entries = es
  BY <1>1 DEF ZeroMessage
<1> QED
  BY <1>5, <1>6, Zenon DEF Excerpt, msg

\* The entries of an AppendEntries message, and the term and leader it gives for the entry
\* before them, are those of the log.
LEMMA AppendEntriesForQuotes ==
    ASSUME NEW s \in Node, NEW p
    PROVE  Quotes(AppendEntriesFor(s, p), s)
<1> SUFFICES ASSUME s.snapshot_last_included_index = 0
             PROVE  Fragment(AppendEntriesFor(s, p), s.log, s.log_count)
  BY AppendEntriesForExcerpt, Zenon DEF Quotes
<1> DEFINE k    == node_peer_index(s, p)
           last == node_last_log_index(s)
           want == IF k \in 1..RAFT_MAX_PEERS THEN s.next_index[k] ELSE last + 1
           next == Larger(want, node_log_base_index(s))
           n    == IF next > last THEN 0 ELSE Smaller(last + 1 - next, RAFT_MAX_BATCH)
           es   == [j \in 1..n |-> LogEntryAt(s, next + j - 1)]
           msg  == AppendEntriesFor(s, p)
<1>0. /\ s.log_count \in Nat /\ RAFT_MAX_LOG \in Nat /\ s.log_count <= RAFT_MAX_LOG
      /\ RAFT_MAX_BATCH \in Nat
  BY NodeFields, LimitAssumption
<1>1. last = s.log_count /\ node_log_base_index(s) = 1
  BY <1>0 DEF node_last_log_index, node_log_base_index
<1>2. want \in Nat
  <2> HIDE DEF k, last
  <2>1. ASSUME k \in 1..RAFT_MAX_PEERS PROVE s.next_index[k] \in Nat
    BY <2>1, NodeFields
  <2> QED
    BY <1>0, <1>1, <2>1
<1> HIDE DEF want, last
<1>3. next \in Nat /\ next >= 1
  BY <1>1, <1>2 DEF Larger
<1> HIDE DEF next
<1>4. n \in Nat /\ (n > 0 => (next - 1) + n <= s.log_count)
  BY <1>0, <1>1, <1>3 DEF Smaller
<1>5. /\ msg.prev_log_index = next - 1 /\ msg.entries = es
      /\ msg.prev_log_term = node_term_at_index(s, next - 1)
      /\ msg.prev_log_leader_id = node_leader_at_index(s, next - 1)
  <2>1. msg = [ZeroMessage EXCEPT
            !.kind = "APPEND_ENTRIES", !.term = s.current_term,
            !.source = s.id, !.target = p,
            !.prev_log_index = next - 1,
            !.prev_log_term = node_term_at_index(s, next - 1),
            !.prev_log_leader_id = node_leader_at_index(s, next - 1),
            !.leader_commit = s.commit_index,
            !.entries = es]
    BY Zenon DEF AppendEntriesFor, next, want, last
  <2> HIDE DEF msg, es
  <2> QED
    BY <2>1 DEF ZeroMessage
<1> HIDE DEF msg, n
<1>6. ASSUME NEW i \in 1..s.log_count
      PROVE  LogEntryAt(s, i) = s.log[i]
  <2>1. i - s.snapshot_last_included_index = i /\ i \in 1..RAFT_MAX_LOG
    BY <1>0
  <2> QED
    BY <2>1, Zenon DEF LogEntryAt, node_physical_index
<1>7. ASSUME n > 0, NEW j \in 1..n PROVE es[j] = s.log[(next - 1) + j]
  <2>1. next + j - 1 = (next - 1) + j /\ (next - 1) + j \in 1..s.log_count
    BY <1>0, <1>3, <1>4, <1>7
  <2> QED
    BY <1>6, <2>1
<1>8. ASSUME n > 0, next - 1 > 0
      PROVE  CreatedBy(s.log, next - 1, node_leader_at_index(s, next - 1),
                       node_term_at_index(s, next - 1))
  <2>1. next - 1 \in 1..s.log_count /\ next - 1 # 0
    BY <1>0, <1>3, <1>4, <1>8
  <2>2. node_has_log_index(s, next - 1)
    BY <1>1, <2>1 DEF node_has_log_index, last
  <2>3. node_leader_at_index(s, next - 1) = s.log[next - 1].leader_id
    BY <1>6, <1>8, <2>1, <2>2, Zenon DEF node_leader_at_index
  <2>4. node_term_at_index(s, next - 1) = s.log[next - 1].term
    BY <1>6, <2>1, Zenon DEF node_term_at_index
  <2> QED
    BY <2>3, <2>4 DEF CreatedBy
<1>9. Len(es) = n /\ (n = 0 => es = << >>)
  BY <1>4
<1>10. ASSUME msg.entries # << >> PROVE n > 0
  BY <1>4, <1>5, <1>9, <1>10
<1> HIDE DEF es
<1>11. ASSUME msg.entries # << >>
       PROVE  /\ msg.prev_log_index + Len(msg.entries) <= s.log_count
              /\ \A j \in 1..Len(msg.entries) : msg.entries[j] = s.log[msg.prev_log_index + j]
              /\ msg.prev_log_index > 0 =>
                   CreatedBy(s.log, msg.prev_log_index, msg.prev_log_leader_id,
                             msg.prev_log_term)
  BY <1>4, <1>5, <1>7, <1>8, <1>9, <1>10, <1>11
<1> QED
  BY <1>11, Zenon DEF Fragment, msg

\* Queueing a message that quotes the log, or nothing.
LEMMA QueueSteady ==
    ASSUME NEW s \in Node, NEW m, Quotes(m, s)
    PROVE  Steady(s, node_queue_message(s, m))
<1> DEFINE t == node_queue_message(s, m)
<1>1. /\ t.role = s.role /\ t.outbox = s.outbox \cup {m} /\ t.id = s.id
      /\ t.log = s.log /\ t.log_count = s.log_count /\ SameSnapshot(s, t)
      /\ t.last_applied = s.last_applied /\ t.app = s.app /\ t.config_state = s.config_state
      /\ t.requested_membership = s.requested_membership
      /\ t.requested_membership_pending = s.requested_membership_pending
      /\ t.current_term = s.current_term /\ s.current_term <= t.current_term
  BY NodeFields DEF node_queue_message, SameSnapshot, Node
<1> HIDE DEF t
<1> QED
  BY <1>1, Zenon DEF Steady, Calm, SameApplied, t

\* Broadcasting the log.
LEMMA BroadcastSteady ==
    ASSUME NEW s \in Node
    PROVE  Steady(s, node_broadcast_append_entries(s))
<1> DEFINE t == node_broadcast_append_entries(s)
<1>1. /\ t.role = s.role /\ t.id = s.id
      /\ t.outbox = s.outbox \cup {AppendEntriesFor(s, p) : p \in Peers(s)}
      /\ t.log = s.log /\ t.log_count = s.log_count /\ SameSnapshot(s, t)
      /\ t.last_applied = s.last_applied /\ t.app = s.app /\ t.config_state = s.config_state
      /\ t.requested_membership = s.requested_membership
      /\ t.requested_membership_pending = s.requested_membership_pending
      /\ t.current_term = s.current_term /\ s.current_term <= t.current_term
  BY NodeFields DEF node_broadcast_append_entries, SameSnapshot, Node
<1> HIDE DEF t
<1>2. \A m \in t.outbox : m \in s.outbox \/ Quotes(m, s)
  BY <1>1, AppendEntriesForQuotes, Zenon
<1> QED
  BY <1>1, <1>2, Zenon DEF Steady, Calm, SameApplied, t

\* node_handle_term_update.
LEMMA TermUpdateSteady ==
    ASSUME NEW s \in Node, NEW m \in Message
    PROVE  Steady(s, node_handle_term_update(s, m))
<1> DEFINE t == [s EXCEPT !.current_term = m.term, !.voted_for = Nil, !.leader_id = Nil,
                          !.persist_dirty = TRUE]
<1>1. CASE m.term > s.current_term
  <2>1. t = node_handle_term_update(s, m)
    BY <1>1, Zenon DEF node_handle_term_update
  <2>2. s.current_term <= m.term
    BY <1>1, NodeFields, MessageFields
  <2>3. Steady(s, t)
    BY <2>2 DEF Steady, Calm, SameApplied, SameSnapshot, Node
  <2> QED
    BY <2>1, <2>3
<1>2. CASE ~(m.term > s.current_term)
  BY <1>2, SteadyReflexive, Zenon DEF node_handle_term_update
<1> QED
  BY <1>1, <1>2

\* node_handle_vote_request.
LEMMA VoteRequestSteady ==
    ASSUME NEW s \in Node, NEW m \in Message
    PROVE  Steady(s, node_handle_vote_request(s, m))
<1> DEFINE t == node_handle_term_update(s, m)
           w == [t EXCEPT !.voted_for = m.source, !.persist_dirty = TRUE]
           v == IF GrantsVote(t, m) THEN w ELSE t
           response == [ZeroMessage EXCEPT
                          !.kind = "REQUEST_VOTE_RESPONSE", !.term = t.current_term,
                          !.granted = GrantsVote(t, m), !.source = s.id, !.target = m.source]
<1>1. t \in Node /\ Steady(s, t)
  BY TermUpdateType, TermUpdateSteady
<1>2. response.entries = << >>
  <2> HIDE DEF t
  <2> QED
    BY DEF ZeroMessage
<1>3. node_handle_vote_request(s, m) = node_queue_message(v, response)
  BY Zenon DEF node_handle_vote_request
<1>4. node_handle_vote_request(s, m) \in Node
  BY VoteRequestType
<1> HIDE DEF t, response
<1>5. w \in Node /\ Steady(t, w)
  <2>1. w \in Node
    BY <1>1, MessageFields, Zenon DEF Node
  <2>2. Steady(t, w)
    BY <1>1, NodeFields DEF Steady, Calm, SameApplied, SameSnapshot, Node
  <2> QED
    BY <2>1, <2>2
<1> HIDE DEF w
<1>6. v \in Node /\ Steady(s, v)
  BY <1>1, <1>5, SteadyTransitive
<1> HIDE DEF v
<1>7. Steady(v, node_queue_message(v, response))
  BY <1>2, <1>6, QueueSteady, NoEntriesQuotes
<1> QED
  BY <1>3, <1>4, <1>6, <1>7, SteadyTransitive

\* node_handle_vote_response.
LEMMA VoteResponseSteady ==
    ASSUME NEW s \in Node, NEW m \in Message
    PROVE  Steady(s, node_handle_vote_response(s, m))
<1> DEFINE t == node_handle_term_update(s, m)
           u == [t EXCEPT !.votes_received = @ \cup {m.source}]
<1>1. t \in Node /\ Steady(s, t) /\ node_handle_vote_response(s, m) \in Node
  BY TermUpdateType, TermUpdateSteady, VoteResponseType
<1>2. node_handle_vote_response(s, m) \in {t, u}
  BY Zenon DEF node_handle_vote_response
<1>3. Steady(t, u)
  <2> HIDE DEF t
  <2> QED
    BY <1>1, NodeFields DEF Steady, Calm, SameApplied, SameSnapshot, Node
<1> HIDE DEF t, u
<1> QED
  BY <1>1, <1>2, <1>3, SteadyTransitive

\* action_back_to_follower_due_to_timeout.
LEMMA BackToFollowerSteady ==
    ASSUME NEW s \in Node
    PROVE  Steady(s, action_back_to_follower_due_to_timeout(s))
BY NodeFields DEF action_back_to_follower_due_to_timeout, Steady, Calm, SameApplied, SameSnapshot, Node

\* A node becomes a candidate, in a new term.
LEMMA BecomeCandidateCalm ==
    ASSUME NEW s \in Node
    PROVE  LET t == action_become_candidate(s)
           IN  /\ Calm(s, t) /\ SameApplied(s, t)
               /\ t.role = "CANDIDATE" /\ s.current_term < t.current_term
<1> DEFINE t == [s EXCEPT !.current_term = @ + 1, !.voted_for = s.id,
                          !.votes_received = {s.id}, !.leader_id = Nil, !.persist_dirty = TRUE]
           RequestVoteFor(p) ==
               [ZeroMessage EXCEPT !.kind = "REQUEST_VOTE", !.term = t.current_term,
                                   !.source = s.id, !.target = p,
                                   !.last_log_index = node_last_log_index(s),
                                   !.last_log_term = node_last_log_term(s)]
           u == [t EXCEPT !.role = "CANDIDATE",
                          !.outbox = @ \cup {RequestVoteFor(p) : p \in Peers(s)}]
<1>1. u = action_become_candidate(s)
  BY Zenon DEF action_become_candidate
<1>2. \A p : Quotes(RequestVoteFor(p), s)
  <2> HIDE DEF t
  <2>1. \A p : RequestVoteFor(p).entries = << >>
    BY DEF ZeroMessage
  <2> HIDE DEF RequestVoteFor
  <2> QED
    BY <2>1, NoEntriesQuotes
<1> HIDE DEF RequestVoteFor
<1>3. /\ u.outbox = s.outbox \cup {RequestVoteFor(p) : p \in Peers(s)} /\ u.id = s.id
      /\ u.log = s.log /\ u.log_count = s.log_count /\ SameSnapshot(s, u)
      /\ u.last_applied = s.last_applied /\ u.app = s.app /\ u.config_state = s.config_state
      /\ u.requested_membership = s.requested_membership
      /\ u.requested_membership_pending = s.requested_membership_pending
      /\ u.current_term = s.current_term + 1 /\ u.role = "CANDIDATE"
  BY DEF SameSnapshot, Node
<1> HIDE DEF u
<1>4. s.current_term <= u.current_term /\ s.current_term < u.current_term
  BY <1>3, NodeFields
<1>5. \A m \in u.outbox : m \in s.outbox \/ Quotes(m, s)
  BY <1>2, <1>3, Zenon
<1>6. Calm(s, u) /\ SameApplied(s, u)
  BY <1>3, <1>4, <1>5, Zenon DEF Calm, SameApplied
<1> QED
  BY <1>1, <1>3, <1>4, <1>6

\* A candidate becomes the leader.
LEMMA BecomeLeaderCalm ==
    ASSUME NEW s \in Node
    PROVE  LET t == action_become_leader(s)
           IN  Calm(s, t) /\ SameApplied(s, t) /\ t.role = "LEADER"
<1> DEFINE next == [k \in 1..RAFT_MAX_PEERS |->
                       IF k \in PeerSlots(s) THEN node_last_log_index(s) + 1 ELSE s.next_index[k]]
           match == [k \in 1..RAFT_MAX_PEERS |->
                       IF k \in PeerSlots(s) THEN 0 ELSE s.match_index[k]]
           t == [s EXCEPT !.role = "LEADER", !.leader_id = s.id,
                          !.next_index = next, !.match_index = match]
           u == node_broadcast_append_entries(t)
<1>1. /\ next \in [1..RAFT_MAX_PEERS -> Nat]
      /\ match \in [1..RAFT_MAX_PEERS -> Nat]
  <2>1. node_last_log_index(s) + 1 \in Nat
    BY LogIndexTypes
  <2> QED
    BY <2>1, NodeFields
<1>2. action_become_leader(s) = u
  BY Zenon DEF action_become_leader
<1> HIDE DEF next, match
<1>3. t \in Node
  <2>1. s.id \in MaybeServer
    BY NodeFields DEF MaybeServer
  <2> QED
    BY <1>1, <2>1, Zenon DEF Node, Role
<1>4. Calm(s, t) /\ SameApplied(s, t) /\ t.role = "LEADER"
  BY NodeFields DEF Calm, SameApplied, SameSnapshot, Node
<1> HIDE DEF t
<1>5. u \in Node /\ Steady(t, u)
  BY <1>3, BroadcastType, BroadcastSteady
<1>6. u.role = "LEADER"
  BY <1>3, <1>4 DEF node_broadcast_append_entries, Node
<1> HIDE DEF u
<1>7. Calm(s, u)
  BY <1>3, <1>4, <1>5, CalmTransitive DEF Steady
<1>8. SameApplied(s, u)
  BY <1>4, <1>5, Zenon DEF Steady, SameApplied
<1> QED
  BY <1>2, <1>6, <1>7, <1>8

\* The commit index advances.
LEMMA AdvanceCommitSteady ==
    ASSUME NEW s \in Node
    PROVE  Steady(s, node_advance_commit_index(s))
<1> DEFINE ready == {i \in (s.commit_index + 1)..node_last_log_index(s) :
                        /\ node_term_at_index(s, i) = s.current_term
                        /\ node_is_committed_under_current_configuration(s, i)}
           t == [s EXCEPT !.commit_index = Max(ready), !.persist_dirty = TRUE]
<1>1. node_advance_commit_index(s) = IF ready = {} THEN s ELSE t
  BY Zenon DEF node_advance_commit_index
<1> HIDE DEF ready
<1>2. Steady(s, t)
  BY NodeFields DEF Steady, Calm, SameApplied, SameSnapshot, Node
<1> HIDE DEF t
<1> QED
  BY <1>1, <1>2, SteadyReflexive, Zenon

\* node_handle_append_entries_response.
LEMMA AppendEntriesResponseSteady ==
    ASSUME NEW s \in Node, NEW m \in Message
    PROVE  Steady(s, node_handle_append_entries_response(s, m))
<1> DEFINE t == node_handle_term_update(s, m)
           k == node_peer_index(t, m.source)
           a == Acknowledged(t, k, m.match_index)
           b == BackedOff(t, k)
<1>1. t \in Node /\ Steady(s, t)
  BY TermUpdateType, TermUpdateSteady
<1> HIDE DEF t
<1>2. ASSUME k \in 1..RAFT_MAX_PEERS
      PROVE  /\ Steady(s, node_advance_commit_index(a))
             /\ Steady(s, node_send_append_entries_to(b, m.source))
  <2>1. m.source \in Server
    BY <1>1, <1>2, PeerIsServer
  <2> HIDE DEF k
  <2>2. a \in Node /\ b \in Node
    BY <1>1, <1>2, MessageFields, AcknowledgedType, BackedOffType
  <2>3. Steady(t, a) /\ Steady(t, b)
    BY <1>1, NodeFields DEF Acknowledged, BackedOff, Steady, Calm, SameApplied, SameSnapshot, Node
  <2> HIDE DEF a, b
  <2>4. Steady(s, a) /\ Steady(s, b)
    BY <1>1, <2>2, <2>3, SteadyTransitive
  <2>5. Steady(s, node_advance_commit_index(a))
    BY <2>2, <2>4, AdvanceCommitType, AdvanceCommitSteady, SteadyTransitive
  <2>6. AppendEntriesFor(b, m.source) \in Message
    BY <2>1, <2>2, AppendEntriesForType
  <2>7. /\ Steady(b, node_send_append_entries_to(b, m.source))
        /\ node_send_append_entries_to(b, m.source) \in Node
    BY <2>2, <2>6, AppendEntriesForQuotes, QueueSteady, QueueType
       DEF node_send_append_entries_to
  <2>8. Steady(s, node_send_append_entries_to(b, m.source))
    BY <2>2, <2>4, <2>7, SteadyTransitive
  <2> QED
    BY <2>5, <2>8
<1> QED
  BY <1>1, <1>2, Zenon DEF node_handle_append_entries_response, t

-----------------------------------------------------------------------------
(* A leader appends to its log.                                            *)

\* Handlers compose.
LEMMA HandlersCarry ==
    ASSUME NEW H, NEW s \in Node, NEW t \in Node, NEW u \in Node,
           Preserves(s, t), Preserves(t, u), Carries(H, s, t), Carries(H, t, u)
    PROVE  Carries(H, s, u)
<1>1. t.id = s.id /\ (t.persist_dirty => u.persist_dirty)
  BY Zenon DEF Preserves
<1> QED
  BY <1>1, CarriesTransitive

\* What appending changes.
LEMMA AppendedFields ==
    ASSUME NEW s \in Node, NEW c \in Command, s.log_count < RAFT_MAX_LOG
    PROVE  LET t == Appended(s, c)
           IN  /\ t.id = s.id /\ t.role = s.role /\ t.current_term = s.current_term
               /\ SameSnapshot(s, t) /\ t.outbox = s.outbox /\ t.persist_dirty
               /\ t.last_applied = s.last_applied /\ t.app = s.app
               /\ t.config_state = s.config_state
               /\ t.requested_membership = s.requested_membership
               /\ t.requested_membership_pending = s.requested_membership_pending
               /\ t.log_count = s.log_count + 1
               /\ \A p \in 1..s.log_count : t.log[p] = s.log[p]
               /\ \A p \in 1..RAFT_MAX_LOG : p = s.log_count + 1 \/ t.log[p] = s.log[p]
               /\ t.log[s.log_count + 1].leader_id = s.id
               /\ t.log[s.log_count + 1].term = s.current_term
               /\ t.log[s.log_count + 1].command = c
<1> DEFINE e == [index |-> node_last_log_index(s) + 1, term |-> s.current_term,
                 leader_id |-> s.id, command |-> c]
           t == Appended(s, c)
           last == s.log_count + 1
<1>1. /\ s.log_count \in Nat /\ last \in 1..RAFT_MAX_LOG
      /\ s.log \in [1..RAFT_MAX_LOG -> Entry]
  BY NodeFields, LimitAssumption
<1>2. /\ t.id = s.id /\ t.role = s.role /\ t.current_term = s.current_term
      /\ SameSnapshot(s, t) /\ t.outbox = s.outbox /\ t.persist_dirty
      /\ t.last_applied = s.last_applied /\ t.app = s.app
      /\ t.config_state = s.config_state
      /\ t.requested_membership = s.requested_membership
      /\ t.requested_membership_pending = s.requested_membership_pending
      /\ t.log = [s.log EXCEPT ![last] = e] /\ t.log_count = last
  BY DEF Appended, SameSnapshot, Node
<1>3. e.leader_id = s.id /\ e.term = s.current_term /\ e.command = c
  OBVIOUS
<1> HIDE DEF t, e
<1>4. t.log[last] = e
  BY <1>1, <1>2, Zenon
<1>5. ASSUME NEW p \in 1..RAFT_MAX_LOG, p # last PROVE t.log[p] = s.log[p]
  <2> HIDE DEF last
  <2> QED
    BY <1>1, <1>2, <1>5, Zenon
<1>6. ASSUME NEW p \in 1..s.log_count PROVE t.log[p] = s.log[p]
  <2>1. p \in 1..RAFT_MAX_LOG /\ p # last
    BY <1>1, LimitAssumption
  <2> QED
    BY <1>5, <2>1
<1> QED
  BY <1>2, <1>3, <1>4, <1>5, <1>6, Zenon DEF t

\* The log of a node is a sequence of entries.
LEMMA LogOfFields ==
    ASSUME NEW s \in Node
    PROVE  /\ LogOf(s) \in Seq(Entry) /\ Len(LogOf(s)) = s.log_count
           /\ \A p \in 1..s.log_count : LogOf(s)[p] = s.log[p]
<1>1. /\ s.log_count \in Nat /\ s.log \in [1..RAFT_MAX_LOG -> Entry]
      /\ RAFT_MAX_LOG \in Nat /\ s.log_count <= RAFT_MAX_LOG
  BY NodeFields, LimitAssumption
<1>2. \A p \in 1..s.log_count : s.log[p] \in Entry
  BY <1>1
<1> QED
  BY <1>1, <1>2 DEF LogOf

\* A leader's new entry agrees with every log of the history.
LEMMA AppendedCarries ==
    ASSUME NEW H, NEW s \in Node, NEW c \in Command, s.log_count < RAFT_MAX_LOG,
           s.role = "LEADER"
    PROVE  Carries(H, s, Appended(s, c))
<1> DEFINE t == Appended(s, c)
           g == LogOf(t)
           last == s.log_count + 1
<1>1. t \in Node
  BY AppendedType
<1>2. /\ t.id = s.id /\ t.role = "LEADER" /\ t.current_term = s.current_term
      /\ SameSnapshot(s, t) /\ t.outbox = s.outbox /\ t.persist_dirty
      /\ t.log_count = last /\ \A p \in 1..s.log_count : t.log[p] = s.log[p]
      /\ t.log[last].leader_id = s.id /\ t.log[last].term = s.current_term
  BY AppendedFields
<1> HIDE DEF t
<1> SUFFICES ASSUME NEW F, History(F), Fits(s, F)
             PROVE  \E E : /\ History(E) /\ Extension(s.id, F, E) /\ Fits(t, E)
                           /\ E = F \/ t.persist_dirty
  BY Zenon DEF Carries, t
<1>3. /\ s.log_count \in Nat /\ last \in Nat /\ s.id \in Server /\ s.current_term \in Nat
  BY NodeFields, LimitAssumption
<1>4. /\ g \in Seq(Entry) /\ Len(g) = last
      /\ \A p \in 1..last : g[p] = t.log[p]
  BY <1>1, <1>2, LogOfFields
<1>5. PICK f \in F : s.log_count <= Len(f) /\ \A p \in 1..s.log_count : s.log[p] = f[p]
  BY DEF Fits, Within
<1>6. f \in Seq(Entry) /\ Len(f) \in Nat /\ F \subseteq Seq(Entry)
  BY DEF History
<1> HIDE DEF g
<1>7. \A p \in 1..last : p \in 1..s.log_count \/ p = last
  BY <1>3
<1>8. /\ \A p \in 1..s.log_count : g[p] = f[p] /\ p \in 1..Len(f) /\ p \in 1..last
      /\ g[last].leader_id = s.id /\ g[last].term = s.current_term
  <2>1. \A p \in 1..s.log_count : p \in 1..Len(f) /\ p \in 1..last
    BY <1>3, <1>5, <1>6
  <2>2. last \in 1..last
    BY <1>3
  <2> QED
    BY <1>2, <1>4, <1>5, <2>1, <2>2
<1>9. ASSUME NEW h \in F, NEW p \in 1..Len(h), p <= last,
             CreatedBy(h, p, g[p].leader_id, g[p].term)
      PROVE  p \in 1..s.log_count
  <2>1. p \in 1..last
    <3>1. Len(h) \in Nat
      BY <1>6
    <3> QED
      BY <1>3, <1>9, <3>1
  <2>2. ASSUME p = last PROVE FALSE
    <3>1. CreatedBy(h, p, s.id, s.current_term)
      BY <1>8, <1>9, <2>2
    <3>2. p <= s.log_count
      BY <3>1 DEF Fits, NoneBehind
    <3> QED
      BY <1>3, <2>2, <3>2
  <2> QED
    BY <1>7, <2>1, <2>2
<1>10. ASSUME NEW h \in F, NEW p \in 1..s.log_count, p <= Len(h),
              CreatedBy(h, p, g[p].leader_id, g[p].term)
       PROVE  \A q \in 1..p : h[q] = g[q]
  <2>1. p \in 1..Len(h)
    <3>1. Len(h) \in Nat
      BY <1>6
    <3> QED
      BY <1>3, <1>10, <3>1
  <2>2. p <= Len(f) /\ CreatedBy(h, p, f[p].leader_id, f[p].term)
    BY <1>3, <1>6, <1>8, <1>10 DEF CreatedBy
  <2>3. \A q \in 1..p : h[q] = f[q]
    BY <2>1, <2>2 DEF History, Agree
  <2>4. \A q \in 1..p : q \in 1..s.log_count
    BY <1>3
  <2> QED
    BY <1>8, <2>3, <2>4
<1>11. ASSUME NEW h \in F PROVE Agree(h, g) /\ Agree(g, h)
  <2>1. Agree(h, g)
    BY <1>4, <1>9, <1>10 DEF Agree
  <2>2. ASSUME NEW p \in 1..Len(g), p <= Len(h), CreatedBy(g, p, h[p].leader_id, h[p].term)
        PROVE  \A q \in 1..p : g[q] = h[q]
    <3>1. p \in 1..Len(h) /\ p <= last
      <4>1. Len(h) \in Nat
        BY <1>6
      <4> QED
        BY <1>3, <1>4, <2>2, <4>1
    <3>2. CreatedBy(h, p, g[p].leader_id, g[p].term)
      BY <2>2 DEF CreatedBy
    <3> QED
      BY <1>9, <1>10, <2>2, <3>1, <3>2
  <2> QED
    BY <2>1, <2>2 DEF Agree
<1> DEFINE E == F \cup {g}
<1>12. History(E)
  <2>1. E \subseteq Seq(Entry) /\ << >> \in E
    BY <1>4 DEF History
  <2>2. ASSUME NEW p \in 1..Len(g) PROVE g[p].leader_id \in Server
    <3>1. CASE p \in 1..s.log_count
      BY <1>8, <3>1 DEF History
    <3>2. CASE p = last
      BY <1>3, <1>8, <3>2
    <3> QED
      BY <1>4, <1>7, <3>1, <3>2
  <2>3. Agree(g, g)
    BY DEF Agree
  <2>4. \A h \in E : \A p \in 1..Len(h) : h[p].leader_id \in Server
    BY <2>2 DEF History
  <2>5. \A h, k \in E : Agree(h, k)
    BY <1>11, <2>3 DEF History
  <2> QED
    BY <2>1, <2>4, <2>5, Zenon DEF History
<1>13. Extension(s.id, F, E)
  <2>1. ASSUME NEW p \in 1..Len(g), g[p].leader_id # s.id
        PROVE  \E h \in F : p <= Len(h) /\ h[p] = g[p]
    <3>1. p \in 1..s.log_count
      BY <1>4, <1>7, <1>8, <2>1
    <3>2. p <= Len(f) /\ f[p] = g[p]
      BY <1>6, <1>8, <3>1
    <3> QED
      BY <3>2
  <2>2. ASSUME NEW h \in F, NEW p \in 1..Len(h) PROVE \E k \in F : p <= Len(k) /\ k[p] = h[p]
    BY <2>2
  <2> QED
    BY <2>1, <2>2 DEF Extension
<1>14. Fits(t, E)
  <2>1. t.snapshot_last_included_index = 0
    BY <1>2, Zenon DEF Fits, SameSnapshot
  <2>2. Within(t.log, t.log_count, E)
    <3>1. g \in E /\ t.log_count <= Len(g) /\ \A p \in 1..t.log_count : t.log[p] = g[p]
      BY <1>2, <1>3, <1>4
    <3> HIDE DEF E
    <3> QED
      BY <3>1, Zenon DEF Within
  <2>3. \A m \in t.outbox : Covered(m, E)
    <3>1. \A m : Covered(m, F) => Covered(m, E)
      BY LargerHistory
    <3> QED
      BY <1>2, <3>1, Zenon DEF Fits
  <2>4. ASSUME NEW h \in E, NEW p \in 1..Len(h), h[p].leader_id = s.id
        PROVE  h[p].term <= s.current_term /\ (h[p].term = s.current_term => p <= last)
    <3>1. ASSUME NEW k \in F, NEW q \in 1..Len(k), k[q].leader_id = s.id
          PROVE  k[q].term <= s.current_term /\ (k[q].term = s.current_term => q <= last)
      <4>1. k[q].term <= s.current_term /\ Len(k) \in Nat
        BY <1>6, <3>1 DEF Fits, TermsUpTo
      <4>2. k[q].term = s.current_term => q <= s.log_count
        BY <3>1 DEF Fits, NoneBehind, CreatedBy
      <4> QED
        BY <1>3, <4>1, <4>2
    <3>2. CASE h \in F
      BY <2>4, <3>1, <3>2
    <3>3. CASE h = g
      <4>1. p \in 1..last
        BY <1>4, <3>3
      <4>2. CASE p = last
        BY <1>3, <1>8, <3>3, <4>2
      <4>3. CASE p \in 1..s.log_count
        <5>1. p \in 1..Len(f) /\ f[p] = h[p]
          BY <1>8, <3>3, <4>3
        <5> QED
          BY <2>4, <3>1, <5>1
      <4> QED
        BY <1>7, <4>1, <4>2, <4>3
    <3> QED
      BY <3>2, <3>3
  <2> HIDE DEF E
  <2>5. TermsUpTo(t.id, t.current_term, E)
    BY <1>2, <2>4 DEF TermsUpTo
  <2>6. NoneBehind(t, t.log_count, E)
    BY <1>2, <2>4 DEF NoneBehind, CreatedBy
  <2> QED
    BY <1>2, <2>1, <2>2, <2>3, <2>5, <2>6 DEF Fits
<1> HIDE DEF E
<1> QED
  BY <1>2, <1>12, <1>13, <1>14, Zenon

\* Appending and broadcasting a command.
LEMMA AppendAndBroadcastCarries ==
    ASSUME NEW H, NEW s \in Node, NEW c \in Command, s.log_count < RAFT_MAX_LOG,
           s.role = "LEADER"
    PROVE  Carries(H, s, AppendAndBroadcast(s, c))
<1> DEFINE t == Appended(s, c)
           u == node_broadcast_append_entries(t)
<1>1. t \in Node /\ Preserves(s, t) /\ Carries(H, s, t)
  BY AppendedType, AppendedHandled, AppendedCarries DEF Handled
<1> HIDE DEF t
<1>2. u \in Node /\ Preserves(t, u) /\ Steady(t, u)
  BY <1>1, BroadcastHandled, BroadcastType, BroadcastSteady DEF Handled
<1>3. AppendAndBroadcast(s, c) = u
  BY DEF AppendAndBroadcast, t
<1> HIDE DEF u
<1>4. Carries(H, t, u)
  BY <1>1, <1>2, SteadyCarries
<1> QED
  BY <1>1, <1>2, <1>3, <1>4, HandlersCarry

\* node_append_internal_command, called by a leader.
LEMMA AppendInternalCarries ==
    ASSUME NEW H, NEW s \in Node, NEW op \in InternalOp, s.role = "LEADER"
    PROVE  Carries(H, s, AppendInternal(s, op))
<1>1. [op |-> op, value |-> 0, members |-> s.requested_membership] \in Command
  BY NodeFields DEF Command
<1>2. s.log_count < RAFT_MAX_LOG \/ s.log_count >= RAFT_MAX_LOG
  BY NodeFields, LimitAssumption
<1>3. CASE s.log_count >= RAFT_MAX_LOG
  BY <1>3, SteadyReflexive, SteadyCarries, Zenon DEF AppendInternal
<1>4. CASE s.log_count < RAFT_MAX_LOG /\ ~(s.log_count >= RAFT_MAX_LOG)
  BY <1>1, <1>4, AppendAndBroadcastCarries, Zenon DEF AppendInternal
<1> QED
  BY <1>2, <1>3, <1>4

\* node_maybe_drive_membership.
LEMMA DriveMembershipCarries ==
    ASSUME NEW H, NEW s \in Node
    PROVE  Carries(H, s, node_maybe_drive_membership(s))
<1> DEFINE u == node_maybe_drive_membership(s)
           joint == configuration_is_joint(s.config_state)
           i == AppendInternalIndex(s)
           enter == AppendInternal(s, "enter_joint")
           leave == AppendInternal(s, "leave_joint")
           Keeps(a, b) == Steady(a, b) /\ Quiet(a, b)
<1>1. u \in Node
  BY DriveMembershipType
<1>2. CASE ~node_is_leader(s)
  BY <1>2, SteadyReflexive, SteadyCarries, Zenon DEF node_maybe_drive_membership
<1>3. CASE node_is_leader(s)
  <2>1. /\ enter \in Node /\ Preserves(s, enter) /\ Carries(H, s, enter)
        /\ leave \in Node /\ Preserves(s, leave) /\ Carries(H, s, leave)
    BY <1>3, AppendInternalType, AppendInternalHandled, AppendInternalCarries, Zenon
       DEF InternalOp, Handled, node_is_leader
  <2> HIDE DEF enter, leave, i, joint
  <2>2. /\ Keeps(enter, [enter EXCEPT !.joint_config_index = i,
                           !.membership_state = IF i > 0 THEN "JOINT_PENDING" ELSE @])
        /\ Keeps(leave, [leave EXCEPT !.final_config_index = i,
                           !.membership_state = IF i > 0 THEN "FINALIZING" ELSE @])
        /\ Keeps(s, [s EXCEPT !.membership_state = "JOINT"])
        /\ Keeps(s, [s EXCEPT !.membership_state = "STABLE"])
        /\ Keeps(s, s)
    <3> DEFINE a == [enter EXCEPT !.joint_config_index = i,
                       !.membership_state = IF i > 0 THEN "JOINT_PENDING" ELSE @]
               b == [leave EXCEPT !.final_config_index = i,
                       !.membership_state = IF i > 0 THEN "FINALIZING" ELSE @]
    <3>1. Steady(enter, a) /\ Quiet(enter, a)
      BY <2>1, NodeFields DEF Steady, Calm, SameApplied, Quiet, SameSnapshot, Node
    <3>2. Steady(leave, b) /\ Quiet(leave, b)
      BY <2>1, NodeFields DEF Steady, Calm, SameApplied, Quiet, SameSnapshot, Node
    <3>3. /\ Steady(s, [s EXCEPT !.membership_state = "JOINT"])
          /\ Steady(s, [s EXCEPT !.membership_state = "STABLE"])
      BY NodeFields DEF Steady, Calm, SameApplied, SameSnapshot, Node
    <3>4. /\ Quiet(s, [s EXCEPT !.membership_state = "JOINT"])
          /\ Quiet(s, [s EXCEPT !.membership_state = "STABLE"])
      BY NodeFields DEF Quiet, SameSnapshot, Node
    <3>5. Steady(s, s) /\ Quiet(s, s)
      BY SteadyReflexive, HandledReflexive
    <3> QED
      BY <3>1, <3>2, <3>3, <3>4, <3>5, Zenon
  <2>3. \E t \in {s, enter, leave} : Keeps(t, u)
    <3> HIDE DEF Keeps
    <3> QED
      BY <2>2 DEF node_maybe_drive_membership, enter, leave, i, joint
  <2> HIDE DEF u
  <2>4. ASSUME NEW t \in {s, enter, leave}, Keeps(t, u) PROVE Carries(H, s, u)
    <3>1. t \in Node /\ Preserves(s, t) /\ Carries(H, s, t)
      BY <2>1, HandledReflexive, SteadyReflexive, SteadyCarries DEF Handled
    <3>2. Preserves(t, u) /\ Carries(H, t, u)
      BY <1>1, <2>4, <3>1, SteadyCarries, QuietPreserves
    <3> QED
      BY <1>1, <3>1, <3>2, HandlersCarry
  <2> QED
    BY <2>3, <2>4, Zenon DEF u
<1> QED
  BY <1>2, <1>3

\* A latch.
LEMMA LatchedCarries ==
    ASSUME NEW H, NEW s \in Node, NEW r \in SUBSET Message,
           NEW commands, commands # << >> => commands \in Seq(Command)
    PROVE  Carries(H, s, Latched(s, r, commands))
<1> DEFINE responses == {m \in r : IsResponse(m)}
           m == CHOOSE m \in responses : TRUE
           t == IF responses = {} THEN s ELSE node_handle_append_entries_response(s, m)
<1>1. t \in Node /\ Preserves(s, t) /\ Carries(H, s, t)
  <2>1. CASE responses = {}
    BY <2>1, HandledReflexive, SteadyReflexive, SteadyCarries, Zenon DEF Handled
  <2>2. CASE responses # {}
    <3>1. m \in Message
      BY <2>2
    <3> DEFINE a == node_handle_append_entries_response(s, m)
    <3> HIDE DEF m, responses
    <3>2. a \in Node /\ Preserves(s, a) /\ Steady(s, a)
      BY <3>1, AppendEntriesResponseType, AppendEntriesResponseHandled,
         AppendEntriesResponseSteady DEF Handled
    <3> HIDE DEF a
    <3>3. Carries(H, s, a)
      BY <3>2, SteadyCarries
    <3> QED
      BY <2>2, <3>2, <3>3, Zenon DEF a
  <2> QED
    BY <2>1, <2>2
<1>2. Latched(s, r, commands) =
        IF commands # << >> /\ node_is_leader(t) /\ t.log_count < RAFT_MAX_LOG
        THEN AppendAndBroadcast(t, Head(commands))
        ELSE t
  BY Zenon DEF Latched
<1> HIDE DEF t
<1>3. ASSUME commands # << >>, t.log_count < RAFT_MAX_LOG, node_is_leader(t)
      PROVE  Carries(H, s, AppendAndBroadcast(t, Head(commands)))
  <2> DEFINE u == AppendAndBroadcast(t, Head(commands))
  <2>1. Head(commands) \in Command /\ t.role = "LEADER"
    BY <1>3 DEF node_is_leader
  <2>2. u \in Node /\ Preserves(t, u) /\ Carries(H, t, u)
    BY <1>1, <1>3, <2>1, AppendAndBroadcastHandled, AppendAndBroadcastType,
       AppendAndBroadcastCarries DEF Handled
  <2> HIDE DEF u
  <2>3. Carries(H, s, u)
    BY <1>1, <2>2, HandlersCarry
  <2> QED
    BY <2>3 DEF u
<1> QED
  BY <1>1, <1>2, <1>3

\* The beginning of a dump.
LEMMA AdvancedSteady ==
    ASSUME NEW s \in Node
    PROVE  Steady(s, Advanced(s))
BY AdvanceCommitSteady, SteadyReflexive, Zenon DEF Advanced

\* Applying the next committed entry leaves the log alone.
LEMMA ApplyNextCarries ==
    ASSUME NEW H, NEW s \in Node
    PROVE  Carries(H, s, ApplyNext(s))
<1> DEFINE i == s.last_applied + 1
           a == [s EXCEPT !.last_applied = i, !.persist_dirty = TRUE]
           c == LogEntryAt(s, i).command
           t == node_apply_command(a, c)
<1>1. i \in Nat
  BY NodeFields
<1>2. a \in Node /\ c \in Command
  <2> HIDE DEF i
  <2>1. a \in Node
    BY <1>1, Zenon DEF Node
  <2>2. c \in Command
    BY <1>1, LogEntryAtType DEF Entry
  <2> QED
    BY <2>1, <2>2
<1>3. /\ a.id = s.id /\ a.log = s.log /\ a.log_count = s.log_count /\ SameSnapshot(s, a)
      /\ a.outbox = s.outbox /\ a.role = s.role /\ a.current_term = s.current_term
  <2> HIDE DEF i
  <2> QED
    BY DEF SameSnapshot, Node
<1>4. ApplyNext(s) = t
  BY Zenon DEF ApplyNext
<1> HIDE DEF a, c
<1>5. t \in Node /\ Applied(a, t)
  BY <1>2, ApplyCommandType, ApplyCommandApplied
<1> HIDE DEF t, i
<1>6. /\ t.id = s.id /\ t.log = s.log /\ t.log_count = s.log_count /\ SameSnapshot(s, t)
      /\ t.outbox = s.outbox /\ t.role \in {s.role, "FOLLOWER"}
      /\ t.current_term = s.current_term
  BY <1>3, <1>5, Zenon DEF Applied, SameSnapshot
<1>7. s.current_term <= t.current_term
  BY <1>6, NodeFields
<1>8. Calm(s, t)
  BY <1>6, <1>7, Zenon DEF Calm
<1> QED
  BY <1>4, <1>5, <1>6, <1>8, CalmCarries

-----------------------------------------------------------------------------
(* A follower takes over the entries of a leader.                          *)

\* The entry of a log that a history has, up to its end, where its leader and term agree
\* with a log of the history.
LEMMA AgreeUpTo ==
    ASSUME NEW F, History(F), NEW f \in F, NEW g \in F, NEW i \in Nat, i <= Len(f), i <= Len(g),
           i > 0 => CreatedBy(f, i, g[i].leader_id, g[i].term)
    PROVE  \A q \in 1..i : f[q] = g[q]
<1>1. CASE i = 0
  BY <1>1
<1>2. CASE i > 0
  <2>1. Len(f) \in Nat
    BY DEF History
  <2>2. i \in 1..Len(f)
    BY <1>2, <2>1
  <2> QED
    BY <1>2, <2>2 DEF History, Agree
<1> QED
  BY <1>1, <1>2

\* The merged log is the beginning of a log of the history: at prev_log_index the log agrees
\* with the sender's, and every later entry that stays agrees with it in term and leader.
LEMMA MergeWithin ==
    ASSUME NEW F, History(F), NEW s \in Node, NEW m \in Message, PrevMatches(s, m),
           s.snapshot_last_included_index = 0, Within(s.log, s.log_count, F), Covered(m, F)
    PROVE  Within(MergedLog(s, m), MergedCount(s, m), F)
<1> DEFINE prev == m.prev_log_index
           n == Len(m.entries)
           count == MergedCount(s, m)
           log == MergedLog(s, m)
<1>1. /\ s.log_count \in Nat /\ prev \in Nat /\ n \in Nat /\ prev <= s.log_count
      /\ RAFT_MAX_LOG \in Nat /\ s.log_count <= RAFT_MAX_LOG
  BY MergeNumbers
<1>2. PICK f \in F : s.log_count <= Len(f) /\ \A p \in 1..s.log_count : s.log[p] = f[p]
  BY DEF Within
<1>3. CASE ~LogChanges(s, m)
  <2>1. count = s.log_count /\ \A p \in 1..s.log_count : log[p] = s.log[p]
    BY <1>3, MergeWithoutChange
  <2>2. \A p \in 1..count : log[p] = f[p]
    BY <1>2, <2>1, Zenon
  <2> QED
    BY <1>2, <2>1, <2>2, Zenon DEF Within
<1>4. CASE LogChanges(s, m)
  <2>1. m.entries # << >>
    <3>1. ASSUME n = 0 PROVE FALSE
      <4>1. \A k \in 1..n : FALSE
        BY <3>1
      <4>2. prev + n > node_last_log_index(s)
        BY <1>4, <4>1, Zenon DEF LogChanges
      <4> QED
        BY <1>1, <3>1, <4>2 DEF node_last_log_index
    <3>2. m.entries = << >> => n = 0
      OBVIOUS
    <3> QED
      BY <3>1, <3>2
  <2>2. PICK g \in F : Fragment(m, g, Len(g))
    BY DEF Covered
  <2>3. /\ prev + n <= Len(g)
        /\ \A k \in 1..n : m.entries[k] = g[prev + k]
        /\ prev > 0 => CreatedBy(g, prev, m.prev_log_leader_id, m.prev_log_term)
    BY <2>1, <2>2 DEF Fragment
  <2>4. Len(f) \in Nat /\ Len(g) \in Nat /\ f \in Seq(Entry) /\ g \in Seq(Entry)
    BY DEF History
  <2>5. ASSUME NEW i \in 1..s.log_count
        PROVE  /\ node_has_log_index(s, i) /\ i > 0
               /\ node_term_at_index(s, i) = f[i].term
               /\ node_leader_at_index(s, i) = f[i].leader_id
    <3>1. i - s.snapshot_last_included_index = i /\ i \in 1..RAFT_MAX_LOG /\ i # 0 /\ i > 0
      BY <1>1
    <3>2. LogEntryAt(s, i) = s.log[i]
      BY <3>1, Zenon DEF LogEntryAt, node_physical_index
    <3>3. node_has_log_index(s, i)
      BY <1>1 DEF node_has_log_index, node_log_base_index, node_last_log_index
    <3>4. node_term_at_index(s, i) = s.log[i].term
      BY <3>1, <3>2, Zenon DEF node_term_at_index
    <3>5. node_leader_at_index(s, i) = s.log[i].leader_id
      BY <3>1, <3>2, <3>3, Zenon DEF node_leader_at_index
    <3> QED
      BY <1>2, <3>1, <3>3, <3>4, <3>5
  <2>6. \A q \in 1..prev : f[q] = g[q]
    <3>1. prev <= Len(f) /\ prev <= Len(g)
      BY <1>1, <1>2, <2>3, <2>4
    <3>2. ASSUME prev > 0 PROVE CreatedBy(f, prev, g[prev].leader_id, g[prev].term)
      <4>1. prev \in 1..s.log_count /\ prev \in 1..Len(g)
        BY <1>1, <2>4, <3>1, <3>2
      <4>2. g[prev].leader_id = m.prev_log_leader_id /\ g[prev].term = m.prev_log_term
        BY <2>3, <3>2 DEF CreatedBy
      <4>3. m.prev_log_leader_id # Nil
        <5>1. g[prev].leader_id \in Server
          BY <4>1 DEF History
        <5> QED
          BY <4>2, <5>1, ServerAssumption
      <4>4. /\ node_term_at_index(s, prev) = m.prev_log_term
            /\ node_leader_at_index(s, prev) = m.prev_log_leader_id
        BY <2>5, <3>2, <4>1, <4>3 DEF PrevMatches
      <4> QED
        BY <2>5, <4>1, <4>2, <4>4 DEF CreatedBy
    <3> QED
      BY <1>1, <3>1, <3>2, AgreeUpTo
  <2>7. count <= prev + n /\ count \in Nat /\ count <= RAFT_MAX_LOG
    <3>1. count = Smaller(RAFT_MAX_LOG, prev + n - s.snapshot_last_included_index)
      BY <1>4, Zenon DEF MergedCount
    <3> QED
      BY <1>1, <3>1 DEF Smaller
  <2>8. ASSUME NEW p \in 1..count PROVE log[p] = g[p]
    <3> DEFINE k == s.snapshot_last_included_index + p - prev
    <3>1. p \in 1..RAFT_MAX_LOG /\ k = p - prev /\ prev + k = p /\ k <= n /\ k \in Int /\ p \in Nat
      BY <1>1, <2>7
    <3>2. log[p] = IF /\ k \in 1..n
                      /\ \/ ~node_has_log_index(s, prev + k)
                         \/ \E j \in 1..k : Conflicts(s, m, j)
                   THEN m.entries[k] ELSE s.log[p]
      BY <3>1, Zenon DEF MergedLog
    <3> HIDE DEF k, log
    <3>3. CASE k \in 1..n /\ log[p] = m.entries[k]
      BY <2>3, <3>1, <3>3
    <3>4. CASE k \in 1..n /\ log[p] # m.entries[k]
      <4>1. /\ node_has_log_index(s, p) /\ log[p] = s.log[p]
            /\ \A j \in 1..k : ~Conflicts(s, m, j)
        BY <3>1, <3>2, <3>4, Zenon
      <4>2. ~Conflicts(s, m, k)
        <5>1. k \in 1..k
          BY <1>1, <3>4
        <5> QED
          BY <4>1, <5>1, Zenon
      <4>3. p \in 1..s.log_count
        BY <1>1, <3>1, <4>1 DEF node_has_log_index, node_log_base_index, node_last_log_index
      <4>4. m.entries[k] = g[p] /\ p \in 1..Len(g) /\ g[p].leader_id \in Server
        <5>1. m.entries[k] = g[p]
          BY <2>3, <3>1, <3>4
        <5>2. p \in 1..Len(g)
          BY <1>1, <2>3, <2>4, <2>7
        <5> QED
          BY <5>1, <5>2 DEF History
      <4>5. g[p].leader_id # Nil
        BY <4>4, ServerAssumption
      <4>6. node_term_at_index(s, p) = g[p].term /\ node_leader_at_index(s, p) = g[p].leader_id
        BY <3>1, <4>1, <4>2, <4>4, <4>5, Zenon DEF Conflicts
      <4>7. CreatedBy(f, p, g[p].leader_id, g[p].term)
        BY <2>5, <4>3, <4>6 DEF CreatedBy
      <4>8. p <= Len(f) /\ p <= Len(g) /\ p \in 1..p
        BY <1>1, <1>2, <2>4, <3>1, <4>3, <4>4
      <4>9. f[p] = g[p]
        BY <3>1, <4>7, <4>8, AgreeUpTo
      <4> QED
        BY <1>2, <4>1, <4>3, <4>9
    <3>5. CASE k \notin 1..n
      <4>1. p \in 1..prev /\ p \in 1..s.log_count
        BY <1>1, <3>1, <3>5
      <4> QED
        BY <1>2, <2>6, <3>2, <3>5, <4>1
    <3> QED
      BY <3>3, <3>4, <3>5
  <2>9. count <= Len(g)
    BY <1>1, <2>3, <2>4, <2>7
  <2> QED
    BY <2>8, <2>9, Zenon DEF Within
<1> QED
  BY <1>3, <1>4

\* The log of t is a part of every history that has the log of s, and covers what H covers.
Follows(H, s, t) ==
    /\ t.id = s.id /\ SameSnapshot(s, t) /\ s.current_term <= t.current_term
    /\ \A m \in t.outbox : m \in s.outbox \/ m.entries = << >>
    /\ \A F : /\ H \subseteq F /\ History(F) /\ s.snapshot_last_included_index = 0
              /\ Within(s.log, s.log_count, F)
              => Within(t.log, t.log_count, F)

\* Following composes.
LEMMA FollowsTransitive ==
    ASSUME NEW H, NEW s \in Node, NEW t \in Node, NEW u \in Node, Follows(H, s, t), Follows(H, t, u)
    PROVE  Follows(H, s, u)
<1>1. s.current_term <= u.current_term
  <2>1. s.current_term \in Nat /\ t.current_term \in Nat /\ u.current_term \in Nat
    BY NodeFields
  <2> QED
    BY <2>1 DEF Follows
<1>2. u.id = s.id /\ SameSnapshot(s, u)
  BY Zenon DEF Follows, SameSnapshot
<1>3. \A m \in u.outbox : m \in s.outbox \/ m.entries = << >>
  BY Zenon DEF Follows
<1>4. ASSUME NEW F, H \subseteq F, History(F), s.snapshot_last_included_index = 0,
             Within(s.log, s.log_count, F)
      PROVE  Within(u.log, u.log_count, F)
  <2>1. Within(t.log, t.log_count, F) /\ t.snapshot_last_included_index = 0
    BY <1>4, Zenon DEF Follows, SameSnapshot
  <2> QED
    BY <1>4, <2>1, Zenon DEF Follows
<1> QED
  BY <1>1, <1>2, <1>3, <1>4, Zenon DEF Follows

\* A node with the same log follows.
LEMMA SameLogFollows ==
    ASSUME NEW H, NEW s, NEW t, t.id = s.id, SameSnapshot(s, t), s.current_term <= t.current_term,
           t.log = s.log, t.log_count = s.log_count,
           \A m \in t.outbox : m \in s.outbox \/ m.entries = << >>
    PROVE  Follows(H, s, t)
BY Zenon DEF Follows

\* A follower's log becomes a part of the history that covers the message.
LEMMA MergeFollows ==
    ASSUME NEW H, NEW s \in Node, NEW m \in Message, Covered(m, H), PrevMatches(s, m)
    PROVE  Follows(H, s, node_append_entries_from_leader(s, m))
<1> DEFINE e == MergeEntries(s, m)
           rebuild == ReplacesApplied(s, m)
           t == UpdateCommit(e, m, rebuild)
<1>1. e \in Node /\ rebuild \in BOOLEAN
  BY MergeType DEF ReplacesApplied
<1>2. t = node_append_entries_from_leader(s, m)
  BY Zenon DEF node_append_entries_from_leader
<1>3. /\ e.id = s.id /\ e.outbox = s.outbox /\ e.current_term = s.current_term
      /\ e.log = MergedLog(s, m) /\ e.log_count = MergedCount(s, m) /\ SameSnapshot(s, e)
  BY DEF MergeEntries, SameSnapshot, Node
<1> HIDE DEF e, rebuild
<1>4. /\ t.id = e.id /\ t.outbox = e.outbox /\ t.current_term = e.current_term
      /\ t.log = e.log /\ t.log_count = e.log_count /\ SameSnapshot(e, t)
  BY <1>1, UpdateCommitFields
<1> HIDE DEF t
<1>5. /\ t.id = s.id /\ t.outbox = s.outbox /\ t.current_term = s.current_term
      /\ t.log = MergedLog(s, m) /\ t.log_count = MergedCount(s, m) /\ SameSnapshot(s, t)
  BY <1>3, <1>4, Zenon DEF SameSnapshot
<1>6. s.current_term <= t.current_term
  BY <1>5, NodeFields
<1>7. ASSUME NEW F, H \subseteq F, History(F), s.snapshot_last_included_index = 0,
             Within(s.log, s.log_count, F)
      PROVE  Within(t.log, t.log_count, F)
  <2>1. Covered(m, F)
    BY <1>7, LargerHistory
  <2>2. Within(MergedLog(s, m), MergedCount(s, m), F)
    BY <1>7, <2>1, MergeWithin
  <2> QED
    BY <1>5, <2>2, Zenon
<1> QED
  BY <1>2, <1>5, <1>6, <1>7, Zenon DEF Follows

\* node_handle_append_entries.
LEMMA AppendEntriesFollows ==
    ASSUME NEW H, NEW s \in Node, NEW m \in Message, Covered(m, H)
    PROVE  Follows(H, s, node_handle_append_entries(s, m))
<1> DEFINE t  == node_handle_term_update(s, m)
           l  == [t EXCEPT !.leader_id = m.source]
           ok == m.term = t.current_term /\ PrevMatches(l, m)
           w  == node_append_entries_from_leader(l, m)
           u  == IF m.term # t.current_term THEN t ELSE IF ok THEN w ELSE l
           response == [ZeroMessage EXCEPT
                          !.kind = "APPEND_ENTRIES_RESPONSE", !.term = u.current_term,
                          !.success = ok, !.match_index = node_last_log_index(u),
                          !.source = s.id, !.target = m.source]
           v == node_queue_message(u, response)
<1>1. t \in Node /\ Follows(H, s, t)
  <2>1. t \in Node /\ Steady(s, t)
    BY TermUpdateType, TermUpdateSteady
  <2>2. t.outbox = s.outbox
    BY DEF node_handle_term_update, Node
  <2> HIDE DEF t
  <2>3. Follows(H, s, t)
    BY <2>1, <2>2, SameLogFollows, Zenon DEF Steady, Calm
  <2> QED
    BY <2>1, <2>3
<1>2. l \in Node /\ Follows(H, s, l)
  <2> HIDE DEF t
  <2>1. l \in Node
    BY <1>1, MessageFields, Zenon DEF Node
  <2>2. /\ l.id = t.id /\ SameSnapshot(t, l) /\ l.current_term = t.current_term
        /\ l.log = t.log /\ l.log_count = t.log_count /\ l.outbox = t.outbox
    BY <1>1 DEF SameSnapshot, Node
  <2> HIDE DEF l
  <2>3. t.current_term <= l.current_term
    BY <1>1, <2>2, NodeFields
  <2>4. Follows(H, t, l)
    BY <2>2, <2>3, SameLogFollows, Zenon
  <2> QED
    BY <1>1, <2>1, <2>4, FollowsTransitive
<1>3. ASSUME ok PROVE w \in Node /\ Follows(H, s, w)
  <2> HIDE DEF t, l
  <2>1. w \in Node
    <3>1. w = UpdateCommit(MergeEntries(l, m), m, ReplacesApplied(l, m))
      BY Zenon DEF node_append_entries_from_leader
    <3>2. MergeEntries(l, m) \in Node /\ ReplacesApplied(l, m) \in BOOLEAN
      BY <1>2, <1>3, MergeType DEF ReplacesApplied
    <3> QED
      BY <3>1, <3>2, UpdateCommitType
  <2>2. Follows(H, l, w)
    BY <1>2, <1>3, MergeFollows
  <2> HIDE DEF w
  <2> QED
    BY <1>2, <2>1, <2>2, FollowsTransitive
<1>4. u \in Node /\ Follows(H, s, u)
  <2>1. u \in {t, l} \/ (ok /\ u = w)
    BY Zenon
  <2> HIDE DEF t, l, u, w, ok
  <2> QED
    BY <1>1, <1>2, <1>3, <2>1, Zenon
<1>5. response.entries = << >>
  <2> HIDE DEF u, ok
  <2> QED
    BY DEF ZeroMessage
<1>6. v = node_handle_append_entries(s, m)
  BY Zenon DEF node_handle_append_entries
<1>7. v \in Node
  BY <1>6, AppendEntriesType
<1> HIDE DEF t, u, response
<1>8. /\ v.id = u.id /\ SameSnapshot(u, v) /\ v.current_term = u.current_term
      /\ v.log = u.log /\ v.log_count = u.log_count /\ v.outbox = u.outbox \cup {response}
  BY <1>4 DEF node_queue_message, SameSnapshot, Node
<1> HIDE DEF v
<1>9. u.current_term <= v.current_term
  BY <1>4, <1>8, NodeFields
<1>10. Follows(H, u, v)
  BY <1>5, <1>8, <1>9, SameLogFollows, Zenon
<1> QED
  BY <1>4, <1>6, <1>7, <1>10, FollowsTransitive

\* A node that ends as a follower keeps every history if its log follows.
LEMMA FollowerCarries ==
    ASSUME NEW H, NEW s \in Node, NEW t \in Node, Follows(H, s, t)
    PROVE  LET u == [t EXCEPT !.role = "FOLLOWER"]
           IN  u \in Node /\ Carries(H, s, u)
<1> DEFINE u == [t EXCEPT !.role = "FOLLOWER"]
<1>1. u \in Node
  BY Zenon DEF Node, Role
<1>2. /\ u.id = t.id /\ SameSnapshot(t, u) /\ u.current_term = t.current_term
      /\ u.log = t.log /\ u.log_count = t.log_count /\ u.outbox = t.outbox
      /\ u.role = "FOLLOWER"
  BY DEF SameSnapshot, Node
<1> HIDE DEF u
<1>3. u.current_term \in Nat /\ s.current_term \in Nat /\ s.current_term <= u.current_term
      /\ u.id = s.id
  BY <1>1, <1>2, NodeFields DEF Follows
<1> SUFFICES ASSUME NEW F, H \subseteq F, History(F), Fits(s, F)
             PROVE  Fits(u, F)
  BY <1>1, ExtensionReflexive, Zenon DEF Carries, u
<1>4. u.snapshot_last_included_index = 0 /\ Within(u.log, u.log_count, F)
  BY <1>2, Zenon DEF Fits, Follows, SameSnapshot
<1>5. ASSUME NEW m \in u.outbox PROVE Covered(m, F)
  <2>1. CASE m \in s.outbox
    BY <2>1, Zenon DEF Fits
  <2>2. CASE m.entries = << >>
    BY <2>2, Zenon DEF Covered, Fragment, History
  <2> QED
    BY <1>2, <1>5, <2>1, <2>2, Zenon DEF Follows
<1>6. TermsUpTo(u.id, u.current_term, F)
  <2>1. ASSUME NEW f \in F, NEW p \in 1..Len(f), f[p].leader_id = s.id
        PROVE  f[p].term <= u.current_term
    <3>1. f[p] \in Entry
      BY DEF History
    <3>2. f[p].term \in Nat /\ f[p].term <= s.current_term
      BY <2>1, <3>1 DEF Fits, TermsUpTo, Entry
    <3> QED
      BY <1>3, <3>2
  <2> QED
    BY <1>3, <2>1 DEF TermsUpTo
<1> QED
  BY <1>2, <1>4, <1>5, <1>6 DEF Fits

-----------------------------------------------------------------------------
(* Nodes, files and messages.                                              *)

\* The files of node n, for the history H of what is durable.
Filed(n, d, H) ==
    /\ d.meta.snapshot_last_included_index = 0
    /\ Within(d.log, Len(d.log), H)
    /\ TermsUpTo(n, d.meta.current_term, H)

\* A node between two ticks.
Rests(s, d, H) == Fits(s, H) /\ s.outbox = {} /\ s.current_term = d.meta.current_term

\* A node in its tick: what it has appended and not saved makes a larger history.
Works(s, d, H) ==
    \E F : /\ History(F) /\ Extension(s.id, H, F) /\ Fits(s, F)
           /\ s.persist_dirty \/ (F = H /\ s.current_term = d.meta.current_term)

\* Everything in the cluster is part of the history H.
Recorded(H) ==
    /\ History(H)
    /\ \A m \in net : Covered(m, H)
    /\ \A n \in Server : /\ node[n].id = n /\ Filed(n, disk[n], H)
                         /\ IF n = tick.node THEN Works(node[n], disk[n], H)
                            ELSE Rests(node[n], disk[n], H)

\* The inductive invariant.
MatchInv == \E H : Recorded(H)

\* A node may begin a tick.
LEMMA RestsWorks ==
    ASSUME NEW H, History(H), NEW s, NEW d, Rests(s, d, H)
    PROVE  Works(s, d, H)
BY ExtensionReflexive, Zenon DEF Rests, Works

\* A handler in a tick.
LEMMA WorksStep ==
    ASSUME NEW H, History(H), NEW s \in Node, NEW t \in Node, NEW d,
           Works(s, d, H), Preserves(s, t), Carries(H, s, t)
    PROVE  Works(t, d, H)
<1>1. PICK F : /\ History(F) /\ Extension(s.id, H, F) /\ Fits(s, F)
               /\ s.persist_dirty \/ (F = H /\ s.current_term = d.meta.current_term)
  BY Zenon DEF Works
<1>2. H \subseteq F
  BY <1>1 DEF Extension
<1>3. PICK E : /\ History(E) /\ Extension(s.id, F, E) /\ Fits(t, E)
               /\ E = F \/ t.persist_dirty
  BY <1>1, <1>2, Zenon DEF Carries
<1>4. Extension(s.id, H, E)
  BY <1>1, <1>3, ExtensionTransitive, Zenon DEF History
<1>5. t.id = s.id
  BY Zenon DEF Preserves
<1>6. t.persist_dirty \/ (~s.persist_dirty /\ t.current_term = s.current_term)
  BY DEF Preserves, PersistentState
<1> QED
  BY <1>1, <1>3, <1>4, <1>5, <1>6, Zenon DEF Works

\* The entries of node n concern no other node.
LEMMA OthersRest ==
    ASSUME NEW H, NEW E, History(H), History(E), NEW n, NEW s, NEW d, s.id # n,
           Extension(n, H, E)
    PROVE  /\ Filed(s.id, d, H) => Filed(s.id, d, E)
           /\ Rests(s, d, H) => Rests(s, d, E)
<1>1. ASSUME NEW f \in E, NEW p \in 1..Len(f), f[p].leader_id = s.id
      PROVE  \E g \in H : p \in 1..Len(g) /\ g[p] = f[p]
  <2>1. PICK g \in H : p <= Len(g) /\ g[p] = f[p]
    BY <1>1, Zenon DEF Extension
  <2>2. Len(g) \in Nat /\ Len(f) \in Nat
    BY DEF History
  <2>3. p \in 1..Len(g)
    BY <2>1, <2>2
  <2> QED
    BY <2>1, <2>3
<1>2. /\ \A log, k : Within(log, k, H) => Within(log, k, E)
      /\ \A m : Covered(m, H) => Covered(m, E)
  BY LargerHistory DEF Extension
<1>3. ASSUME NEW t, TermsUpTo(s.id, t, H) PROVE TermsUpTo(s.id, t, E)
  <2>1. ASSUME NEW f \in E, NEW p \in 1..Len(f), f[p].leader_id = s.id
        PROVE  f[p].term <= t
    <3>1. PICK g \in H : p \in 1..Len(g) /\ g[p] = f[p]
      BY <1>1, <2>1
    <3> QED
      BY <1>3, <2>1, <3>1 DEF TermsUpTo
  <2> QED
    BY <2>1 DEF TermsUpTo
<1>4. ASSUME NEW i, NoneBehind(s, i, H) PROVE NoneBehind(s, i, E)
  <2>1. ASSUME NEW f \in E, NEW p \in 1..Len(f), CreatedBy(f, p, s.id, s.current_term)
        PROVE  p <= i
    <3>1. PICK g \in H : p \in 1..Len(g) /\ g[p] = f[p]
      BY <1>1, <2>1 DEF CreatedBy
    <3> QED
      BY <1>4, <2>1, <3>1 DEF NoneBehind, CreatedBy
  <2> QED
    BY <2>1 DEF NoneBehind
<1>5. Fits(s, H) => Fits(s, E)
  BY <1>2, <1>3, <1>4, Zenon DEF Fits
<1> QED
  BY <1>2, <1>3, <1>5, Zenon DEF Filed, Rests

\* A step of node n that makes E of H durable.
LEMMA NodeMatch ==
    ASSUME NEW H, Recorded(H), NEW E, History(E), NEW n \in Server, tick.node \in {Nil, n},
           Extension(n, H, E), TypeOK,
           \A p \in Server \ {n} : node'[p] = node[p] /\ disk'[p] = disk[p],
           \A m \in net' : Covered(m, E),
           node'[n].id = n, Filed(n, disk'[n], E),
           \/ tick'.node = n /\ Works(node'[n], disk'[n], E)
           \/ tick'.node = Nil /\ Rests(node'[n], disk'[n], E)
    PROVE  MatchInv'
<1>1. Nil \notin Server
  BY ServerAssumption
<1>2. ASSUME NEW p \in Server, p # n
      PROVE  /\ node'[p].id = p /\ Filed(p, disk'[p], E) /\ Rests(node'[p], disk'[p], E)
             /\ p # tick'.node
  <2>1. p # tick.node /\ p # tick'.node
    BY <1>1, <1>2
  <2>2. node[p].id = p /\ Filed(p, disk[p], H) /\ Rests(node[p], disk[p], H) /\ History(H)
    BY <2>1, Zenon DEF Recorded
  <2>3. Filed(p, disk[p], E) /\ Rests(node[p], disk[p], E)
    BY <1>2, <2>2, OthersRest
  <2>4. node'[p] = node[p] /\ disk'[p] = disk[p]
    BY <1>2
  <2> QED
    BY <2>1, <2>2, <2>3, <2>4, Zenon
<1>3. IF n = tick'.node THEN Works(node'[n], disk'[n], E) ELSE Rests(node'[n], disk'[n], E)
  BY <1>1, Zenon
<1>4. ASSUME NEW p \in Server
      PROVE  /\ node'[p].id = p /\ Filed(p, disk'[p], E)
             /\ IF p = tick'.node THEN Works(node'[p], disk'[p], E)
                ELSE Rests(node'[p], disk'[p], E)
  BY <1>2, <1>3, Zenon
<1> QED
  BY <1>4, Zenon DEF MatchInv, Recorded

\* A step of a tick that changes memory only.
LEMMA MemoryMatch ==
    ASSUME NEW H, Recorded(H), TypeOK, NEW n \in Server, tick.node \in {Nil, n},
           NEW t, t.id = n, Works(t, disk[n], H),
           node' = [node EXCEPT ![n] = t], tick'.node = n, UNCHANGED <<disk, net>>
    PROVE  MatchInv'
<1>1. /\ node'[n] = t /\ disk'[n] = disk[n] /\ net' = net
      /\ \A p \in Server \ {n} : node'[p] = node[p] /\ disk'[p] = disk[p]
  BY Zenon DEF TypeOK
<1>2. Extension(n, H, H) /\ History(H) /\ Filed(n, disk[n], H) /\ \A m \in net : Covered(m, H)
  BY ExtensionReflexive, Zenon DEF Recorded
<1>3. Works(node'[n], disk'[n], H) /\ node'[n].id = n /\ Filed(n, disk'[n], H)
      /\ \A m \in net' : Covered(m, H)
  BY <1>1, <1>2, Zenon
<1> QED
  BY <1>1, <1>2, <1>3, NodeMatch, Zenon

\* What of a node is working when its tick goes on, or begins.
LEMMA NodeWorks ==
    ASSUME NEW H, Recorded(H), NEW n \in Server, tick.node \in {Nil, n}
    PROVE  Works(node[n], disk[n], H) /\ node[n].id = n /\ History(H)
BY RestsWorks, Zenon DEF Recorded

\* The log that was saved.
LEMMA WrittenLog ==
    ASSUME NEW t \in Node
    PROVE  /\ Len(write_log(t)) = t.log_count
           /\ \A p \in 1..t.log_count : write_log(t)[p] = t.log[p]
           /\ write_meta(t).current_term = t.current_term
           /\ write_meta(t).snapshot_last_included_index = t.snapshot_last_included_index
<1>1. t.log_count \in Nat
  BY NodeFields, LimitAssumption
<1> QED
  BY <1>1 DEF write_log, write_meta

\* A node that fits a history and is saved.
LEMMA SavedFiled ==
    ASSUME NEW E, NEW t \in Node, Fits(t, E), NEW f,
           f.meta = write_meta(t), f.log = write_log(t)
    PROVE  Filed(t.id, f, E)
<1>1. /\ f.meta.snapshot_last_included_index = 0 /\ f.meta.current_term = t.current_term
      /\ Len(f.log) = t.log_count /\ \A p \in 1..t.log_count : f.log[p] = t.log[p]
  BY WrittenLog DEF Fits
<1>2. PICK g \in E : t.log_count <= Len(g) /\ \A p \in 1..t.log_count : t.log[p] = g[p]
  BY DEF Fits, Within
<1>3. Within(f.log, Len(f.log), E)
  <2>1. \A p \in 1..Len(f.log) : f.log[p] = g[p]
    BY <1>1, <1>2, Zenon
  <2> QED
    BY <1>1, <1>2, <2>1, Zenon DEF Within
<1>4. TermsUpTo(t.id, f.meta.current_term, E)
  BY <1>1, Zenon DEF Fits
<1> QED
  BY <1>1, <1>3, <1>4 DEF Filed

\* The end of a dump, if nothing is compacted.
LEMMA NothingCompacted ==
    ASSUME NEW s \in Node, Compacted(s).snapshot_last_included_index = 0
    PROVE  Compacted(s) = node_maybe_drive_membership(s)
<1> DEFINE u == node_maybe_drive_membership(s)
           t == node_do_compact(u)
<1>1. u \in Node
  BY DriveMembershipType
<1>2. Compacted(s) = IF Compacts(u) THEN t ELSE u
  BY Zenon DEF Compacted
<1> HIDE DEF u
<1>3. ASSUME Compacts(u) PROVE FALSE
  <2>1. t.snapshot_last_included_index > u.snapshot_last_included_index
    BY <1>1, <1>3, DoCompactPreserves
  <2>2. u.snapshot_last_included_index \in Nat
    BY <1>1, NodeFields
  <2>3. t.snapshot_last_included_index = 0
    BY <1>2, <1>3, Zenon
  <2> HIDE DEF t
  <2> QED
    BY <2>1, <2>2, <2>3
<1> QED
  BY <1>2, <1>3, Zenon DEF u

\* What the end of a dump writes to meta.txt and log.txt.
LEMMA SavedFiles ==
    ASSUME NEW s \in Node, NEW t \in Node, NEW d \in Disk
    PROVE  LET e == DiskAfterCompaction(d, s, t)
               f == raft_storage_node_save(e, t)
           IN  /\ e \in Disk /\ e.meta = d.meta /\ e.log = d.log
               /\ f \in Disk /\ f.meta = write_meta(t) /\ f.log = write_log(t)
BY DumpedFiles, Zenon

\* The end of a dump makes the larger history durable.
LEMMA FinishDumpMatch ==
    ASSUME NEW H, Recorded(H), TypeOK, NEW n \in Server, tick.node \in {Nil, n},
           NEW s \in Node, s.id = n, Works(s, disk[n], H), NotCompacted',
           NEW received, FinishDump(n, s, received)
    PROVE  MatchInv'
<1> DEFINE t == Compacted(s)
           d == DiskAfterCompaction(disk[n], s, t)
           saved == IF t.persist_dirty THEN raft_storage_node_save(d, t) ELSE d
           sent == [t EXCEPT !.persist_dirty = FALSE, !.outbox = {}]
<1>1. disk[n] \in Disk /\ t \in Node
  BY CompactedType DEF TypeOK
<1>2. /\ disk' = [disk EXCEPT ![n] = saved] /\ node' = [node EXCEPT ![n] = sent]
      /\ Deliver(received, t.outbox) /\ tick'.node = Nil
  BY Zenon DEF FinishDump, NoTick
<1> HIDE DEF t
<1>3. /\ sent.id = t.id /\ sent.role = t.role /\ sent.current_term = t.current_term
      /\ sent.log = t.log /\ sent.log_count = t.log_count /\ SameSnapshot(t, sent)
      /\ sent.outbox = {}
  BY <1>1 DEF SameSnapshot, Node
<1>4. /\ d \in Disk /\ d.meta = disk[n].meta /\ d.log = disk[n].log
      /\ t.persist_dirty => saved.meta = write_meta(t) /\ saved.log = write_log(t)
      /\ ~t.persist_dirty => saved = d
  <2> DEFINE f == raft_storage_node_save(d, t)
  <2>1. /\ d \in Disk /\ d.meta = disk[n].meta /\ d.log = disk[n].log
        /\ f.meta = write_meta(t) /\ f.log = write_log(t)
    BY <1>1, SavedFiles
  <2> HIDE DEF d, f
  <2> QED
    BY <2>1, Zenon DEF f
<1> HIDE DEF d, saved, sent
<1>5. /\ node'[n] = sent /\ disk'[n] = saved
      /\ \A p \in Server \ {n} : node'[p] = node[p] /\ disk'[p] = disk[p]
  BY <1>2, Zenon DEF TypeOK
<1>6. t.snapshot_last_included_index = 0
  BY <1>3, <1>5, Zenon DEF NotCompacted, SameSnapshot
<1>7. Works(t, disk[n], H) /\ t.id = n
  <2>1. t = node_maybe_drive_membership(s)
    BY <1>6, NothingCompacted DEF t
  <2>2. Preserves(s, t) /\ Carries(H, s, t)
    BY <2>1, DriveMembershipHandled, DriveMembershipCarries DEF Handled
  <2>3. History(H)
    BY Zenon DEF Recorded
  <2>4. t.id = s.id
    BY <2>2, Zenon DEF Preserves
  <2> QED
    BY <1>1, <2>2, <2>3, <2>4, WorksStep
<1>8. PICK E : /\ History(E) /\ Extension(n, H, E) /\ Fits(t, E)
               /\ t.persist_dirty \/ (E = H /\ t.current_term = disk[n].meta.current_term)
  BY <1>7, Zenon DEF Works
<1>9. Filed(n, saved, E) /\ saved.meta.current_term = t.current_term
  <2>1. CASE t.persist_dirty
    <3>1. saved.meta.current_term = t.current_term
      BY <1>1, <1>4, <2>1, WrittenLog
    <3> QED
      BY <1>1, <1>4, <1>7, <1>8, <2>1, <3>1, SavedFiled
  <2>2. CASE ~t.persist_dirty
    <3>1. E = H /\ saved.meta = disk[n].meta /\ saved.log = disk[n].log
          /\ t.current_term = disk[n].meta.current_term
      BY <1>4, <1>8, <2>2, Zenon
    <3>2. Filed(n, disk[n], H)
      BY Zenon DEF Recorded
    <3> QED
      BY <3>1, <3>2, Zenon DEF Filed
  <2> QED
    BY <2>1, <2>2
<1>10. Fits(sent, E)
  <2>1. \A i : NoneBehind(t, i, E) => NoneBehind(sent, i, E)
    BY <1>3, Zenon DEF NoneBehind
  <2> QED
    BY <1>3, <1>8, <2>1, Zenon DEF Fits, SameSnapshot
<1>11. Rests(sent, saved, E) /\ sent.id = n
  BY <1>3, <1>7, <1>9, <1>10, Zenon DEF Rests
<1>12. ASSUME NEW m \in net' PROVE Covered(m, E)
  <2>1. m \in net \/ m \in t.outbox
    BY <1>2, <1>12 DEF Deliver, Accepted
  <2>2. Covered(m, H) => Covered(m, E)
    BY <1>8, LargerHistory DEF Extension
  <2> QED
    BY <1>8, <2>1, <2>2, Zenon DEF Recorded, Fits
<1>13. Rests(node'[n], disk'[n], E) /\ node'[n].id = n /\ Filed(n, disk'[n], E)
  BY <1>5, <1>9, <1>11, Zenon
<1> QED
  BY <1>2, <1>5, <1>8, <1>12, <1>13, NodeMatch, Zenon

\* The dump that ends or follows a row of the table.
LEMMA DumpMatch ==
    ASSUME NEW H, Recorded(H), TypeOK, NEW n \in Server, tick.node \in {Nil, n},
           NEW s \in Node, s.id = n, Works(s, disk[n], H), NotCompacted',
           NEW r, Dump(n, s, r)
    PROVE  MatchInv'
<1> DEFINE t == Advanced(s)
           received == tick.received \cup r
<1>1. t \in Node /\ Works(t, disk[n], H) /\ t.id = n
  <2>1. t \in Node /\ Preserves(s, t) /\ Steady(s, t)
    BY AdvancedType, AdvancedHandled, AdvancedSteady DEF Handled
  <2> HIDE DEF t
  <2>2. Carries(H, s, t)
    BY <2>1, SteadyCarries
  <2>3. t.id = s.id
    BY <2>1, Zenon DEF Preserves
  <2> QED
    BY <2>1, <2>2, <2>3, WorksStep DEF Recorded
<1>2. \/ /\ node' = [node EXCEPT ![n] = t]
         /\ tick' = [node |-> n, step |-> "dump", received |-> received]
         /\ UNCHANGED <<disk, net, crashes, calls>>
      \/ FinishDump(n, t, received)
  BY Zenon DEF Dump
<1> HIDE DEF t, received
<1>3. CASE FinishDump(n, t, received)
  BY <1>1, <1>3, FinishDumpMatch
<1>4. CASE /\ node' = [node EXCEPT ![n] = t]
           /\ tick' = [node |-> n, step |-> "dump", received |-> received]
           /\ UNCHANGED <<disk, net, crashes, calls>>
  <2>1. tick'.node = n /\ UNCHANGED <<disk, net>>
    BY <1>4
  <2> QED
    BY <1>1, <1>4, <2>1, MemoryMatch, Zenon
<1> QED
  BY <1>2, <1>3, <1>4

\* Every row of RAFT_TRANSITIONS, with the dump after it.
LEMMA TransitionMatch ==
    ASSUME NEW H, Recorded(H), TypeOK, LogInv, NEW n \in Server, tick.node \in {Nil, n},
           NEW s \in Node, s.id = n, Works(s, disk[n], H), NotCompacted',
           NEW r \in SUBSET net, Transition(n, s, r)
    PROVE  MatchInv'
<1>0. /\ History(H)
      /\ \A m \in r : m \in Message /\ (LogsSurvive => Ordered(m)) /\ Covered(m, H)
  BY DEF TypeOK, LogInv, Recorded
<1>a. ASSUME NEW t \in Node, Preserves(s, t), Carries(H, s, t), Dump(n, t, r)
      PROVE  MatchInv'
  <2>1. t.id = n
    BY <1>a, Zenon DEF Preserves
  <2>2. Works(t, disk[n], H)
    BY <1>0, <1>a, WorksStep
  <2> QED
    BY <1>a, <2>1, <2>2, DumpMatch
<1>b. ASSUME NEW t \in Node, Handled(s, t), Steady(s, t), Dump(n, t, r)
      PROVE  MatchInv'
  BY <1>a, <1>b, SteadyCarries DEF Handled
<1>c. ASSUME NEW t \in Node, Preserves(s, t)
      PROVE  Preserves(s, [t EXCEPT !.role = "FOLLOWER"])
  <2> DEFINE f == [t EXCEPT !.role = "FOLLOWER"]
  <2>1. f \in Node
    BY Zenon DEF Node, Role
  <2>2. Quiet(t, f)
    BY NodeFields DEF Quiet, SameSnapshot, Node
  <2> HIDE DEF f
  <2>3. Preserves(t, f)
    BY <2>1, <2>2, QuietPreserves
  <2>4. Preserves(s, f)
    BY <1>c, <2>1, <2>3, PreservesTransitive
  <2> QED
    BY <2>4 DEF f
<1>1. CASE BecomeCandidate(n, s, r)
  <2> DEFINE t == action_become_candidate(s)
  <2>1. t \in Node /\ Preserves(s, t)
    BY BecomeCandidateType, BecomeCandidateActed DEF Acted
  <2>2. Calm(s, t) /\ t.role = "CANDIDATE" /\ s.current_term < t.current_term
    BY BecomeCandidateCalm
  <2>3. Dump(n, t, r)
    BY <1>1, Zenon DEF BecomeCandidate
  <2> HIDE DEF t
  <2>4. Carries(H, s, t)
    BY <2>1, <2>2, CalmCarries
  <2> QED
    BY <1>a, <2>1, <2>3, <2>4
<1>2. CASE BackToFollower(n, s, r)
  BY <1>2, <1>b, BackToFollowerType, BackToFollowerHandled, BackToFollowerSteady, Zenon
     DEF BackToFollower
<1>3. CASE BecomeLeader(n, s, r)
  <2> DEFINE t == action_become_leader(s)
  <2>1. t \in Node /\ Preserves(s, t)
    BY BecomeLeaderType, BecomeLeaderActed DEF Acted
  <2>2. Calm(s, t) /\ t.role = "LEADER"
    BY BecomeLeaderCalm
  <2>3. Dump(n, t, r) /\ s.role = "CANDIDATE"
    BY <1>3, Zenon DEF BecomeLeader
  <2> HIDE DEF t
  <2>4. Carries(H, s, t)
    BY <2>1, <2>2, <2>3, CalmCarries
  <2> QED
    BY <1>a, <2>1, <2>3, <2>4
<1>4. CASE HandleAppendEntries(n, s, r)
  <2>1. PICK m \in Pending(r, "APPEND_ENTRIES") :
          Dump(n, [node_handle_append_entries(s, m) EXCEPT !.role = "FOLLOWER"], r)
    BY <1>4, Zenon DEF HandleAppendEntries
  <2>2. m \in Message /\ (LogsSurvive => Ordered(m)) /\ Covered(m, H)
    BY <1>0, <2>1, Zenon DEF Pending
  <2> DEFINE t == node_handle_append_entries(s, m)
             f == [t EXCEPT !.role = "FOLLOWER"]
  <2>3. t \in Node /\ Preserves(s, t) /\ Follows(H, s, t)
    BY <2>2, AppendEntriesType, AppendEntriesPreserves, AppendEntriesFollows
  <2> HIDE DEF t
  <2>4. f \in Node /\ Carries(H, s, f) /\ Preserves(s, f)
    BY <1>c, <2>3, FollowerCarries
  <2> QED
    BY <1>a, <2>1, <2>4, Zenon DEF t
<1>5. CASE HandleHigherVoteRequest(n, s, r)
  <2>1. PICK m \in Pending(r, "REQUEST_VOTE") :
          Dump(n, [node_handle_vote_request(s, m) EXCEPT !.role = "FOLLOWER"], r)
    BY <1>5, Zenon DEF HandleHigherVoteRequest
  <2>2. m \in Message
    BY <1>0, <2>1, Zenon DEF Pending
  <2> DEFINE t == node_handle_vote_request(s, m)
             f == [t EXCEPT !.role = "FOLLOWER"]
  <2>3. t \in Node /\ Preserves(s, t) /\ Steady(s, t)
    BY <2>2, VoteRequestType, VoteRequestHandled, VoteRequestSteady DEF Handled
  <2> HIDE DEF t
  <2>4. f \in Node /\ Steady(t, f)
    <3>1. f \in Node
      BY <2>3, Zenon DEF Node, Role
    <3>2. Steady(t, f)
      BY <2>3, NodeFields DEF Steady, Calm, SameApplied, SameSnapshot, Node
    <3> QED
      BY <3>1, <3>2
  <2>5. Preserves(s, f)
    BY <1>c, <2>3
  <2> HIDE DEF f
  <2>6. Carries(H, s, f)
    BY <2>3, <2>4, SteadyTransitive, SteadyCarries
  <2> QED
    BY <1>a, <2>1, <2>4, <2>5, <2>6, Zenon DEF t, f
<1>6. CASE HandleVoteRequest(n, s, r)
  <2>1. PICK m \in Pending(r, "REQUEST_VOTE") :
          Dump(n, IF s.role = "LEADER" THEN s ELSE node_handle_vote_request(s, m), r)
    BY <1>6, Zenon DEF HandleVoteRequest
  <2>2. m \in Message
    BY <1>0, <2>1, Zenon DEF Pending
  <2>3. CASE s.role = "LEADER"
    BY <1>b, <2>1, <2>3, HandledReflexive, SteadyReflexive, Zenon
  <2>4. CASE s.role # "LEADER"
    BY <1>b, <2>1, <2>2, <2>4, VoteRequestType, VoteRequestHandled, VoteRequestSteady, Zenon
  <2> QED
    BY <2>3, <2>4
<1>7. CASE HandleVote(n, s, r)
  <2>1. PICK m \in Pending(r, "REQUEST_VOTE_RESPONSE") :
          Dump(n, IF s.role = "CANDIDATE" THEN node_handle_vote_response(s, m) ELSE s, r)
    BY <1>7, Zenon DEF HandleVote
  <2>2. m \in Message
    BY <1>0, <2>1, Zenon DEF Pending
  <2>3. CASE s.role = "CANDIDATE"
    BY <1>b, <2>1, <2>2, <2>3, VoteResponseType, VoteResponseHandled, VoteResponseSteady, Zenon
  <2>4. CASE s.role # "CANDIDATE"
    BY <1>b, <2>1, <2>4, HandledReflexive, SteadyReflexive, Zenon
  <2> QED
    BY <2>3, <2>4
<1>8. CASE SendHeartbeat(n, s, r)
  BY <1>8, <1>b, BroadcastType, BroadcastHandled, BroadcastSteady, Zenon DEF SendHeartbeat
<1>9. CASE NoTransition(n, s, r)
  BY <1>9, <1>b, HandledReflexive, SteadyReflexive, Zenon DEF NoTransition
<1> QED
  BY <1>1, <1>2, <1>3, <1>4, <1>5, <1>6, <1>7, <1>8, <1>9, Zenon DEF Transition

\* Every step of a node's tick.
LEMMA TickMatch ==
    ASSUME MatchInv, TypeOK, LogInv, NEW n \in Server, NotCompacted', Tick(n)
    PROVE  MatchInv'
<1>0. PICK H : Recorded(H)
  BY Zenon DEF MatchInv
<1>1. node[n] \in Node /\ net \in SUBSET Message
  BY DEF TypeOK
<1>2. CASE LatchResponse(n)
  <2>1. tick.node \in {Nil, n}
    BY <1>2, Zenon DEF LatchResponse, Latching, InTick
  <2>2. PICK m \in Inbox(n) :
          /\ node' = [node EXCEPT ![n] = node_handle_append_entries_response(@, m)]
          /\ tick' = [node |-> n, step |-> "latch", received |-> tick.received \cup {m}]
    BY <1>2, Zenon DEF LatchResponse
  <2> DEFINE t == node_handle_append_entries_response(node[n], m)
  <2>3. m \in Message
    BY <1>1, <2>2, Zenon DEF Inbox
  <2>4. t \in Node /\ Preserves(node[n], t) /\ Steady(node[n], t)
    BY <1>1, <2>3, AppendEntriesResponseType, AppendEntriesResponseHandled,
       AppendEntriesResponseSteady DEF Handled
  <2>5. node' = [node EXCEPT ![n] = t] /\ UNCHANGED <<disk, net>>
    BY <1>2, <2>2, Zenon DEF LatchResponse, TypeOK
  <2>6. tick'.node = n
    BY <2>2
  <2> HIDE DEF t
  <2>7. Works(node[n], disk[n], H) /\ node[n].id = n /\ History(H)
    BY <1>0, <2>1, NodeWorks
  <2>8. Carries(H, node[n], t)
    BY <1>1, <2>4, SteadyCarries
  <2>9. Works(t, disk[n], H) /\ t.id = n
    BY <1>1, <2>4, <2>7, <2>8, WorksStep DEF Preserves
  <2> QED
    BY <1>0, <2>1, <2>5, <2>6, <2>9, MemoryMatch, Zenon
<1>3. CASE LatchAndRow(n)
  <2>1. PICK r \in Batches(n), commands \in Submitted(n) :
          Transition(n, Latched(node[n], r, commands), r)
    BY <1>3, Zenon DEF LatchAndRow
  <2>2. r \in SUBSET net /\ tick.node \in {Nil, n}
    <3>1. r \in SUBSET Inbox(n) /\ Latching(n)
      BY <2>1, Zenon DEF Batches
    <3> QED
      BY <3>1, Zenon DEF Inbox, Latching, InTick
  <2>3. commands # << >> => commands \in Seq(Command)
    <3>1. commands = << >> \/ \E c \in ClientCommands : commands = <<c>>
      BY <2>1, Zenon DEF Submitted
    <3>2. ClientCommands \subseteq Command
      BY BoundAssumption, Zenon
    <3>3. ASSUME NEW c \in Command PROVE <<c>> \in Seq(Command)
      OBVIOUS
    <3> QED
      BY <3>1, <3>2, <3>3, Zenon
  <2>4. r \in SUBSET Message
    BY <1>1, <2>2
  <2> DEFINE s == Latched(node[n], r, commands)
  <2>5. s \in Node /\ Preserves(node[n], s) /\ Carries(H, node[n], s)
    BY <1>1, <2>3, <2>4, LatchedType, LatchedHandled, LatchedCarries, Zenon DEF Handled
  <2> HIDE DEF s
  <2>6. Works(node[n], disk[n], H) /\ node[n].id = n /\ History(H)
    BY <1>0, <2>2, NodeWorks
  <2>7. Works(s, disk[n], H) /\ s.id = n
    BY <1>1, <2>5, <2>6, WorksStep DEF Preserves
  <2>8. Transition(n, s, r)
    BY <2>1 DEF s
  <2> QED
    BY <1>0, <2>2, <2>5, <2>7, <2>8, TransitionMatch
<1>4. CASE ApplyEntry(n)
  <2> DEFINE t == ApplyNext(node[n])
  <2>1. /\ node' = [node EXCEPT ![n] = t] /\ UNCHANGED <<disk, net>>
        /\ tick.node = n /\ tick' = tick
    BY <1>4, Zenon DEF ApplyEntry, TypeOK, InTick
  <2>2. t \in Node /\ Preserves(node[n], t) /\ Carries(H, node[n], t)
    BY <1>1, ApplyNextType, ApplyNextHandled, ApplyNextCarries DEF Handled
  <2> HIDE DEF t
  <2>3. Works(node[n], disk[n], H) /\ node[n].id = n /\ History(H)
    BY <1>0, <2>1, NodeWorks
  <2>4. Works(t, disk[n], H) /\ t.id = n
    BY <1>1, <2>2, <2>3, WorksStep DEF Preserves
  <2> QED
    BY <1>0, <2>1, <2>4, MemoryMatch, Zenon
<1>5. CASE FinishTick(n)
  <2>1. FinishDump(n, node[n], tick.received) /\ tick.node = n
    BY <1>5, Zenon DEF FinishTick, AllApplied, InTick
  <2>2. Works(node[n], disk[n], H) /\ node[n].id = n
    BY <1>0, <2>1, NodeWorks
  <2> QED
    BY <1>0, <1>1, <2>1, <2>2, FinishDumpMatch
<1> QED
  BY <1>2, <1>3, <1>4, <1>5, Zenon DEF Tick

\* What is loaded from files whose log starts with index 1.
LEMMA LoadedRests ==
    ASSUME NEW H, History(H), NEW n, NEW d \in Disk, LogBase(d, 0), Filed(n, d, H),
           NEW t \in Node, Loads(n, t, d), t.outbox = {}, t.role = "FOLLOWER"
    PROVE  Rests(t, d, H)
<1>1. /\ t.id = n /\ t.log = LoadedLog(d) /\ t.log_count = LoadedCount(d)
      /\ t.current_term = d.meta.current_term /\ d.meta.snapshot_last_included_index = 0
      /\ t.snapshot_last_included_index = 0
  BY Zenon DEF Loads, Filed, SameSnapshot
<1>2. SkippedLines(d) = 0
  <2>1. PICK b \in 0..0 : Consecutive(d.log, b)
    BY DEF LogBase
  <2>2. SkippedLines(d) = Smaller(Len(d.log), d.meta.snapshot_last_included_index - b)
    BY <1>1, <2>1, SkippedLinesOf
  <2>3. b = 0 /\ Len(d.log) \in Nat
    BY <2>1, DiskFields
  <2> QED
    BY <1>1, <2>2, <2>3 DEF Smaller
<1>3. /\ LoadedCount(d) \in 0..RAFT_MAX_LOG /\ LoadedCount(d) <= Len(d.log)
      /\ Len(d.log) \in Nat /\ RAFT_MAX_LOG \in Nat
  BY <1>2, LoadedCountType, DiskFields, LimitAssumption
<1>4. ASSUME NEW p \in 1..LoadedCount(d) PROVE LoadedLog(d)[p] = d.log[p] /\ p \in 1..Len(d.log)
  <2>1. p \in 1..RAFT_MAX_LOG /\ p <= LoadedCount(d) /\ p + 0 = p /\ p \in 1..Len(d.log)
    BY <1>3
  <2> QED
    BY <1>2, <2>1 DEF LoadedLog
<1>5. Within(t.log, t.log_count, H)
  <2>1. PICK f \in H : Len(d.log) <= Len(f) /\ \A p \in 1..Len(d.log) : d.log[p] = f[p]
    BY DEF Filed, Within
  <2>2. Len(f) \in Nat
    BY DEF History
  <2>3. LoadedCount(d) <= Len(f)
    BY <1>3, <2>1, <2>2
  <2>4. \A p \in 1..LoadedCount(d) : LoadedLog(d)[p] = f[p]
    BY <1>4, <2>1
  <2> QED
    BY <1>1, <2>3, <2>4, Zenon DEF Within
<1>6. TermsUpTo(t.id, t.current_term, H)
  BY <1>1, Zenon DEF Filed
<1>7. Fits(t, H)
  BY <1>1, <1>5, <1>6 DEF Fits
<1> QED
  BY <1>1, <1>7 DEF Rests

\* A crash anywhere in a tick: what was not saved is forgotten.
LEMMA FailMatch ==
    ASSUME MatchInv, TypeOK, LogInv, LogInv', LogsSurvive, NEW n \in Server, NotCompacted', Fail(n)
    PROVE  MatchInv'
<1> DEFINE s == node[n]
           t == Compacted(s)
           d == DiskAfterCompaction(disk[n], s, t)
           m == [d EXCEPT !.meta = write_meta(t)]
           f == raft_storage_node_save(d, t)
<1>0. PICK H : Recorded(H)
  BY Zenon DEF MatchInv
<1>1. s \in Node /\ disk[n] \in Disk /\ t \in Node
  BY CompactedType DEF TypeOK
<1>2. tick.node \in {Nil, n} /\ \E e \in {disk[n], d, m, f} : Reboot(n, e)
  BY Zenon DEF Fail, Crash, CrashAfterSnapshot, CrashAfterMeta, CrashAfterSave, AllApplied, InTick
<1>3. Works(s, disk[n], H) /\ s.id = n /\ History(H) /\ Filed(n, disk[n], H)
  BY <1>0, <1>2, NodeWorks, Zenon DEF Recorded
<1> HIDE DEF t
<1>4. /\ d \in Disk /\ d.meta = disk[n].meta /\ d.log = disk[n].log
      /\ m \in Disk /\ m.meta = write_meta(t) /\ m.log = disk[n].log
      /\ f \in Disk /\ f.meta = write_meta(t) /\ f.log = write_log(t)
  BY <1>1, DumpedFiles
<1> HIDE DEF d, m, f, s
<1>5. PICK e \in {disk[n], d, m, f} : Reboot(n, e)
  BY <1>2
<1>6. /\ e \in Disk
      /\ \/ e.meta = disk[n].meta /\ e.log = disk[n].log
         \/ e.meta = write_meta(t) /\ e.log \in {disk[n].log, write_log(t)}
  BY <1>1, <1>4, <1>5, Zenon
<1>7. /\ node' = [node EXCEPT ![n] = raft_node_init(n, e)] /\ disk' = [disk EXCEPT ![n] = e]
      /\ Deliver(tick.received, {}) /\ tick'.node = Nil
  BY <1>5, Zenon DEF Reboot, NoTick
<1>8. n \notin Learners
  <2>1. crashes < MaxCrashes
    BY <1>5, Zenon DEF Reboot
  <2>2. MaxCrashes # 0
    BY <2>1, BoundAssumption DEF TypeOK
  <2> QED
    BY <2>2 DEF LogsSurvive
<1>9. /\ node'[n] = raft_node_init(n, e) /\ disk'[n] = e
      /\ \A p \in Server \ {n} : node'[p] = node[p] /\ disk'[p] = disk[p]
  BY <1>7, Zenon DEF TypeOK
<1> DEFINE b == raft_node_init(n, e)
<1>10. b \in Node /\ b.outbox = {} /\ b.role = "FOLLOWER" /\ Loads(n, b, e)
  BY <1>6, <1>8, BootLoads, InitNodeType
<1> HIDE DEF b
<1>11. b.snapshot_last_included_index = 0 /\ e.meta.snapshot_last_included_index = 0
  BY <1>9, <1>10, Zenon DEF NotCompacted, Loads, SameSnapshot, b
<1>12. \E K : History(K) /\ Extension(n, H, K) /\ Filed(n, e, K)
  <2>1. CASE e.meta = disk[n].meta /\ e.log = disk[n].log
    BY <1>3, <2>1, ExtensionReflexive, Zenon DEF Filed
  <2>2. CASE e.meta = write_meta(t)
    <3>1. t.snapshot_last_included_index = 0
      BY <1>1, <1>11, <2>2, WrittenLog
    <3>2. t = node_maybe_drive_membership(s)
      BY <1>1, <3>1, NothingCompacted DEF t
    <3>3. Preserves(s, t) /\ Carries(H, s, t)
      BY <1>1, <3>2, DriveMembershipHandled, DriveMembershipCarries DEF Handled
    <3>4. t.id = n
      BY <1>3, <3>3, Zenon DEF Preserves
    <3>5. Works(t, disk[n], H)
      BY <1>1, <1>3, <3>3, WorksStep
    <3>6. PICK E : History(E) /\ Extension(n, H, E) /\ Fits(t, E)
      BY <3>4, <3>5, Zenon DEF Works
    <3>7. CASE e.log = write_log(t)
      BY <1>1, <2>2, <3>4, <3>6, <3>7, SavedFiled
    <3>8. CASE e.log = disk[n].log
      <4>1. TermsUpTo(n, t.current_term, H)
        BY <3>4, <3>6, LargerHistory DEF Extension, Fits
      <4>2. e.meta.current_term = t.current_term
        BY <1>1, <2>2, WrittenLog
      <4>3. Filed(n, e, H)
        BY <1>3, <1>11, <3>8, <4>1, <4>2, Zenon DEF Filed
      <4> QED
        BY <1>3, <4>3, ExtensionReflexive
    <3> QED
      BY <1>6, <2>2, <3>7, <3>8, <2>1
  <2> QED
    BY <1>6, <2>1, <2>2
<1>13. PICK K : History(K) /\ Extension(n, H, K) /\ Filed(n, e, K)
  BY <1>12
<1>14. LogBase(e, 0)
  <2>1. Process(n, node'[n], disk'[n])
    BY Zenon DEF LogInv
  <2> QED
    BY <1>9, <1>11, <2>1, Zenon DEF Process, FilesInPlace
<1>15. Rests(b, e, K)
  BY <1>6, <1>10, <1>13, <1>14, LoadedRests
<1>16. ASSUME NEW q \in net' PROVE Covered(q, K)
  <2>1. q \in net
    BY <1>7, <1>16 DEF Deliver, Accepted
  <2>2. Covered(q, H)
    BY <1>0, <2>1, Zenon DEF Recorded
  <2> QED
    BY <1>13, <2>2, LargerHistory DEF Extension
<1>17. Rests(node'[n], disk'[n], K) /\ node'[n].id = n /\ Filed(n, disk'[n], K)
  BY <1>9, <1>10, <1>13, <1>15, Zenon DEF b, Loads
<1> QED
  BY <1>0, <1>2, <1>7, <1>9, <1>13, <1>16, <1>17, NodeMatch, Zenon

\* The application's calls, without raft_node_reset_for_join.
LEMMA CallMatch ==
    ASSUME MatchInv, TypeOK, LogInv, LogsSurvive, Rejoining = {}, NEW n \in Server, Call(n)
    PROVE  MatchInv'
<1>0. PICK H : Recorded(H)
  BY Zenon DEF MatchInv
<1>1. node[n] \in Node /\ disk[n] \in Disk
  BY DEF TypeOK
<1>2. tick.node = Nil
  BY Zenon DEF Call, Stop, Start, RequestMembershipChange, ResetForJoin, Calls
<1>3. Nil # n
  BY ServerAssumption
<1>4. /\ History(H) /\ Rests(node[n], disk[n], H) /\ node[n].id = n /\ Filed(n, disk[n], H)
      /\ \A m \in net : Covered(m, H)
  BY <1>0, <1>2, <1>3, Zenon DEF Recorded
<1>a. ASSUME NEW t, t.id = n, Rests(t, disk[n], H), node' = [node EXCEPT ![n] = t],
             UNCHANGED <<disk, net, tick>>
      PROVE  MatchInv'
  <2>1. /\ node'[n] = t /\ disk'[n] = disk[n] /\ net' = net /\ tick' = tick
        /\ \A p \in Server \ {n} : node'[p] = node[p] /\ disk'[p] = disk[p]
    BY <1>a, Zenon DEF TypeOK
  <2>2. /\ Rests(node'[n], disk'[n], H) /\ node'[n].id = n /\ Filed(n, disk'[n], H)
        /\ \A m \in net' : Covered(m, H)
        /\ tick'.node = Nil /\ tick.node \in {Nil, n}
    BY <1>2, <1>4, <1>a, <2>1, Zenon
  <2>3. Extension(n, H, H)
    BY ExtensionReflexive
  <2> QED
    BY <1>0, <1>4, <2>1, <2>2, <2>3, NodeMatch, Zenon
<1>b. ASSUME NEW t \in Node, Calm(node[n], t), t.outbox = {}, t.role \in {node[n].role, "FOLLOWER"},
             t.current_term = node[n].current_term
      PROVE  t.id = n /\ Rests(t, disk[n], H)
  <2>1. t.id = n /\ SameSnapshot(node[n], t) /\ t.log = node[n].log /\ t.log_count = node[n].log_count
    BY <1>4, <1>b, Zenon DEF Calm
  <2>2. \A i : NoneBehind(node[n], i, H) => NoneBehind(t, i, H)
    BY <1>4, <1>b, <2>1, Zenon DEF NoneBehind
  <2>3. Fits(t, H)
    BY <1>4, <1>b, <2>1, <2>2 DEF Rests, Fits, SameSnapshot
  <2> QED
    BY <1>4, <1>b, <2>1, <2>3, Zenon DEF Rests
<1>5. CASE Stop(n)
  <2> DEFINE t == raft_node_stop(node[n])
  <2>1. node' = [node EXCEPT ![n] = t] /\ UNCHANGED <<disk, net, tick>>
    BY <1>5, Zenon DEF Stop, TypeOK
  <2>2. t \in Node
    BY <1>1, StopType
  <2>3. /\ Calm(node[n], t) /\ t.outbox = {} /\ t.role = "FOLLOWER"
        /\ t.current_term = node[n].current_term
    BY <1>1, NodeFields DEF raft_node_stop, Calm, SameSnapshot, Node
  <2> HIDE DEF t
  <2> QED
    BY <1>a, <1>b, <2>1, <2>2, <2>3
<1>6. CASE RequestMembershipChange(n)
  <2>1. PICK members \in Memberships :
          node' = [node EXCEPT ![n].requested_membership = members,
                               ![n].requested_membership_pending = @ \/ members # {}]
    BY <1>6, Zenon DEF RequestMembershipChange
  <2> DEFINE t == [node[n] EXCEPT !.requested_membership = members,
                                  !.requested_membership_pending = @ \/ members # {}]
  <2>2. node' = [node EXCEPT ![n] = t]
    BY <2>1 DEF TypeOK
  <2>3. UNCHANGED <<disk, net, tick>>
    BY <1>6, Zenon DEF RequestMembershipChange
  <2>4. t \in Node
    <3>1. TypeOK'
      BY CallType
    <3>2. node'[n] = t
      BY <2>2, Zenon DEF TypeOK
    <3> HIDE DEF t
    <3> QED
      BY <3>1, <3>2, Zenon DEF TypeOK
  <2>5. node[n].outbox = {}
    BY <1>4, Zenon DEF Rests
  <2>6. /\ Calm(node[n], t) /\ t.outbox = {} /\ t.role = node[n].role
        /\ t.current_term = node[n].current_term
    BY <1>1, <2>5, NodeFields DEF Calm, SameSnapshot, Node
  <2> HIDE DEF t
  <2> QED
    BY <1>a, <1>b, <2>2, <2>3, <2>4, <2>6
<1>7. CASE Start(n)
  <2> DEFINE t == raft_node_start(node[n], disk[n])
  <2>1. node' = [node EXCEPT ![n] = t] /\ UNCHANGED <<disk, net, tick>>
    BY <1>7, Zenon DEF Start, TypeOK
  <2>2. t \in Node
    BY <1>1, StartType
  <2>3. t.outbox = node[n].outbox /\ t.role = "FOLLOWER" /\ Loads(n, t, disk[n])
    BY <1>1, <1>4, StartLoads
  <2> HIDE DEF t
  <2>4. LogBase(disk[n], 0)
    <3>1. Process(n, node[n], disk[n]) /\ disk[n].meta.snapshot_last_included_index = 0
      BY <1>4, Zenon DEF LogInv, Filed
    <3> QED
      BY <3>1, Zenon DEF Process, FilesInPlace
  <2>5. t.outbox = {}
    BY <1>4, <2>3, Zenon DEF Rests
  <2>6. Rests(t, disk[n], H)
    BY <1>1, <1>4, <2>2, <2>3, <2>4, <2>5, LoadedRests
  <2>7. t.id = n
    BY <2>3, Zenon DEF Loads
  <2> QED
    BY <1>a, <2>1, <2>6, <2>7
<1>8. ~ResetForJoin(n)
  BY Zenon DEF ResetForJoin
<1> QED
  BY <1>5, <1>6, <1>7, <1>8, Zenon DEF Call

-----------------------------------------------------------------------------
(* The invariant and the theorem.                                          *)

\* At first the only log is the empty one.
LEMMA MatchInvInit ==
    ASSUME Init, LogsSurvive
    PROVE  MatchInv
<1> DEFINE H == {<< >>}
<1>1. /\ EmptyDisk \in Disk /\ EmptyDisk.log = << >>
      /\ EmptyDisk.meta.current_term = 0 /\ EmptyDisk.meta.snapshot_last_included_index = 0
  BY EmptyDiskType DEF EmptyDisk, NoMeta
<1>2. << >> \in Seq(Entry) /\ Len(<< >>) = 0
  OBVIOUS
<1>3. \A f \in H : f = << >> /\ \A p \in 1..Len(f) : FALSE
  BY <1>2
<1>4. History(H)
  BY <1>2, <1>3 DEF History, Agree
<1>5. /\ \A n, t : TermsUpTo(n, t, H)
      /\ \A log : Within(log, 0, H)
  BY <1>2, <1>3 DEF TermsUpTo, Within
<1> HIDE DEF H
<1>6. ASSUME NEW n \in Server
      PROVE  /\ raft_node_init(n, EmptyDisk).id = n /\ Filed(n, EmptyDisk, H)
             /\ Rests(raft_node_init(n, EmptyDisk), EmptyDisk, H)
  <2> DEFINE t == raft_node_init(n, EmptyDisk)
  <2>1. t \in Node
    BY <1>1, InitNodeType
  <2>2. Filed(n, EmptyDisk, H)
    BY <1>1, <1>2, <1>5 DEF Filed
  <2>3. CASE n \in Learners
    <3>1. /\ t.outbox = {} /\ t.role = "FOLLOWER" /\ t.id = n
          /\ t.log_count = 0 /\ t.current_term = 0 /\ t.snapshot_last_included_index = 0
      BY <1>1, <2>3, BootForgets
    <3> HIDE DEF t
    <3>2. Fits(t, H)
      BY <1>5, <3>1 DEF Fits
    <3>3. Rests(t, EmptyDisk, H)
      BY <1>1, <3>1, <3>2 DEF Rests
    <3> QED
      BY <2>2, <3>1, <3>3 DEF t
  <2>4. CASE n \notin Learners
    <3>1. t.outbox = {} /\ t.role = "FOLLOWER" /\ Loads(n, t, EmptyDisk)
      BY <1>1, <2>4, BootLoads
    <3> HIDE DEF t
    <3>2. LogBase(EmptyDisk, 0)
      BY <1>1 DEF LogBase, Consecutive
    <3>3. Rests(t, EmptyDisk, H)
      BY <1>1, <1>4, <2>1, <2>2, <3>1, <3>2, LoadedRests
    <3> QED
      BY <2>2, <3>1, <3>3, Zenon DEF t, Loads
  <2> QED
    BY <2>3, <2>4
<1>7. Nil \notin Server /\ tick.node = Nil
  BY ServerAssumption DEF Init, NoTick
<1>8. ASSUME NEW n \in Server
      PROVE  /\ node[n].id = n /\ Filed(n, disk[n], H) /\ n # tick.node
             /\ Rests(node[n], disk[n], H)
  <2>1. node[n] = raft_node_init(n, EmptyDisk) /\ disk[n] = EmptyDisk
    BY Zenon DEF Init
  <2> QED
    BY <1>6, <1>7, <2>1, Zenon
<1>9. \A m \in net : Covered(m, H)
  BY Zenon DEF Init
<1>10. Recorded(H)
  BY <1>4, <1>8, <1>9, Zenon DEF Recorded
<1> QED
  BY <1>10, Zenon DEF MatchInv

\* Every step keeps a history.
LEMMA MatchInvStep ==
    ASSUME LogsSurvive, Rejoining = {}, TypeOK, LogInv, LogInv', MatchInv, NotCompacted', [Next]_vars
    PROVE  MatchInv'
<1>1. ASSUME NEW n \in Server, Tick(n) \/ Fail(n) \/ Call(n) PROVE MatchInv'
  BY <1>1, TickMatch, FailMatch, CallMatch, Zenon
<1>2. CASE UNCHANGED vars
  BY <1>2, Zenon DEF vars, MatchInv, Recorded
<1>3. CASE QuietTicks
  BY <1>2, <1>3, Zenon DEF QuietTicks
<1> QED
  BY <1>1, <1>2, <1>3, Zenon DEF Next

\* All logs are parts of one history.
LEMMA MatchInvMatching ==
    ASSUME TypeOK, MatchInv
    PROVE  LogMatching
<1>1. PICK H : Recorded(H)
  BY Zenon DEF MatchInv
<1>2. PICK F : History(F) /\ \A n \in Server : Within(node[n].log, node[n].log_count, F)
  <2>1. CASE tick.node \in Server
    <3> DEFINE a == tick.node
    <3>1. PICK F : History(F) /\ Extension(node[a].id, H, F) /\ Fits(node[a], F)
      BY <1>1, <2>1, Zenon DEF Recorded, Works
    <3>2. ASSUME NEW n \in Server, n # a PROVE Within(node[n].log, node[n].log_count, F)
      <4>1. Within(node[n].log, node[n].log_count, H)
        BY <1>1, <3>2, Zenon DEF Recorded, Rests, Fits
      <4> QED
        BY <3>1, <4>1, LargerHistory DEF Extension
    <3>3. Within(node[a].log, node[a].log_count, F)
      BY <3>1, Zenon DEF Fits
    <3> QED
      BY <3>1, <3>2, <3>3, Zenon
  <2>2. CASE tick.node \notin Server
    BY <1>1, <2>2, Zenon DEF Recorded, Rests, Fits
  <2> QED
    BY <2>1, <2>2
<1>3. SUFFICES ASSUME NEW a \in Server, NEW b \in Server,
                      NEW p \in 1..Smaller(Len(LogOf(node[a])), Len(LogOf(node[b]))),
                      LogOf(node[a])[p].term = LogOf(node[b])[p].term,
                      LogOf(node[a])[p].leader_id = LogOf(node[b])[p].leader_id,
                      NEW q \in 1..p
               PROVE  LogOf(node[a])[q] = LogOf(node[b])[q]
  BY Zenon DEF LogMatching
<1> DEFINE la == LogOf(node[a])
           lb == LogOf(node[b])
<1>4. /\ Len(la) = node[a].log_count /\ \A i \in 1..Len(la) : la[i] = node[a].log[i]
      /\ Len(lb) = node[b].log_count /\ \A i \in 1..Len(lb) : lb[i] = node[b].log[i]
      /\ Len(la) \in Nat /\ Len(lb) \in Nat
  <2>1. node[a] \in Node /\ node[b] \in Node
    BY DEF TypeOK
  <2> QED
    BY <2>1, LogOfFields, NodeFields, LimitAssumption
<1>5. PICK f \in F : node[a].log_count <= Len(f)
                     /\ \A i \in 1..node[a].log_count : node[a].log[i] = f[i]
  BY <1>2 DEF Within
<1>6. PICK g \in F : node[b].log_count <= Len(g)
                     /\ \A i \in 1..node[b].log_count : node[b].log[i] = g[i]
  BY <1>2 DEF Within
<1> HIDE DEF la, lb
<1>7. /\ \A i \in 1..Len(la) : la[i] = f[i]
      /\ \A i \in 1..Len(lb) : lb[i] = g[i]
  BY <1>4, <1>5, <1>6, Zenon
<1>8. Len(f) \in Nat /\ Len(g) \in Nat
  BY <1>2 DEF History
<1>9. /\ p \in Nat /\ p \in 1..Len(la) /\ p \in 1..Len(lb) /\ p <= Len(f) /\ p <= Len(g)
      /\ q \in 1..Len(la) /\ q \in 1..Len(lb)
  BY <1>3, <1>4, <1>5, <1>6, <1>8 DEF Smaller, la, lb
<1>10. CreatedBy(f, p, g[p].leader_id, g[p].term)
  BY <1>3, <1>7, <1>9 DEF CreatedBy, la, lb
<1>11. f[q] = g[q]
  BY <1>2, <1>3, <1>9, <1>10, AgreeUpTo
<1> QED
  BY <1>7, <1>9, <1>11 DEF la, lb

\* As long as nothing is compacted, entries that one leader created in one term at one index
\* are the same entry, and the logs before them are the same: the consistency check at
\* prev_log_index and the comparison of term and leader_id at every later position are enough,
\* whatever is lost, reordered or delivered twice and wherever nodes crash, and even where two
\* leaders share a term.  A node that is reset or, as a learner, rebooted forgets its term and
\* could create an entry a second time, so neither happens here.
THEOREM LogsMatch ==
    ASSUME LogsSurvive, Rejoining = {}
    PROVE  Spec /\ []NotCompacted => []LogMatching
<1>1. Init => LogInv /\ MatchInv
  BY LogInvInit, MatchInvInit
<1>2. TypeOK /\ LogInv /\ [Next]_vars => LogInv'
  BY LogInvStep
<1>3. TypeOK /\ LogInv /\ LogInv' /\ MatchInv /\ NotCompacted' /\ [Next]_vars => MatchInv'
  BY MatchInvStep
<1>4. TypeOK /\ MatchInv => LogMatching
  BY MatchInvMatching
<1> QED
  BY <1>1, <1>2, <1>3, <1>4, TypeCorrect, PTL DEF Spec

=============================================================================
