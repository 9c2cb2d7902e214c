------------------------ MODULE RaftAppendLoopProofs ------------------------
(***************************************************************************)
(* The closed form of the loop over message.entries (MergeEntries and      *)
(* ReplacesApplied of RaftCore) is what the loop computes, for every log   *)
(* and every message: the model of the cluster, which uses the closed      *)
(* form, leaves nothing of the loop out.                                   *)
(*                                                                         *)
(* The invariant is the closed form for the entries the loop has passed:   *)
(* from the first conflict on everything is replaced, and once the loop    *)
(* has replaced an entry or has come to the end of the log, the number of  *)
(* entries is what the message says or the array is full.                  *)
(***************************************************************************)
EXTENDS RaftAppendLoop, TLAPS

With(st, log, count, dirty) ==
    [st EXCEPT !.log = log, !.log_count = count, !.persist_dirty = dirty]

ConflictUpTo(st, m, k) == \E j \in 1..k : Conflicts(st, m, j)

\* The first k entries of m are in the array when its capacity allows it.
ChangedBy(st, m, k) ==
    \/ ConflictUpTo(st, m, k)
    \/ m.prev_log_index + k > node_last_log_index(st) /\ st.log_count < RAFT_MAX_LOG

EntryOfSlot(st, m, p) == st.snapshot_last_included_index + p - m.prev_log_index

TakenFrom(st, m, k, p) ==
    LET j == EntryOfSlot(st, m, p)
    IN  /\ j \in 1..k
        /\ \/ ~node_has_log_index(st, m.prev_log_index + j)
           \/ ConflictUpTo(st, m, j)

LogAfter(st, m, k) ==
    [p \in 1..RAFT_MAX_LOG |->
        IF TakenFrom(st, m, k, p) THEN m.entries[EntryOfSlot(st, m, p)] ELSE st.log[p]]

CountAfter(st, m, k) ==
    IF ChangedBy(st, m, k)
    THEN Smaller(RAFT_MAX_LOG, m.prev_log_index + k - st.snapshot_last_included_index)
    ELSE st.log_count

After(st, m, k) ==
    With(st, LogAfter(st, m, k), CountAfter(st, m, k), st.persist_dirty \/ ChangedBy(st, m, k))

RebuildAfter(st, m, k) ==
    \E j \in 1..k : Conflicts(st, m, j) /\ m.prev_log_index + j <= st.last_applied

\* What the consistency check leaves for the loop.
Applicable(st, m) ==
    /\ st \in Node /\ m \in Message
    /\ m.prev_log_index >= st.snapshot_last_included_index
    /\ m.prev_log_index <= node_last_log_index(st)
    /\ \A k \in 1..Len(m.entries) : m.entries[k].index = m.prev_log_index + k

LoopInv ==
    /\ Applicable(start, message)
    /\ next \in 1..(Len(message.entries) + 1)
    /\ s = After(start, message, next - 1)
    /\ rebuild = RebuildAfter(start, message, next - 1)

-----------------------------------------------------------------------------
(* Records.                                                                *)

\* The fields of a node after an update.
LEMMA WithFields ==
    ASSUME NEW st \in Node, NEW l \in [1..RAFT_MAX_LOG -> Entry], NEW c \in 0..RAFT_MAX_LOG,
           NEW d \in BOOLEAN
    PROVE  /\ With(st, l, c, d) \in Node
           /\ With(st, l, c, d).log = l
           /\ With(st, l, c, d).log_count = c
           /\ With(st, l, c, d).persist_dirty = d
           /\ With(st, l, c, d).last_applied = st.last_applied
           /\ With(st, l, c, d).snapshot_last_included_index = st.snapshot_last_included_index
           /\ With(st, l, c, d).snapshot_last_included_term = st.snapshot_last_included_term
BY DEF With, Node

\* An update that changes nothing.
LEMMA WithSame ==
    ASSUME NEW st \in Node
    PROVE  With(st, st.log, st.log_count, st.persist_dirty) = st
BY Zenon DEF With, Node

\* The fields the loop reads.
LEMMA StartFields ==
    ASSUME NEW st \in Node
    PROVE  /\ st.log \in [1..RAFT_MAX_LOG -> Entry] /\ st.log_count \in 0..RAFT_MAX_LOG
           /\ st.snapshot_last_included_index \in Nat /\ st.last_applied \in Nat
           /\ st.persist_dirty \in BOOLEAN
BY DEF Node

\* The fields of a message the loop reads.
LEMMA ReceivedFields ==
    ASSUME NEW m \in Message
    PROVE  m.prev_log_index \in Nat /\ m.entries \in Seq(Entry) /\ Len(m.entries) \in Nat
<1>1. m.prev_log_index \in Nat /\ m.entries \in Seq(Entry)
  BY DEF Message
<1> QED BY <1>1

-----------------------------------------------------------------------------
(* The closed form.                                                        *)

\* The numbers the closed form is about.
LEMMA Numbers ==
    ASSUME NEW st, NEW m, Applicable(st, m)
    PROVE  /\ st.log_count \in 0..RAFT_MAX_LOG /\ RAFT_MAX_LOG \in Nat \ {0}
           /\ st.snapshot_last_included_index \in Nat /\ st.last_applied \in Nat
           /\ m.prev_log_index \in Nat /\ Len(m.entries) \in Nat
           /\ m.prev_log_index >= st.snapshot_last_included_index
           /\ m.prev_log_index <= st.snapshot_last_included_index + st.log_count
           /\ \A k \in 1..Len(m.entries) :
                  m.entries[k] \in Entry /\ m.entries[k].index = m.prev_log_index + k
BY StartFields, ReceivedFields, LimitAssumption DEF Applicable, node_last_log_index

\* Conflicts are with entries of the log.
LEMMA ConflictIsInLog ==
    ASSUME NEW st, NEW m, Applicable(st, m), NEW k \in Nat, Conflicts(st, m, k)
    PROVE  m.prev_log_index + k <= st.snapshot_last_included_index + st.log_count
BY Numbers DEF Conflicts, node_has_log_index, node_last_log_index, node_log_base_index

\* The closed form is a node that differs in the log, its length and persist_dirty.
LEMMA AfterFields ==
    ASSUME NEW st, NEW m, Applicable(st, m), NEW k \in 0..Len(m.entries)
    PROVE  /\ LogAfter(st, m, k) \in [1..RAFT_MAX_LOG -> Entry]
           /\ CountAfter(st, m, k) \in 0..RAFT_MAX_LOG
           /\ After(st, m, k) \in Node
           /\ After(st, m, k).log = LogAfter(st, m, k)
           /\ After(st, m, k).log_count = CountAfter(st, m, k)
           /\ After(st, m, k).persist_dirty = (st.persist_dirty \/ ChangedBy(st, m, k))
           /\ After(st, m, k).last_applied = st.last_applied
           /\ After(st, m, k).snapshot_last_included_index = st.snapshot_last_included_index
           /\ After(st, m, k).snapshot_last_included_term = st.snapshot_last_included_term
<1>1. st \in Node /\ st.log \in [1..RAFT_MAX_LOG -> Entry] /\ st.persist_dirty \in BOOLEAN
  BY StartFields DEF Applicable
<1>2. LogAfter(st, m, k) \in [1..RAFT_MAX_LOG -> Entry]
  <2>1. ASSUME NEW p \in 1..RAFT_MAX_LOG, TakenFrom(st, m, k, p)
        PROVE  m.entries[EntryOfSlot(st, m, p)] \in Entry
    <3>1. EntryOfSlot(st, m, p) \in 1..k
      BY <2>1 DEF TakenFrom
    <3> QED BY <3>1, Numbers
  <2> QED BY <1>1, <2>1 DEF LogAfter
<1>3. CountAfter(st, m, k) \in 0..RAFT_MAX_LOG
  BY Numbers DEF CountAfter, Smaller
<1>4. (st.persist_dirty \/ ChangedBy(st, m, k)) \in BOOLEAN
  BY <1>1
<1> DEFINE l == LogAfter(st, m, k)
           c == CountAfter(st, m, k)
           d == st.persist_dirty \/ ChangedBy(st, m, k)
<1>5. After(st, m, k) = With(st, l, c, d)
  BY DEF After
<1>6. l \in [1..RAFT_MAX_LOG -> Entry] /\ c \in 0..RAFT_MAX_LOG /\ d \in BOOLEAN
  BY <1>2, <1>3, <1>4
<1>7. l = LogAfter(st, m, k) /\ c = CountAfter(st, m, k)
      /\ d = (st.persist_dirty \/ ChangedBy(st, m, k))
  OBVIOUS
<1> HIDE DEF l, c, d
<1>8. /\ With(st, l, c, d) \in Node
      /\ With(st, l, c, d).log = l
      /\ With(st, l, c, d).log_count = c
      /\ With(st, l, c, d).persist_dirty = d
      /\ With(st, l, c, d).last_applied = st.last_applied
      /\ With(st, l, c, d).snapshot_last_included_index = st.snapshot_last_included_index
      /\ With(st, l, c, d).snapshot_last_included_term = st.snapshot_last_included_term
  BY <1>1, <1>6, WithFields
<1> QED BY <1>2, <1>3, <1>5, <1>7, <1>8, Zenon

\* One more entry: what changes in the closed form.
LEMMA OneMoreEntry ==
    ASSUME NEW st, NEW m, Applicable(st, m), NEW k \in 0..(Len(m.entries) - 1)
    PROVE  /\ ConflictUpTo(st, m, k + 1) <=> ConflictUpTo(st, m, k) \/ Conflicts(st, m, k + 1)
           /\ \A p \in 1..RAFT_MAX_LOG :
                 TakenFrom(st, m, k + 1, p) <=>
                     \/ TakenFrom(st, m, k, p)
                     \/ /\ EntryOfSlot(st, m, p) = k + 1
                        /\ \/ ~node_has_log_index(st, m.prev_log_index + k + 1)
                           \/ ConflictUpTo(st, m, k + 1)
           /\ RebuildAfter(st, m, k + 1) <=>
                 \/ RebuildAfter(st, m, k)
                 \/ Conflicts(st, m, k + 1) /\ m.prev_log_index + k + 1 <= st.last_applied
<1>1. k \in Nat /\ 1..(k + 1) = 1..k \cup {k + 1}
  BY Numbers
<1>2. ConflictUpTo(st, m, k + 1) <=> ConflictUpTo(st, m, k) \/ Conflicts(st, m, k + 1)
  BY <1>1 DEF ConflictUpTo
<1>3. RebuildAfter(st, m, k + 1) <=>
          \/ RebuildAfter(st, m, k)
          \/ Conflicts(st, m, k + 1) /\ m.prev_log_index + k + 1 <= st.last_applied
  <2>1. m.prev_log_index + (k + 1) = m.prev_log_index + k + 1
    <3>1. m.prev_log_index \in Nat
      BY Numbers
    <3> QED BY <1>1, <3>1
  <2> QED BY <1>1, <2>1 DEF RebuildAfter
<1>4. ASSUME NEW p \in 1..RAFT_MAX_LOG
      PROVE  TakenFrom(st, m, k + 1, p) <=>
                     \/ TakenFrom(st, m, k, p)
                     \/ /\ EntryOfSlot(st, m, p) = k + 1
                        /\ \/ ~node_has_log_index(st, m.prev_log_index + k + 1)
                           \/ ConflictUpTo(st, m, k + 1)
  <2>1. m.prev_log_index + (k + 1) = m.prev_log_index + k + 1
    <3>1. m.prev_log_index \in Nat
      BY Numbers
    <3> QED BY <1>1, <3>1
  <2> QED BY <1>1, <2>1 DEF TakenFrom
<1> QED BY <1>2, <1>3, <1>4

\* While the loop walks over the log without a conflict, nothing has changed.
LEMMA NothingChangedYet ==
    ASSUME NEW st, NEW m, Applicable(st, m), NEW k \in 0..(Len(m.entries) - 1),
           ~ConflictUpTo(st, m, k),
           m.prev_log_index + k + 1 <= st.snapshot_last_included_index + st.log_count
    PROVE  /\ ~ChangedBy(st, m, k)
           /\ CountAfter(st, m, k) = st.log_count
           /\ LogAfter(st, m, k) = st.log
<1>1. k \in Nat
  BY Numbers
<1>2. ~ChangedBy(st, m, k)
  BY <1>1, Numbers DEF ChangedBy, node_last_log_index
<1>3. CountAfter(st, m, k) = st.log_count
  BY <1>2 DEF CountAfter
<1>4. ASSUME NEW p \in 1..RAFT_MAX_LOG
      PROVE  ~TakenFrom(st, m, k, p)
  <2>1. SUFFICES ASSUME TakenFrom(st, m, k, p) PROVE FALSE
    OBVIOUS
  <2> DEFINE j == EntryOfSlot(st, m, p)
  <2>2. j \in 1..k
    BY <2>1 DEF TakenFrom
  <2>3. node_has_log_index(st, m.prev_log_index + j)
    BY <2>2, <1>1, Numbers DEF node_has_log_index, node_log_base_index, node_last_log_index
  <2>4. ConflictUpTo(st, m, j)
    BY <2>1, <2>3 DEF TakenFrom
  <2>5. 1..j \subseteq 1..k
    BY <2>2, <1>1
  <2> QED BY <2>4, <2>5 DEF ConflictUpTo
<1>5. st.log \in [1..RAFT_MAX_LOG -> Entry]
  BY StartFields DEF Applicable
<1> QED BY <1>2, <1>3, <1>4, <1>5 DEF LogAfter

\* Once something was replaced or the end of the log is reached, the node holds what the
\* message says, up to the capacity of the array.
LEMMA AtTheEnd ==
    ASSUME NEW st, NEW m, Applicable(st, m), NEW k \in 0..(Len(m.entries) - 1),
           \/ ConflictUpTo(st, m, k)
           \/ m.prev_log_index + k + 1 > st.snapshot_last_included_index + st.log_count
    PROVE  /\ CountAfter(st, m, k)
                  = Smaller(RAFT_MAX_LOG, m.prev_log_index + k - st.snapshot_last_included_index)
           /\ \/ ~node_has_log_index(st, m.prev_log_index + k + 1)
              \/ ConflictUpTo(st, m, k + 1)
<1>1. k \in Nat
  BY Numbers
<1>n. st.log_count \in 0..RAFT_MAX_LOG /\ RAFT_MAX_LOG \in Nat \ {0}
      /\ st.snapshot_last_included_index \in Nat /\ m.prev_log_index \in Nat
      /\ m.prev_log_index >= st.snapshot_last_included_index
      /\ m.prev_log_index <= st.snapshot_last_included_index + st.log_count
  BY Numbers
<1>2. CASE ConflictUpTo(st, m, k)
  BY <1>2, OneMoreEntry DEF CountAfter, ChangedBy
<1>3. CASE m.prev_log_index + k + 1 > st.snapshot_last_included_index + st.log_count
  <2>1. ~node_has_log_index(st, m.prev_log_index + k + 1)
    BY <1>1, <1>3, Numbers DEF node_has_log_index, node_last_log_index, node_log_base_index
  <2>2. CASE ChangedBy(st, m, k)
    BY <2>1, <2>2 DEF CountAfter
  <2>3. CASE ~ChangedBy(st, m, k)
    BY <1>1, <1>3, <2>1, <2>3, <1>n DEF CountAfter, ChangedBy, node_last_log_index, Smaller
  <2> QED BY <2>2, <2>3
<1> QED BY <1>2, <1>3

\* Entry k + 1 comes after b + k entries, of which a are under the snapshot.
LEMMA Sums ==
    ASSUME NEW a \in Nat, NEW b \in Nat, b >= a, NEW k \in Nat
    PROVE  /\ b + k - a \in Nat /\ a + (b + k - a) + 1 = b + (k + 1)
           /\ b + (k + 1) - a = (b + k - a) + 1
OBVIOUS

\* The slot of entry k + 1.
LEMMA SlotOf ==
    ASSUME NEW st, NEW m, Applicable(st, m), NEW k \in 0..(Len(m.entries) - 1),
           NEW p \in 1..RAFT_MAX_LOG
    PROVE  EntryOfSlot(st, m, p) = k + 1
               <=> p = m.prev_log_index + k - st.snapshot_last_included_index + 1
<1>1. k \in Nat /\ RAFT_MAX_LOG \in Nat
  BY Numbers
<1>2. st.snapshot_last_included_index \in Nat /\ m.prev_log_index \in Nat
  BY Numbers
<1> QED BY <1>1, <1>2 DEF EntryOfSlot

\* The slot before that of entry k + 1.
LEMMA SlotBefore ==
    ASSUME NEW st, NEW m, Applicable(st, m), NEW k \in Nat
    PROVE  (m.prev_log_index + (k + 1)) - st.snapshot_last_included_index - 1
               = m.prev_log_index + k - st.snapshot_last_included_index
<1>1. st.snapshot_last_included_index \in Nat /\ m.prev_log_index \in Nat
  BY Numbers
<1> QED BY <1>1

\* The entry that is appended, or not, at the end of the log.
LEMMA AppendedAfter ==
    ASSUME NEW st, NEW m, Applicable(st, m), NEW k \in 0..(Len(m.entries) - 1),
           \/ ConflictUpTo(st, m, k)
           \/ m.prev_log_index + k + 1 > st.snapshot_last_included_index + st.log_count
    PROVE  AppendEntry(After(st, m, k), m.entries[k + 1]) = After(st, m, k + 1)
<1> DEFINE A == After(st, m, k)
           e == m.entries[k + 1]
           snap == st.snapshot_last_included_index
           count == m.prev_log_index + k - snap
<1>1. /\ k \in Nat /\ k \in 0..Len(m.entries)
      /\ k + 1 \in 0..Len(m.entries) /\ k + 1 \in 1..Len(m.entries)
  BY Numbers
<1>n. st.log_count \in 0..RAFT_MAX_LOG /\ RAFT_MAX_LOG \in Nat \ {0}
      /\ st.snapshot_last_included_index \in Nat /\ m.prev_log_index \in Nat
      /\ m.prev_log_index >= st.snapshot_last_included_index
      /\ m.prev_log_index <= st.snapshot_last_included_index + st.log_count
  BY Numbers
<1>2. e.index = snap + count + 1 /\ count \in Nat /\ snap \in Nat
  <2>1. e.index = m.prev_log_index + (k + 1)
    BY <1>1, Numbers
  <2>2. count \in Nat /\ snap + count + 1 = m.prev_log_index + (k + 1)
    BY <1>1, <1>n, Sums
  <2> QED BY <2>1, <2>2, <1>n
<1>3. /\ A \in Node /\ A.log = LogAfter(st, m, k)
      /\ A.log_count = Smaller(RAFT_MAX_LOG, count)
      /\ A.snapshot_last_included_index = snap
  BY <1>1, AfterFields, AtTheEnd
<1>4. RAFT_MAX_LOG \in Nat
  BY Numbers
<1>5. node_last_log_index(A) = snap + Smaller(RAFT_MAX_LOG, count)
  BY <1>3 DEF node_last_log_index
<1>6. CASE count < RAFT_MAX_LOG
  <2>1. A.log_count = count
    BY <1>2, <1>3, <1>4, <1>6 DEF Smaller
  <2>2. node_last_log_index(A) = snap + count
    BY <1>2, <1>4, <1>5, <1>6 DEF Smaller
  <2>3. e.index = node_last_log_index(A) + 1 /\ A.log_count < RAFT_MAX_LOG
    BY <2>1, <2>2, <1>2, <1>6
  <2>4. AppendEntry(A, e) = With(A, [A.log EXCEPT ![count + 1] = e], count + 1, TRUE)
    <3> HIDE DEF A, count, e
    <3>1. AppendEntry(A, e) = [A EXCEPT !.log[count + 1] = e, !.log_count = @ + 1,
                                        !.persist_dirty = TRUE]
      BY <2>1, <2>3, Zenon DEF AppendEntry
    <3>2. A \in Node
      BY <1>3
    <3>3. [A EXCEPT !.log[count + 1] = e, !.log_count = @ + 1, !.persist_dirty = TRUE]
              = With(A, [A.log EXCEPT ![count + 1] = e], A.log_count + 1, TRUE)
      BY <3>2, Zenon DEF With
    <3> QED BY <3>1, <3>3, <2>1, Zenon
  <2>5. @ = With(st, [LogAfter(st, m, k) EXCEPT ![count + 1] = e], count + 1, TRUE)
    <3>1. st \in Node
      BY DEF Applicable
    <3>2. A = With(st, LogAfter(st, m, k), CountAfter(st, m, k),
                   st.persist_dirty \/ ChangedBy(st, m, k))
      BY DEF After
    <3> DEFINE l == [LogAfter(st, m, k) EXCEPT ![count + 1] = e]
               c == count + 1
               d == st.persist_dirty \/ ChangedBy(st, m, k)
    <3>3. With(With(st, LogAfter(st, m, k), CountAfter(st, m, k), d), l, c, TRUE)
              = With(st, l, c, TRUE)
      <4> HIDE DEF l, c, d
      <4> QED BY Zenon DEF With
    <3>4. With(A, [A.log EXCEPT ![count + 1] = e], count + 1, TRUE) = With(A, l, c, TRUE)
      BY <1>3
    <3>5. With(A, l, c, TRUE) = With(st, l, c, TRUE)
      BY <3>2, <3>3
    <3> QED BY <3>4, <3>5
  <2>6. [LogAfter(st, m, k) EXCEPT ![count + 1] = e] = LogAfter(st, m, k + 1)
    <3>1. ASSUME NEW p \in 1..RAFT_MAX_LOG
          PROVE  [LogAfter(st, m, k) EXCEPT ![count + 1] = e][p] = LogAfter(st, m, k + 1)[p]
      <4>1. EntryOfSlot(st, m, p) = k + 1 <=> p = count + 1
        BY SlotOf
      <4>2. TakenFrom(st, m, k + 1, p) <=> TakenFrom(st, m, k, p) \/ p = count + 1
        BY <4>1, OneMoreEntry, AtTheEnd
      <4>3. p = count + 1 => EntryOfSlot(st, m, p) = k + 1
        BY <4>1
      <4> QED BY <4>2, <4>3 DEF LogAfter
    <3> QED BY <3>1 DEF LogAfter
  <2>7. ChangedBy(st, m, k + 1)
    <3>1. CASE ConflictUpTo(st, m, k)
      BY <3>1, OneMoreEntry DEF ChangedBy
    <3>2. CASE m.prev_log_index + k + 1 > snap + st.log_count
      BY <3>2, <1>1, <1>6, <1>n DEF ChangedBy, node_last_log_index
    <3> QED BY <3>1, <3>2
  <2>8. CountAfter(st, m, k + 1) = count + 1
    BY <2>7, <1>1, <1>6, <1>n DEF CountAfter, Smaller
  <2>9. (st.persist_dirty \/ ChangedBy(st, m, k + 1)) = TRUE
    BY <2>7
  <2> QED BY <2>4, <2>5, <2>6, <2>8, <2>9, Zenon DEF After
<1>7. CASE ~(count < RAFT_MAX_LOG)
  <2>1. A.log_count = RAFT_MAX_LOG
    BY <1>2, <1>3, <1>4, <1>7 DEF Smaller
  <2>2. AppendEntry(A, e) = A
    BY <2>1, <1>4 DEF AppendEntry
  <2>3. ASSUME NEW p \in 1..RAFT_MAX_LOG
        PROVE  TakenFrom(st, m, k + 1, p) <=> TakenFrom(st, m, k, p)
    <3>1. EntryOfSlot(st, m, p) # k + 1
      BY <1>1, <1>7, <1>n DEF EntryOfSlot
    <3> QED BY <3>1, OneMoreEntry
  <2>4. LogAfter(st, m, k + 1) = LogAfter(st, m, k)
    BY <2>3 DEF LogAfter
  <2>5. ChangedBy(st, m, k + 1) <=> ChangedBy(st, m, k)
    <3>1. CASE ConflictUpTo(st, m, k)
      BY <3>1, OneMoreEntry DEF ChangedBy
    <3>2. CASE /\ ~ConflictUpTo(st, m, k)
               /\ m.prev_log_index + k + 1 > snap + st.log_count
      <4>1. ~Conflicts(st, m, k + 1)
        BY <1>1, <3>2, ConflictIsInLog, Numbers
      <4>2. ~ConflictUpTo(st, m, k + 1)
        BY <3>2, <4>1, OneMoreEntry
      <4> QED BY <3>2, <4>2, <1>1, <1>7, <1>n DEF ChangedBy, node_last_log_index
    <3> QED BY <3>1, <3>2
  <2>6. CountAfter(st, m, k + 1) = CountAfter(st, m, k)
    <3>1. CASE ChangedBy(st, m, k)
      BY <3>1, <2>5, <1>1, <1>7, <1>n DEF CountAfter, Smaller
    <3>2. CASE ~ChangedBy(st, m, k)
      BY <3>2, <2>5 DEF CountAfter
    <3> QED BY <3>1, <3>2
  <2>7. (st.persist_dirty \/ ChangedBy(st, m, k + 1)) = (st.persist_dirty \/ ChangedBy(st, m, k))
    BY <2>5
  <2> QED BY <2>2, <2>4, <2>6, <2>7, Zenon DEF After
<1> QED BY <1>6, <1>7

\* An entry the log has changes nothing.
LEMMA KnownAfter ==
    ASSUME NEW st, NEW m, Applicable(st, m), NEW k \in 0..(Len(m.entries) - 1),
           ~ConflictUpTo(st, m, k), ~Conflicts(st, m, k + 1),
           m.prev_log_index + k + 1 <= st.snapshot_last_included_index + st.log_count
    PROVE  After(st, m, k) = After(st, m, k + 1)
<1>1. k \in Nat
  BY Numbers
<1>2. /\ st.log_count \in 0..RAFT_MAX_LOG /\ RAFT_MAX_LOG \in Nat \ {0}
      /\ st.snapshot_last_included_index \in Nat /\ m.prev_log_index \in Nat
      /\ m.prev_log_index >= st.snapshot_last_included_index
  BY Numbers
<1>3. ~ConflictUpTo(st, m, k + 1)
  BY OneMoreEntry
<1>4. node_has_log_index(st, m.prev_log_index + k + 1)
  BY <1>1, <1>2 DEF node_has_log_index, node_log_base_index, node_last_log_index
<1>5. \A p \in 1..RAFT_MAX_LOG : TakenFrom(st, m, k + 1, p) <=> TakenFrom(st, m, k, p)
  BY <1>3, <1>4, OneMoreEntry
<1>6. LogAfter(st, m, k + 1) = LogAfter(st, m, k)
  BY <1>5 DEF LogAfter
<1>7. ~ChangedBy(st, m, k) /\ ~ChangedBy(st, m, k + 1)
  BY <1>1, <1>2, <1>3 DEF ChangedBy, node_last_log_index
<1>8. CountAfter(st, m, k + 1) = CountAfter(st, m, k)
  BY <1>7 DEF CountAfter
<1>9. (st.persist_dirty \/ ChangedBy(st, m, k + 1)) = (st.persist_dirty \/ ChangedBy(st, m, k))
  BY <1>7
<1> QED BY <1>6, <1>8, <1>9, Zenon DEF After

\* The first conflict: the log is cut off there and the entry takes its slot.
LEMMA ReplacedAfter ==
    ASSUME NEW st, NEW m, Applicable(st, m), NEW k \in 0..(Len(m.entries) - 1),
           ~ConflictUpTo(st, m, k), Conflicts(st, m, k + 1)
    PROVE  AppendEntry([After(st, m, k) EXCEPT
                            !.log_count = m.prev_log_index + k - st.snapshot_last_included_index,
                            !.persist_dirty = TRUE], m.entries[k + 1])
               = After(st, m, k + 1)
<1> DEFINE A == After(st, m, k)
           e == m.entries[k + 1]
           snap == st.snapshot_last_included_index
           count == m.prev_log_index + k - snap
           C == [A EXCEPT !.log_count = count, !.persist_dirty = TRUE]
<1>1. k \in Nat /\ k \in 0..Len(m.entries) /\ k + 1 \in 1..Len(m.entries)
  BY Numbers
<1>2. /\ st.log_count \in 0..RAFT_MAX_LOG /\ RAFT_MAX_LOG \in Nat \ {0}
      /\ st.snapshot_last_included_index \in Nat /\ m.prev_log_index \in Nat
      /\ m.prev_log_index >= st.snapshot_last_included_index
  BY Numbers
<1>3. m.prev_log_index + k + 1 <= snap + st.log_count
  BY <1>1, <1>2, ConflictIsInLog
<1>4. count \in Nat /\ count < RAFT_MAX_LOG /\ e.index = snap + count + 1
  <2>1. e.index = m.prev_log_index + (k + 1)
    BY <1>1, Numbers
  <2>2. count \in Nat /\ snap + count + 1 = m.prev_log_index + (k + 1)
    BY <1>1, <1>2, Sums
  <2>3. count < RAFT_MAX_LOG
    BY <1>1, <1>2, <1>3
  <2> QED BY <2>1, <2>2, <2>3
<1>5. LogAfter(st, m, k) = st.log
  BY <1>3, NothingChangedYet
<1>6. A \in Node /\ A.log = st.log /\ A.snapshot_last_included_index = snap /\ st \in Node
  BY <1>1, <1>5, AfterFields DEF Applicable
<1>7. C = With(A, A.log, count, TRUE)
  <2> HIDE DEF A, count
  <2> QED BY <1>6, Zenon DEF With, Node
<1>8. /\ C \in Node /\ C.log = st.log /\ C.log_count = count
      /\ C.snapshot_last_included_index = snap
  <2>1. count \in 0..RAFT_MAX_LOG /\ TRUE \in BOOLEAN /\ A.log \in [1..RAFT_MAX_LOG -> Entry]
    BY <1>2, <1>4, <1>6, StartFields
  <2> HIDE DEF A, count, C
  <2>2. /\ With(A, A.log, count, TRUE) \in Node /\ With(A, A.log, count, TRUE).log = A.log
        /\ With(A, A.log, count, TRUE).log_count = count
        /\ With(A, A.log, count, TRUE).snapshot_last_included_index
               = A.snapshot_last_included_index
    BY <1>6, <2>1 DEF With, Node
  <2> QED BY <1>6, <1>7, <2>2
<1>9. e.index = node_last_log_index(C) + 1 /\ C.log_count < RAFT_MAX_LOG
  <2> HIDE DEF C, count, e
  <2> QED BY <1>4, <1>8 DEF node_last_log_index
<1>10. AppendEntry(C, e) = With(st, [st.log EXCEPT ![count + 1] = e], count + 1, TRUE)
  <2>1. AppendEntry(C, e) = [C EXCEPT !.log[count + 1] = e, !.log_count = @ + 1,
                                      !.persist_dirty = TRUE]
    <3> HIDE DEF C, count, e
    <3> QED BY <1>8, <1>9, Zenon DEF AppendEntry
  <2>2. [C EXCEPT !.log[count + 1] = e, !.log_count = @ + 1, !.persist_dirty = TRUE]
            = With(C, [C.log EXCEPT ![count + 1] = e], C.log_count + 1, TRUE)
    <3> HIDE DEF C, count, e
    <3> QED BY Zenon DEF With
  <2> DEFINE l == [st.log EXCEPT ![count + 1] = e]
             c == count + 1
             d == st.persist_dirty \/ ChangedBy(st, m, k)
  <2>3. With(C, [C.log EXCEPT ![count + 1] = e], C.log_count + 1, TRUE) = With(C, l, c, TRUE)
    <3> HIDE DEF C, count, e
    <3> QED BY <1>8
  <2>4. With(With(With(st, st.log, CountAfter(st, m, k), d), A.log, count, TRUE), l, c, TRUE)
            = With(st, l, c, TRUE)
    <3> HIDE DEF l, c, d, count, A
    <3> QED BY Zenon DEF With
  <2>5. A = With(st, st.log, CountAfter(st, m, k), d)
    BY <1>5 DEF After
  <2> HIDE DEF A, C, l, c, d, count, e
  <2>6. With(C, l, c, TRUE) = With(st, l, c, TRUE)
    BY <1>7, <2>4, <2>5, Zenon
  <2>7. l = [st.log EXCEPT ![count + 1] = e] /\ c = count + 1
    BY DEF l, c
  <2> QED BY <2>1, <2>2, <2>3, <2>6, <2>7, Zenon
<1>11. ConflictUpTo(st, m, k + 1) /\ ChangedBy(st, m, k + 1)
  BY OneMoreEntry DEF ChangedBy
<1>12. LogAfter(st, m, k + 1) = [st.log EXCEPT ![count + 1] = e]
  <2>1. ASSUME NEW p \in 1..RAFT_MAX_LOG
        PROVE  LogAfter(st, m, k + 1)[p] = [st.log EXCEPT ![count + 1] = e][p]
    <3>1. EntryOfSlot(st, m, p) = k + 1 <=> p = count + 1
      BY SlotOf
    <3>2. TakenFrom(st, m, k + 1, p) <=> TakenFrom(st, m, k, p) \/ p = count + 1
      BY <3>1, <1>11, OneMoreEntry
    <3>3. p = count + 1 => EntryOfSlot(st, m, p) = k + 1
      BY <3>1
    <3>4. LogAfter(st, m, k)[p] = st.log[p]
      BY <1>5
    <3>5. st.log \in [1..RAFT_MAX_LOG -> Entry]
      BY <1>6, StartFields
    <3> QED BY <3>2, <3>3, <3>4, <3>5 DEF LogAfter
  <2>2. st.log \in [1..RAFT_MAX_LOG -> Entry]
    BY <1>6, StartFields
  <2> QED BY <2>1, <2>2 DEF LogAfter
<1>13. CountAfter(st, m, k + 1) = count + 1
  <2>1. m.prev_log_index + (k + 1) - snap = count + 1
    BY <1>1, <1>2, Sums
  <2> QED BY <1>2, <1>4, <1>11, <2>1 DEF CountAfter, Smaller
<1>14. (st.persist_dirty \/ ChangedBy(st, m, k + 1)) = TRUE
  BY <1>11
<1> HIDE DEF A, C, count, e
<1>15. After(st, m, k + 1) = With(st, [st.log EXCEPT ![count + 1] = e], count + 1, TRUE)
  BY <1>12, <1>13, <1>14, Zenon DEF After
<1> QED BY <1>10, <1>15 DEF C, A, count, e

-----------------------------------------------------------------------------
(* The loop.                                                               *)

\* Before the first conflict, the loop sees the log it started with.
LEMMA SameConflicts ==
    ASSUME NEW st, NEW m, Applicable(st, m), NEW k \in 0..(Len(m.entries) - 1),
           ~ConflictUpTo(st, m, k),
           m.prev_log_index + k + 1 <= st.snapshot_last_included_index + st.log_count,
           s = After(st, m, k)
    PROVE  /\ node_has_log_index(s, m.entries[k + 1].index)
           /\ Conflict(m.entries[k + 1]) <=> Conflicts(st, m, k + 1)
           /\ ~(m.entries[k + 1].index > node_last_log_index(s))
           /\ node_physical_index(s, m.entries[k + 1].index) - 1
                  = m.prev_log_index + k - st.snapshot_last_included_index
<1>1. k \in Nat /\ k \in 0..Len(m.entries) /\ k + 1 \in 1..Len(m.entries)
  BY Numbers
<1>2. /\ st.log_count \in 0..RAFT_MAX_LOG /\ RAFT_MAX_LOG \in Nat \ {0}
      /\ st.snapshot_last_included_index \in Nat /\ m.prev_log_index \in Nat
      /\ m.prev_log_index >= st.snapshot_last_included_index
  BY Numbers
<1>3. /\ s.log = st.log /\ s.log_count = st.log_count
      /\ s.snapshot_last_included_index = st.snapshot_last_included_index
      /\ s.snapshot_last_included_term = st.snapshot_last_included_term
  BY <1>1, NothingChangedYet, AfterFields
<1> DEFINE i == m.prev_log_index + (k + 1)
<1>4. m.entries[k + 1].index = i
  BY <1>1, Numbers
<1>5. node_has_log_index(st, i) /\ node_has_log_index(s, i)
  BY <1>1, <1>2, <1>3 DEF node_has_log_index, node_last_log_index, node_log_base_index
<1>6. /\ node_term_at_index(s, i) = node_term_at_index(st, i)
      /\ node_leader_at_index(s, i) = node_leader_at_index(st, i)
  <2> HIDE DEF i
  <2>1. LogEntryAt(s, i) = LogEntryAt(st, i)
    BY <1>3 DEF LogEntryAt, node_physical_index
  <2> QED BY <1>3, <1>5, <2>1 DEF node_term_at_index, node_leader_at_index
<1>7. Conflict(m.entries[k + 1]) <=> Conflicts(st, m, k + 1)
  <2> HIDE DEF i
  <2>1. i = m.prev_log_index + (k + 1)
    BY DEF i
  <2> QED BY <1>4, <1>5, <1>6, <2>1, Zenon DEF Conflict, Conflicts
<1>8. ~(i > node_last_log_index(s))
  BY <1>1, <1>2, <1>3 DEF node_last_log_index
<1>9. node_physical_index(s, i) - 1 = m.prev_log_index + k - st.snapshot_last_included_index
  <2>1. i - st.snapshot_last_included_index - 1
            = m.prev_log_index + k - st.snapshot_last_included_index
    BY <1>1, SlotBefore, Zenon
  <2> QED BY <1>3, <2>1, Zenon DEF node_physical_index
<1> HIDE DEF i
<1> QED BY <1>4, <1>5, <1>7, <1>8, <1>9

\* Once something was replaced or the end of the log is reached, the next entry is past
\* the end of what the node holds.
LEMMA PastTheEnd ==
    ASSUME NEW st, NEW m, Applicable(st, m), NEW k \in 0..(Len(m.entries) - 1),
           \/ ConflictUpTo(st, m, k)
           \/ m.prev_log_index + k + 1 > st.snapshot_last_included_index + st.log_count,
           s = After(st, m, k)
    PROVE  /\ ~node_has_log_index(s, m.entries[k + 1].index)
           /\ ~(m.entries[k + 1].index <= s.snapshot_last_included_index)
<1>1. k \in Nat /\ k \in 0..Len(m.entries) /\ k + 1 \in 1..Len(m.entries)
  BY Numbers
<1>2. /\ RAFT_MAX_LOG \in Nat \ {0}
      /\ st.snapshot_last_included_index \in Nat /\ m.prev_log_index \in Nat
      /\ m.prev_log_index >= st.snapshot_last_included_index
  BY Numbers
<1>3. s.log_count = Smaller(RAFT_MAX_LOG,
                            m.prev_log_index + k - st.snapshot_last_included_index)
  BY <1>1, AtTheEnd, AfterFields
<1>4. s.snapshot_last_included_index = st.snapshot_last_included_index
  BY <1>1, AfterFields
<1>5. m.entries[k + 1].index = m.prev_log_index + (k + 1)
  BY <1>1, Numbers
<1>6. st.snapshot_last_included_index + s.log_count < m.prev_log_index + (k + 1)
  BY <1>1, <1>2, <1>3 DEF Smaller
<1>7. ~node_has_log_index(s, m.prev_log_index + (k + 1))
  BY <1>1, <1>2, <1>4, <1>6, <1>3
     DEF node_has_log_index, node_last_log_index, node_log_base_index, Smaller
<1>8. ~(m.prev_log_index + (k + 1) <= s.snapshot_last_included_index)
  BY <1>1, <1>2, <1>4
<1> QED BY <1>5, <1>7, <1>8

\* An entry after the first conflict is one more reason for a rebuild only if there was
\* one already.
LEMMA RebuildKept ==
    ASSUME NEW st, NEW m, Applicable(st, m), NEW k \in 0..(Len(m.entries) - 1),
           \/ ConflictUpTo(st, m, k)
           \/ m.prev_log_index + k + 1 > st.snapshot_last_included_index + st.log_count
    PROVE  RebuildAfter(st, m, k + 1) <=> RebuildAfter(st, m, k)
<1>1. k \in Nat
  BY Numbers
<1>2. /\ st.log_count \in 0..RAFT_MAX_LOG /\ RAFT_MAX_LOG \in Nat \ {0}
      /\ st.snapshot_last_included_index \in Nat /\ m.prev_log_index \in Nat
      /\ st.last_applied \in Nat
  BY Numbers
<1>3. ASSUME Conflicts(st, m, k + 1), m.prev_log_index + k + 1 <= st.last_applied
      PROVE  RebuildAfter(st, m, k)
  <2>1. m.prev_log_index + (k + 1) <= st.snapshot_last_included_index + st.log_count
    BY <1>1, <1>3, ConflictIsInLog
  <2>2. ConflictUpTo(st, m, k)
    BY <1>1, <1>2, <2>1
  <2>3. PICK j \in 1..k : Conflicts(st, m, j)
    BY <2>2 DEF ConflictUpTo
  <2>4. m.prev_log_index + j <= st.last_applied
    BY <1>1, <1>2, <1>3
  <2> QED BY <2>3, <2>4 DEF RebuildAfter
<1> QED BY <1>3, OneMoreEntry

\* What the steps below read off the lemmas above.
LEMMA AboveSnapshot ==
    ASSUME NEW st, NEW m, Applicable(st, m), NEW k \in 0..(Len(m.entries) - 1),
           s = After(st, m, k)
    PROVE  ~(m.entries[k + 1].index <= s.snapshot_last_included_index)
<1>1. k \in Nat /\ k \in 0..Len(m.entries) /\ k + 1 \in 1..Len(m.entries)
  BY Numbers
<1>2. /\ st.snapshot_last_included_index \in Nat /\ m.prev_log_index \in Nat
      /\ m.prev_log_index >= st.snapshot_last_included_index
  BY Numbers
<1>3. s.snapshot_last_included_index = st.snapshot_last_included_index
  BY <1>1, AfterFields
<1>4. m.entries[k + 1].index = m.prev_log_index + (k + 1)
  BY <1>1, Numbers
<1>5. ~(m.prev_log_index + (k + 1) <= s.snapshot_last_included_index)
  BY <1>1, <1>2, <1>3
<1> QED BY <1>4, <1>5

\* The loop changes neither last_applied nor the numbering.
LEMMA SameApplied ==
    ASSUME NEW st, NEW m, Applicable(st, m), NEW k \in 0..(Len(m.entries) - 1),
           s = After(st, m, k)
    PROVE  s.last_applied = st.last_applied /\ m.entries[k + 1].index = m.prev_log_index + (k + 1)
<1>1. k \in 0..Len(m.entries) /\ k + 1 \in 1..Len(m.entries)
  BY Numbers
<1> QED BY <1>1, Numbers, AfterFields

\* The two sides of the case distinction are numbers.
LEMMA SumsAreNumbers ==
    ASSUME NEW st, NEW m, Applicable(st, m), NEW k \in 0..(Len(m.entries) - 1)
    PROVE  /\ m.prev_log_index + k + 1 \in Nat
           /\ st.snapshot_last_included_index + st.log_count \in Nat
BY Numbers

\* rebuild_applied_state is a flag.
LEMMA RebuildIsBoolean ==
    ASSUME NEW st, NEW m, NEW k
    PROVE  RebuildAfter(st, m, k) \in BOOLEAN
BY DEF RebuildAfter

\* A conflict at an applied index asks for a rebuild.
LEMMA RebuildGrows ==
    ASSUME NEW st, NEW m, Applicable(st, m), NEW k \in 0..(Len(m.entries) - 1),
           Conflicts(st, m, k + 1), NEW i, i = m.prev_log_index + (k + 1)
    PROVE  RebuildAfter(st, m, k + 1) <=> RebuildAfter(st, m, k) \/ i <= st.last_applied
<1>1. k \in Nat /\ m.prev_log_index \in Nat
  BY Numbers
<1>2. i = m.prev_log_index + k + 1
  BY <1>1
<1> QED BY <1>2, OneMoreEntry

\* The loop starts with the node it was given.
LEMMA LoopInit == Init => LoopInv
<1> SUFFICES ASSUME Init PROVE LoopInv
  OBVIOUS
<1>1. start \in Node /\ message \in Message
  BY LoopAssumption DEF Init
<1>2. Applicable(start, message)
  BY <1>1, LoopAssumption DEF Init, Applicable, PrevMatches
<1>3. /\ start.log_count \in 0..RAFT_MAX_LOG /\ RAFT_MAX_LOG \in Nat \ {0}
      /\ start.snapshot_last_included_index \in Nat /\ message.prev_log_index \in Nat
      /\ message.prev_log_index
             <= start.snapshot_last_included_index + start.log_count
      /\ Len(message.entries) \in Nat
  BY <1>2, Numbers
<1>4. ~ConflictUpTo(start, message, 0) /\ ~RebuildAfter(start, message, 0)
  BY DEF ConflictUpTo, RebuildAfter
<1>5. ~ChangedBy(start, message, 0)
  BY <1>3, <1>4 DEF ChangedBy, node_last_log_index
<1>6. CountAfter(start, message, 0) = start.log_count
  BY <1>5 DEF CountAfter
<1>7. LogAfter(start, message, 0) = start.log
  <2>1. start.log \in [1..RAFT_MAX_LOG -> Entry]
    BY <1>1, StartFields
  <2>2. \A p \in 1..RAFT_MAX_LOG : ~TakenFrom(start, message, 0, p)
    BY DEF TakenFrom
  <2> QED BY <2>1, <2>2 DEF LogAfter
<1>8. (start.persist_dirty \/ ChangedBy(start, message, 0)) = start.persist_dirty
  <2>1. start.persist_dirty \in BOOLEAN
    BY <1>1, StartFields
  <2> QED BY <1>5, <2>1
<1>9. After(start, message, 0) = start
  BY <1>1, <1>6, <1>7, <1>8, WithSame, Zenon DEF After
<1>10. next = 1 /\ s = start /\ rebuild = FALSE
  BY DEF Init
<1>11. next - 1 = 0 /\ next \in 1..(Len(message.entries) + 1)
  BY <1>3, <1>10
<1>12. s = After(start, message, next - 1)
  BY <1>9, <1>10, <1>11, Zenon
<1>13. rebuild = RebuildAfter(start, message, next - 1)
  <2>1. rebuild = RebuildAfter(start, message, 0)
    <3>1. RebuildAfter(start, message, 0) = FALSE
      BY <1>4 DEF RebuildAfter
    <3> QED BY <3>1, <1>10, Zenon
  <2> QED BY <1>11, <2>1, Zenon
<1> QED BY <1>2, <1>11, <1>12, <1>13, Zenon DEF LoopInv

\* One round of the loop is one more entry of the closed form.
LEMMA LoopNext == LoopInv /\ [Next]_vars => LoopInv'
<1> SUFFICES ASSUME LoopInv, [Next]_vars PROVE LoopInv'
  OBVIOUS
<1>1. CASE UNCHANGED vars
  BY <1>1, Zenon DEF LoopInv, vars
<1>2. CASE Next
  <2> DEFINE k == next - 1
             e == message.entries[k + 1]
  <2>1. Applicable(start, message) /\ Len(message.entries) \in Nat
    <3>1. Applicable(start, message)
      BY DEF LoopInv
    <3> QED BY <3>1, Numbers
  <2>2. /\ next \in Nat /\ next <= Len(message.entries) /\ next' = next + 1
        /\ start' = start /\ message' = message
    BY <1>2, <2>1 DEF LoopInv, Next
  <2>3. /\ k \in 0..(Len(message.entries) - 1) /\ k + 1 = next /\ next' - 1 = k + 1
        /\ next' \in 1..(Len(message.entries) + 1)
    <3>1. next \in 1..Len(message.entries) /\ Len(message.entries) \in Nat
      BY <2>1, <2>2 DEF LoopInv
    <3>2. next' = next + 1
      BY <2>2
    <3> QED BY <3>1, <3>2
  <2>4. NextEntry = e
    BY <2>3 DEF NextEntry
  <2>5. Continue(e) \/ Replace(e) \/ AppendAtEnd(e)
    BY <1>2, <2>4 DEF Next
  <2>6. s = After(start, message, k) /\ rebuild = RebuildAfter(start, message, k)
    BY DEF LoopInv
  <2> HIDE DEF k
  <2>7. s' = After(start, message, k + 1) /\ rebuild' = RebuildAfter(start, message, k + 1)
    <3>1. CASE /\ ~ConflictUpTo(start, message, k)
               /\ message.prev_log_index + k + 1
                      <= start.snapshot_last_included_index + start.log_count
      <4>1. /\ node_has_log_index(s, e.index) /\ ~(e.index > node_last_log_index(s))
            /\ Conflict(e) <=> Conflicts(start, message, k + 1)
            /\ node_physical_index(s, e.index) - 1
                   = message.prev_log_index + k - start.snapshot_last_included_index
        BY <2>1, <2>3, <2>6, <3>1, SameConflicts
      <4>2. ~(e.index <= s.snapshot_last_included_index)
        BY <2>1, <2>3, <2>6, <3>1, AboveSnapshot
      <4>3. /\ s.last_applied = start.last_applied
            /\ e.index = message.prev_log_index + (k + 1)
        BY <2>1, <2>3, <2>6, SameApplied
      <4>4. CASE Continue(e)
        <5>1. ~Conflicts(start, message, k + 1) /\ s' = s /\ rebuild' = rebuild
          BY <4>1, <4>2, <4>4 DEF Continue, Known
        <5>2. s' = After(start, message, k + 1)
          BY <2>1, <2>3, <2>6, <3>1, <5>1, KnownAfter
        <5>3. RebuildAfter(start, message, k + 1) <=> RebuildAfter(start, message, k)
          BY <2>1, <2>3, <5>1, OneMoreEntry
        <5> QED BY <2>6, <5>1, <5>2, <5>3, RebuildIsBoolean
      <4>5. CASE Replace(e)
        <5>1. /\ Conflicts(start, message, k + 1)
              /\ rebuild' = (rebuild \/ e.index <= s.last_applied)
              /\ s' = AppendEntry([s EXCEPT !.log_count = node_physical_index(s, e.index) - 1,
                                            !.persist_dirty = TRUE], e)
          BY <4>1, <4>5, Zenon DEF Replace
        <5>2. s' = AppendEntry([After(start, message, k) EXCEPT
                     !.log_count = message.prev_log_index + k - start.snapshot_last_included_index,
                     !.persist_dirty = TRUE], e)
          BY <2>6, <4>1, <5>1, Zenon
        <5>3. s' = After(start, message, k + 1)
          BY <2>1, <2>3, <3>1, <5>1, <5>2, ReplacedAfter, Zenon
        <5>4. RebuildAfter(start, message, k + 1)
                <=> rebuild \/ e.index <= s.last_applied
          BY <2>1, <2>3, <2>6, <4>3, <5>1, RebuildGrows
        <5>5. rebuild' \in BOOLEAN /\ RebuildAfter(start, message, k + 1) \in BOOLEAN
          BY <2>6, <5>1, RebuildIsBoolean
        <5> QED BY <5>1, <5>3, <5>4, <5>5
      <4>6. CASE AppendAtEnd(e)
        BY <4>1, <4>6 DEF AppendAtEnd
      <4> QED BY <2>5, <4>4, <4>5, <4>6
    <3>2. CASE \/ ConflictUpTo(start, message, k)
               \/ message.prev_log_index + k + 1
                      > start.snapshot_last_included_index + start.log_count
      <4>1. /\ ~node_has_log_index(s, e.index)
            /\ ~(e.index <= s.snapshot_last_included_index)
        BY <2>1, <2>3, <2>6, <3>2, PastTheEnd
      <4>2. s' = AppendEntry(s, e) /\ rebuild' = rebuild
        BY <2>5, <4>1 DEF Continue, Known, Replace, AppendAtEnd
      <4>3. s' = After(start, message, k + 1)
        BY <2>1, <2>3, <2>6, <3>2, <4>2, AppendedAfter
      <4>4. RebuildAfter(start, message, k + 1) <=> RebuildAfter(start, message, k)
        BY <2>1, <2>3, <3>2, RebuildKept
      <4> QED BY <2>6, <4>2, <4>3, <4>4, RebuildIsBoolean
    <3>3. /\ message.prev_log_index + k + 1 \in Nat
          /\ start.snapshot_last_included_index + start.log_count \in Nat
      BY <2>1, <2>3, SumsAreNumbers
    <3> QED BY <3>1, <3>2, <3>3
  <2> QED BY <2>1, <2>2, <2>3, <2>7 DEF LoopInv
<1> QED BY <1>1, <1>2

\* When the loop has passed all entries, the closed form for them is the one of RaftCore.
LEMMA AfterAllEntries ==
    ASSUME NEW st \in Node, NEW m \in Message
    PROVE  /\ After(st, m, Len(m.entries)) = MergeEntries(st, m)
           /\ RebuildAfter(st, m, Len(m.entries)) = ReplacesApplied(st, m)
<1>1. LogAfter(st, m, Len(m.entries)) = MergedLog(st, m)
  BY DEF LogAfter, MergedLog, TakenFrom, EntryOfSlot, ConflictUpTo
<1>2. ChangedBy(st, m, Len(m.entries)) = LogChanges(st, m)
  BY DEF ChangedBy, LogChanges, ConflictUpTo
<1>3. CountAfter(st, m, Len(m.entries)) = MergedCount(st, m)
  BY <1>2 DEF CountAfter, MergedCount
<1>4. MergeEntries(st, m) = With(st, MergedLog(st, m), MergedCount(st, m),
                                 st.persist_dirty \/ LogChanges(st, m))
  BY Zenon DEF MergeEntries, With
<1>5. After(st, m, Len(m.entries)) = MergeEntries(st, m)
  BY <1>1, <1>2, <1>3, <1>4, Zenon DEF After
<1>6. RebuildAfter(st, m, Len(m.entries)) = ReplacesApplied(st, m)
  BY DEF RebuildAfter, ReplacesApplied
<1> QED BY <1>5, <1>6

\* The loop of node_append_entries_from_leader computes the closed form that the cluster
\* uses, whatever the node, its log and the message: every conflict, every overlap and a
\* full array included.
THEOREM LoopIsClosedForm == Spec => []ClosedForm
<1>1. LoopInv => ClosedForm
  <2> SUFFICES ASSUME LoopInv, next > Len(message.entries)
               PROVE  /\ s = MergeEntries(start, message)
                      /\ rebuild = ReplacesApplied(start, message)
    BY DEF ClosedForm
  <2>1. Applicable(start, message)
    BY DEF LoopInv
  <2>2. Len(message.entries) \in Nat /\ start \in Node /\ message \in Message
    BY <2>1, Numbers DEF Applicable
  <2>3. next - 1 = Len(message.entries)
    BY <2>2 DEF LoopInv
  <2>4. s = After(start, message, next - 1) /\ rebuild = RebuildAfter(start, message, next - 1)
    BY DEF LoopInv
  <2> QED BY <2>2, <2>3, <2>4, AfterAllEntries, Zenon
<1> QED BY <1>1, LoopInit, LoopNext, PTL DEF Spec
=============================================================================
