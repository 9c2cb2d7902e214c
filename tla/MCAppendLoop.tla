---------------------------- MODULE MCAppendLoop ----------------------------
(***************************************************************************)
(* Constants for the run of RaftAppendLoop: every log of up to             *)
(* RAFT_MAX_LOG entries of terms 1 and 2, created by leaders 1 and 2, with *)
(* and without a snapshot before it, against every such message.           *)
(***************************************************************************)
EXTENDS RaftAppendLoop

SelfInitial == [n \in Server |-> Server]
ZeroMemory == ZeroEntry

MaxTerm == 2

Origin == [term : 1..MaxTerm, leader_id : Server]

\* Who created the entries of a log, with terms that do not decrease.
Histories ==
    UNION {{h \in [1..n -> Origin] : \A a, b \in 1..n : a < b => h[a].term <= h[b].term} :
              n \in 0..RAFT_MAX_LOG}

EntriesAfter(i, h) ==
    [k \in 1..Len(h) |-> [index |-> i + k, term |-> h[k].term, leader_id |-> h[k].leader_id,
                          command |-> ZeroCommand]]

NodeWith(snapshot, h, applied) ==
    [ZeroNode(1) EXCEPT
        !.snapshot_last_included_index = snapshot,
        !.snapshot_last_included_term = snapshot,
        !.log = [p \in 1..RAFT_MAX_LOG |->
                    IF p <= Len(h) THEN EntriesAfter(snapshot, h)[p] ELSE ZeroEntry],
        !.log_count = Len(h),
        !.last_applied = snapshot + applied]

MCStarts == {NodeWith(snapshot, h, applied) : snapshot \in {0, 1}, h \in Histories,
                                              applied \in {0, 1}}

MCReceived ==
    {[ZeroMessage EXCEPT !.kind = "APPEND_ENTRIES", !.prev_log_index = prev,
                         !.prev_log_term = IF prev = 0 THEN 0 ELSE 1,
                         !.prev_log_leader_id = IF prev = 0 THEN Nil ELSE leader,
                         !.entries = EntriesAfter(prev, h)] :
        prev \in 0..2, leader \in Server, h \in Histories}
=============================================================================
