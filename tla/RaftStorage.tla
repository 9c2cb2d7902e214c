---------------------------- MODULE RaftStorage ----------------------------
(***************************************************************************)
(* c/src/raft_storage.c.  A node's directory holds three files, each       *)
(* replaced atomically by atomic_replace_path: meta.txt, log.txt and       *)
(* snapshot.bin.  raft_storage_node_save writes meta.txt, then log.txt;    *)
(* raft_storage_save_snapshot writes snapshot.bin.  A missing file is the  *)
(* value raft_storage_node_load leaves when it cannot open it.             *)
(*                                                                         *)
(* A line of log.txt is index|term|leader_id|op|key|value and is split at  *)
(* its first five bars: it gives back the entry it was written from as     *)
(* long as op and key hold no bar and no field a line break.  The entries  *)
(* of the model are of that kind.                                          *)
(***************************************************************************)
EXTENDS RaftTypes

Meta == [current_term : Nat, voted_for : MaybeServer, compaction_threshold : Nat,
         commit_index : Nat, snapshot_last_included_index : Nat,
         snapshot_last_included_term : Nat, config_state : Configuration]
NoMeta == [current_term |-> 0, voted_for |-> Nil, compaction_threshold |-> RAFT_MAX_LOG,
           commit_index |-> 0, snapshot_last_included_index |-> 0,
           snapshot_last_included_term |-> 0, config_state |-> ZeroConfiguration]

\* index -1 matches no node: there is no snapshot.bin.
Snapshot == [index : Nat \cup {-1}, term : Nat, data : Seq(Command)]
NoSnapshot == [index |-> -1, term |-> 0, data |-> << >>]

Disk == [meta : Meta, log : Seq(Entry), snapshot : Snapshot]
EmptyDisk == [meta |-> NoMeta, log |-> << >>, snapshot |-> NoSnapshot]

\* Mutant: the line voted_for is missing in meta.txt.
MetaWithoutVote(s) ==
    [current_term |-> s.current_term, voted_for |-> Nil,
     compaction_threshold |-> s.compaction_threshold, commit_index |-> s.commit_index,
     snapshot_last_included_index |-> s.snapshot_last_included_index,
     snapshot_last_included_term |-> s.snapshot_last_included_term,
     config_state |-> s.config_state]

write_meta(s) ==
    [current_term |-> s.current_term, voted_for |-> s.voted_for,
     compaction_threshold |-> s.compaction_threshold, commit_index |-> s.commit_index,
     snapshot_last_included_index |-> s.snapshot_last_included_index,
     snapshot_last_included_term |-> s.snapshot_last_included_term,
     config_state |-> s.config_state]

write_log(s) == [p \in 1..s.log_count |-> s.log[p]]

raft_storage_node_save(d, s) == [d EXCEPT !.meta = write_meta(s), !.log = write_log(s)]

raft_storage_save_snapshot(d, s, i, t) ==
    [d EXCEPT !.snapshot = [index |-> i, term |-> t, data |-> s.snapshot_buf]]

-----------------------------------------------------------------------------
(* raft_storage_node_load.  log.txt holds consecutive indexes, so the      *)
(* lines the snapshot covers, which load skips, are its first ones.        *)

\* Mutant: lines the snapshot covers are loaded too.
NoLineSkipped(d) == 0

SkippedLines(d) ==
    Cardinality({i \in 1..Len(d.log) :
                    d.log[i].index <= d.meta.snapshot_last_included_index})

LoadedCount(d) == Smaller(RAFT_MAX_LOG, Len(d.log) - SkippedLines(d))

LoadedLog(d) ==
    [p \in 1..RAFT_MAX_LOG |->
        IF p <= LoadedCount(d) THEN d.log[p + SkippedLines(d)] ELSE ZeroEntry]

\* snap_loaded: snapshot.bin is used only if it is the one meta.txt names.
SnapshotMatches(d) ==
    /\ d.snapshot.index = d.meta.snapshot_last_included_index
    /\ d.snapshot.term = d.meta.snapshot_last_included_term

raft_storage_node_load(s, d) ==
    LET snap == d.meta.snapshot_last_included_index
        buf  == IF SnapshotMatches(d) THEN d.snapshot.data ELSE << >>
    IN  [s EXCEPT !.current_term = d.meta.current_term,
                  !.voted_for = d.meta.voted_for,
                  !.compaction_threshold = d.meta.compaction_threshold,
                  !.config_state = d.meta.config_state,
                  !.snapshot_last_included_index = snap,
                  !.snapshot_last_included_term = d.meta.snapshot_last_included_term,
                  !.log = LoadedLog(d),
                  !.log_count = LoadedCount(d),
                  !.commit_index = Smaller(d.meta.commit_index, snap + LoadedCount(d)),
                  !.snapshot_buf = buf,
                  !.app = buf,
                  !.last_applied = IF SnapshotMatches(d) THEN snap ELSE 0]
=============================================================================
