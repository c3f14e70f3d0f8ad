------------------------------ MODULE Recovery ------------------------------
(***************************************************************************)
(* Replay at open (src/src/db.rs): DbInner::open sets last_enacted from    *)
(* Log::replay_record_id, then Db::open_inner calls replay_all_logs before *)
(* any worker starts.  replay_all_logs takes the replay log files one by   *)
(* one (Log::replay_next) and drains each with enact_logs(true), which in  *)
(* validation mode checks a record's id against last_enacted + 1 and       *)
(* validates all of its actions before applying any; on any failure it     *)
(* calls Log::clear_replay_logs, discarding the rest of the replay.        *)
(*                                                                         *)
(* The disk is whatever a crash, a torn write or corruption leaves: every  *)
(* sequence of files of records from a small domain is an initial state.   *)
(* A record is its id, whether its header reads, whether its actions       *)
(* validate (column.validate_plan and framing), and whether it carries a   *)
(* DropTable.  The Log facade (log.rs) is not under src/: replay_record_id *)
(* (the first record's id), replay_next, read_next and clear_replay_logs   *)
(* follow spec.md 4.5 and 4.7.                                             *)
(***************************************************************************)
EXTENDS Integers, Sequences, SequencesExt

CONSTANTS Ids,           \* record ids a file may hold
          MaxRecords     \* bound: records on disk

ASSUME Ids \subseteq Nat /\ MaxRecords \in Nat

VARIABLES
  disk,          \* the replay log files found at open (never changes)
  files,         \* replay files not yet taken by replay_next
  cur,           \* records left in the file being replayed
  pc,            \* replay_all_logs: "next" file, "enact" a record, "done"
  lastEnacted,   \* DbInner::last_enacted
  nextReindex,   \* DbInner::next_reindex
  enacted        \* ids of the records applied to the columns, in order

vars == <<disk, files, cur, pc, lastEnacted, nextReindex, enacted>>

Record == [id : Ids, header : BOOLEAN, valid : BOOLEAN, drop : BOOLEAN]

\* A record whose header does not read carries nothing else.
DiskRecord == {r \in Record : r.header \/ (~r.valid /\ ~r.drop)}

\* Disks of at most MaxRecords records, in one file or split into two.
Disks ==
  {<<>>} \cup
  UNION {{<<rs>>} \cup
         {<<SubSeq(rs, 1, k), SubSeq(rs, k + 1, Len(rs))>> : k \in 0..Len(rs)} :
           rs \in BoundedSeq(DiskRecord, MaxRecords)}

\* Log::replay_record_id: the id of the first record to replay, as an
\* Option ({} for None).
ReplayRecordId(d) ==
  LET rs == FlattenSeq(d) IN IF rs = <<>> THEN {} ELSE {Head(rs).id}

\* The value of an Option, or a default.
UnwrapOr(opt, default) == IF opt = {} THEN default ELSE CHOOSE v \in opt : TRUE

\* A plausible bug: a missing replay record id defaults to 0.
LastEnactedAtOpenZero(rid) == UnwrapOr(rid, 0) - 1

\* DbInner::open: replay_record_id().unwrap_or(2) - 1.
LastEnactedAtOpen(rid) == UnwrapOr(rid, 2) - 1

Init ==
  /\ disk \in Disks
  /\ files = disk /\ cur = <<>> /\ pc = "next"
  /\ lastEnacted = LastEnactedAtOpen(ReplayRecordId(disk))
  /\ nextReindex = 1
  /\ enacted = <<>>

\* Log::replay_next opens the next replay file; with none left, the replay
\* is complete and the columns refresh their cached metadata.
replay_next ==
  /\ pc = "next"
  /\ IF files # <<>>
       THEN /\ cur' = Head(files) /\ files' = Tail(files) /\ pc' = "enact"
       ELSE /\ pc' = "done" /\ UNCHANGED <<files, cur>>
  /\ UNCHANGED <<disk, lastEnacted, nextReindex, enacted>>

\* A plausible bug: only the file being replayed is discarded.
ClearCurrentFileOnly == cur' = <<>> /\ UNCHANGED files

\* Log::clear_replay_logs: the rest of the replay is discarded.
ClearReplayLogs == cur' = <<>> /\ files' = <<>>

\* enact_logs(true) returns false: replay_all_logs asks for the next file.
EnactReturnsFalse ==
  /\ pc' = "next"
  /\ UNCHANGED <<disk, lastEnacted, nextReindex, enacted>>

\* read_next finds no more records in this file: "End of log".
enact_logs_end_of_file ==
  /\ pc = "enact" /\ cur = <<>>
  /\ EnactReturnsFalse /\ UNCHANGED <<files, cur>>

\* read_next fails with Corruption (a bad header) in validation mode.
enact_logs_bad_header ==
  /\ pc = "enact" /\ cur # <<>> /\ ~Head(cur).header
  /\ ClearReplayLogs /\ EnactReturnsFalse

\* "Log sequence error": the id is not last_enacted + 1.
enact_logs_sequence_error ==
  /\ pc = "enact" /\ cur # <<>> /\ Head(cur).header
  /\ Head(cur).id # lastEnacted + 1
  /\ ClearReplayLogs /\ EnactReturnsFalse

\* The validation pass meets an error: a read error, a nested BeginRecord,
\* or a column rejecting an action.
enact_logs_invalid ==
  /\ pc = "enact" /\ cur # <<>> /\ Head(cur).header
  /\ Head(cur).id = lastEnacted + 1
  /\ ~Head(cur).valid
  /\ ClearReplayLogs /\ EnactReturnsFalse

\* Validated: reset the reader and enact every action (a DropTable drops
\* the index and calls start_reindex), then last_enacted.store and
\* Log::end_read; enact_logs returns true and is called again.
enact_logs_apply ==
  /\ pc = "enact" /\ cur # <<>>
  /\ LET r == Head(cur) IN
       /\ r.header /\ r.id = lastEnacted + 1 /\ r.valid
       /\ enacted' = Append(enacted, r.id)
       /\ nextReindex' = IF r.drop THEN r.id ELSE nextReindex
       /\ lastEnacted' = r.id
  /\ cur' = Tail(cur)
  /\ UNCHANGED <<disk, files, pc>>

Next ==
  \/ replay_next
  \/ enact_logs_end_of_file \/ enact_logs_bad_header
  \/ enact_logs_sequence_error \/ enact_logs_invalid \/ enact_logs_apply

Spec == Init /\ [][Next]_vars

-----------------------------------------------------------------------------
\* Every variable holds a value of its type; last_enacted (a u64) is never
\* negative, whatever the disk holds.
TypeOK ==
  /\ disk \in Seq(Seq(DiskRecord))
  /\ files \in Seq(Seq(DiskRecord)) /\ cur \in Seq(DiskRecord)
  /\ pc \in {"next", "enact", "done"}
  /\ lastEnacted \in Nat /\ nextReindex \in Nat
  /\ enacted \in Seq(Ids)

\* Reference: the records replay may apply are the longest run, from the
\* first record on, of readable, valid records whose ids follow one another
\* from last_enacted + 1, across file boundaries.
RECURSIVE ValidRun(_, _)
ValidRun(rs, last) ==
  IF rs = <<>> THEN <<>>
  ELSE LET r == Head(rs) IN
       IF r.header /\ r.valid /\ r.id = last + 1
         THEN <<r.id>> \o ValidRun(Tail(rs), r.id)
         ELSE <<>>

\* spec.md 4.7 and 8 (durability): replay yields a prefix of the logged
\* records with no torn record.  At every step the records applied are a
\* prefix of the valid run, and once replay_all_logs is done they are all
\* of it: nothing after the first bad record is applied, however the
\* records fall into files.
ReplayAppliesValidPrefix ==
  LET run == ValidRun(FlattenSeq(disk),
                      LastEnactedAtOpen(ReplayRecordId(disk))) IN
  /\ IsPrefix(enacted, run)
  /\ pc = "done" => enacted = run
=============================================================================
