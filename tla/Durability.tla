----------------------------- MODULE Durability -----------------------------
(***************************************************************************)
(* A database running, crashing, and replaying at the next open.          *)
(*                                                                         *)
(* While it runs, the log worker writes records (process_commits), the     *)
(* flush worker syncs log files and makes them readable (flush_logs), the  *)
(* commit worker enacts them into the columns (enact_logs), and the        *)
(* cleanup worker removes log files whose records are all enacted          *)
(* (cleanup_logs, src/src/db.rs 609-621).  With sync_data, cleanup_logs    *)
(* flushes the columns before it removes logs.                             *)
(*                                                                         *)
(* A crash is the process terminating (spec.md section 8) or the power    *)
(* going.  The disk then holds the column files as of their last flush,    *)
(* with any of the records enacted since, every log file the flush worker  *)
(* synced and cleanup has not removed, and a prefix of the records written *)
(* after them, possibly ending in a torn record.  When only the process    *)
(* ends, everything written survives, one of these choices.  The next open *)
(* replays that disk with the actions of Recovery, whose own initial       *)
(* states (every disk a corruption can leave) stay initial states here.    *)
(*                                                                         *)
(* A record is its id, written once; re-enacting a record the columns      *)
(* already hold is taken to be idempotent (column.rs).  Log::flush_one and *)
(* the dirty-log bookkeeping of Log::end_read and clean_logs follow        *)
(* spec.md 4.5 and 4.8 (log.rs is not under src/).                        *)
(***************************************************************************)
EXTENDS Recovery

CONSTANTS SyncData,      \* Options::sync_data
          KEEP_LOGS,     \* logs kept without sync_data (16 in db.rs)
          MinLogSize     \* the flush worker's min_log_size, in records

ASSUME SyncData \in BOOLEAN /\ {KEEP_LOGS, MinLogSize} \subseteq Nat

VARIABLES
  crashed,        \* the disk is what a crash left of the run
  nextId,         \* the log's next record id
  appendingFile,  \* ids of the records in the file being appended to
  flushingFile,   \* ids of the records in the file being synced
  readableFiles,  \* synced files not yet fully enacted
  readPos,        \* records of the first readable file already enacted
  dirtyFiles,     \* files fully enacted and not yet removed
  colsDurable,    \* last record id the column files' last flush wrote
  colsExtra,      \* records enacted after it that reached disk anyway
  cuPc,           \* cleanup worker: "idle", or "clean" after the flush
  cuCount,        \* the number of logs cleanup_logs will remove
  syncedAtCrash   \* last synced record id at the crash

runVars == <<crashed, nextId, appendingFile, flushingFile, readableFiles,
             readPos, dirtyFiles, colsDurable, colsExtra, cuPc, cuCount,
             syncedAtCrash>>
replayVars == <<disk, files, cur, pc, lastEnacted, nextReindex, enacted>>
allVars == <<runVars, replayVars>>

\* cleanup_logs: `keep_logs = if sync_data { 0 } else { KEEP_LOGS }`.
Keep == IF SyncData THEN 0 ELSE KEEP_LOGS

\* A record as a replay sees it once it is on disk, whole or torn.
Whole(id) == [id |-> id, header |-> TRUE, valid |-> TRUE, drop |-> FALSE]
Torn(id) == [id |-> id, header |-> FALSE, valid |-> FALSE, drop |-> FALSE]
OnDisk(f) == [i \in 1..Len(f) |-> Whole(f[i])]

\* What a crash leaves of the two files not yet synced: the records were
\* written in order, so a prefix of them survives, possibly followed by
\* the next record torn.  The flushing file comes first.
Unsynced(fl, ap) ==
  LET both == fl \o ap
      Cut(k, t) == LET s == OnDisk(SubSeq(both, 1, k)) \o t
                   IN <<SubSeq(s, 1, Min({Len(fl), Len(s)})),
                        SubSeq(s, Len(fl) + 1, Len(s))>>
  IN {Cut(k, <<>>) : k \in 0..Len(both)} \cup
     {Cut(k, <<Torn(both[k + 1])>>) : k \in 0..Len(both) - 1}

RunInit ==
  /\ crashed = FALSE /\ nextId = 2
  /\ appendingFile = <<>> /\ flushingFile = <<>>
  /\ readableFiles = <<>> /\ readPos = 0 /\ dirtyFiles = <<>>
  /\ colsDurable = 1 /\ colsExtra = {}
  /\ cuPc = "idle" /\ cuCount = 0 /\ syncedAtCrash = 1

\* Either a fresh database about to run (no log: last_enacted is 1), or
\* the open of whatever disk Recovery starts from.
SystemInit ==
  /\ RunInit
  /\ \/ /\ disk = <<>> /\ files = <<>> /\ cur = <<>> /\ pc = "run"
        /\ lastEnacted = 1 /\ nextReindex = 1 /\ enacted = <<>>
     \/ Init

-----------------------------------------------------------------------------
(* The run.                                                                *)

\* process_commits: begin_record .. end_record appends a record.
log_write ==
  /\ pc = "run" /\ nextId \in Ids
  /\ appendingFile' = Append(appendingFile, nextId)
  /\ nextId' = nextId + 1
  /\ UNCHANGED <<crashed, flushingFile, readableFiles, readPos, dirtyFiles,
                 colsDurable, colsExtra, cuPc, cuCount, syncedAtCrash,
                 replayVars>>

\* flush_logs(min_log_size) with Log::flush_one: the synced file becomes
\* readable, and the appending file is handed to syncing once it holds a
\* record and at least min_log_size of them.
Rotates == appendingFile # <<>> /\ Len(appendingFile) >= MinLogSize
flush_logs ==
  /\ pc = "run" /\ (flushingFile # <<>> \/ Rotates)
  /\ readableFiles' = IF flushingFile # <<>>
                        THEN Append(readableFiles, flushingFile)
                        ELSE readableFiles
  /\ flushingFile' = IF Rotates THEN appendingFile ELSE <<>>
  /\ appendingFile' = IF Rotates THEN <<>> ELSE appendingFile
  /\ UNCHANGED <<crashed, nextId, readPos, dirtyFiles, colsDurable, colsExtra,
                 cuPc, cuCount, syncedAtCrash, replayVars>>

\* enact_logs(false): read_next, enact, last_enacted.store and end_read;
\* a file whose last record is enacted becomes dirty.
enact_logs ==
  /\ pc = "run" /\ readableFiles # <<>>
  /\ LET f == Head(readableFiles) IN
       /\ lastEnacted' = f[readPos + 1]
       /\ IF readPos + 1 = Len(f)
            THEN /\ dirtyFiles' = Append(dirtyFiles, f)
                 /\ readableFiles' = Tail(readableFiles)
                 /\ readPos' = 0
            ELSE /\ readPos' = readPos + 1
                 /\ UNCHANGED <<dirtyFiles, readableFiles>>
  /\ UNCHANGED <<crashed, nextId, appendingFile, flushingFile, colsDurable,
                 colsExtra, cuPc, cuCount, syncedAtCrash, disk, files, cur, pc,
                 nextReindex, enacted>>

\* A plausible bug: the columns are not flushed before logs are removed.
ColsAfterCleanupFlushSkipped(durable, enactedId) == durable

\* `if sync_data { for c in columns { c.flush()? } }`: the column files
\* then hold every record enacted so far.
ColsAfterCleanupFlush(durable, enactedId) ==
  IF SyncData THEN enactedId ELSE durable

\* cleanup_logs, first part: num_dirty_logs() is read, and if it is more
\* than keep_logs the columns are flushed.
cleanup_logs_flush ==
  /\ pc = "run" /\ cuPc = "idle"
  /\ Len(dirtyFiles) > Keep
  /\ cuCount' = Len(dirtyFiles) - Keep
  /\ colsDurable' = ColsAfterCleanupFlush(colsDurable, lastEnacted)
  /\ cuPc' = "clean"
  /\ UNCHANGED <<crashed, nextId, appendingFile, flushingFile, readableFiles,
                 readPos, dirtyFiles, colsExtra, syncedAtCrash, replayVars>>

\* A plausible bug: the number of logs to remove is read again after the
\* flush, and counts files enacted since.
CleanCountRecounted(n) == Len(dirtyFiles) - Keep

\* clean_logs(num_cleanup - keep_logs), with the count read before the flush.
CleanCount(n) == n

\* cleanup_logs, second part: Log::clean_logs removes the oldest dirty logs.
cleanup_logs_clean ==
  /\ pc = "run" /\ cuPc = "clean"
  /\ dirtyFiles' =
       SubSeq(dirtyFiles, CleanCount(cuCount) + 1, Len(dirtyFiles))
  /\ cuPc' = "idle" /\ cuCount' = 0
  /\ UNCHANGED <<crashed, nextId, appendingFile, flushingFile, readableFiles,
                 readPos, colsDurable, colsExtra, syncedAtCrash, replayVars>>

\* The process terminates.  The disk keeps the dirty and readable files
\* whole and a prefix of the records not yet synced; the column files keep
\* what their last flush wrote, and any of the records enacted since.  The
\* next open (DbInner::open) reads last_enacted from the disk and
\* replay_all_logs starts.
crash ==
  LET synced == dirtyFiles \o readableFiles IN
  /\ pc = "run"
  /\ \E u \in Unsynced(flushingFile, appendingFile) :
       LET d == SelectSeq([i \in 1..Len(synced) |-> OnDisk(synced[i])] \o u,
                          LAMBDA f : f # <<>>)
       IN /\ disk' = d /\ files' = d /\ cur' = <<>> /\ pc' = "next"
          /\ lastEnacted' = LastEnactedAtOpen(ReplayRecordId(d))
          /\ nextReindex' = 1 /\ enacted' = <<>>
  /\ colsExtra' \in SUBSET (colsDurable + 1..lastEnacted)
  /\ crashed' = TRUE
  /\ syncedAtCrash' = IF synced = <<>> THEN 1 ELSE Last(Last(synced))
  /\ UNCHANGED <<nextId, appendingFile, flushingFile, readableFiles, readPos,
                 dirtyFiles, colsDurable, cuPc, cuCount>>

RunNext ==
  \/ log_write \/ flush_logs \/ enact_logs
  \/ cleanup_logs_flush \/ cleanup_logs_clean \/ crash

SystemNext == RunNext \/ (Next /\ UNCHANGED runVars)

SystemSpec == SystemInit /\ [][SystemNext]_allVars

-----------------------------------------------------------------------------
\* Every variable holds a value of its type, in the run and in the replay.
SystemTypeOK ==
  /\ crashed \in BOOLEAN /\ nextId \in Nat
  /\ {appendingFile, flushingFile} \subseteq Seq(Ids)
  /\ readableFiles \in Seq(Seq(Ids)) /\ dirtyFiles \in Seq(Seq(Ids))
  /\ readPos \in Nat /\ colsDurable \in Nat /\ colsExtra \subseteq Ids
  /\ syncedAtCrash \in Nat
  /\ cuPc \in {"idle", "clean"} /\ cuCount \in Nat
  /\ disk \in Seq(Seq(DiskRecord)) /\ files \in Seq(Seq(DiskRecord))
  /\ cur \in Seq(DiskRecord)
  /\ pc \in {"run", "next", "enact", "done"}
  /\ lastEnacted \in Nat /\ nextReindex \in Nat /\ enacted \in Seq(Ids)

\* The records the database holds once replay is done: those the column
\* files held at the crash, and those replay enacted again.
Recovered == (2..colsDurable) \cup colsExtra \cup ToSet(enacted)

\* spec.md 4.8 and section 8: with sync_data, the database reopened after
\* a crash holds every record from the first up to some record, with none
\* missing, and at least every record a log file held once the flush worker
\* had synced it.  cleanup_logs
\* makes this hold by flushing the columns before it removes a log, and by
\* removing only logs counted before that flush.
CrashKeepsSyncedPrefix ==
  (crashed /\ pc = "done") =>
    \E m \in syncedAtCrash..nextId : Recovered = 2..m
=============================================================================
