--------------------------- MODULE CommitPipeline ---------------------------
(***************************************************************************)
(* The data path of the commit pipeline of src/src/db.rs while the         *)
(* database runs: clients commit changesets into the commit queue and the  *)
(* commit overlay (commit_raw); the log worker turns each queued commit    *)
(* into a write-ahead log record and drops the overlay entries it has      *)
(* made redundant (process_commits); the flush worker makes records        *)
(* readable (flush_logs); the commit worker applies them to the tables     *)
(* (enact_logs).  A read (DbInner::get) looks in the commit overlay, then  *)
(* in the log overlay, then in the tables.                                 *)
(*                                                                         *)
(* One column, reference counted or not; keys are the hashed keys; a      *)
(* value is a model value; the byte size of a key or of a value is 1.  The *)
(* reference counts of a ref-counted column (column.rs, not part of the    *)
(* sources) follow spec.md section 8: a write adds a reference, a delete   *)
(* removes one, and the value goes with the last reference.  The Log       *)
(* facade (src/log.rs, not part of the sources) is modelled from spec.md   *)
(* section 4.5/4.6: an appending file, a file being flushed, a queue of    *)
(* readable records and a per-key log overlay.                             *)
(***************************************************************************)
EXTENDS Naturals, Sequences, SequencesExt

CONSTANTS Keys,              \* hashed keys of the column
          Values,            \* values a client writes
          None,              \* Option::None: a delete, or no value
          MaxCommits,        \* bound: number of commit_raw calls
          MAX_LOG_QUEUE_BYTES,
          MinLogSize,        \* the flush worker's min_log_size
          RefCounted         \* the column's metadata flag ref_counted

ASSUME /\ None \notin Values
       /\ MaxCommits \in Nat
       /\ MAX_LOG_QUEUE_BYTES \in Nat
       /\ MinLogSize \in Nat
       /\ RefCounted \in BOOLEAN

Val == Values \cup {None}

\* A commit's changeset: a value (or None) for each of a nonempty set of keys.
Changesets == UNION {[D -> Val] : D \in SUBSET Keys \ {{}}}

\* Bytes of a changeset: key length plus value length (Commit::bytes and
\* the size of the log record written for it).
ChangeBytes(cs) == MapThenSumSet(LAMBDA k : IF cs[k] = None THEN 1 ELSE 2, DOMAIN cs)

\* An overlay slot: (record id, value); id 0 marks an empty slot.
NoEntry == [id |-> 0, val |-> None]

VARIABLES
  queue,          \* commit_queue.commits: FIFO of [id, changes]
  queueRecordId,  \* commit_queue.record_id
  overlay,        \* commit_overlay: key -> (commit id, value)
  committed,      \* number of commit_raw calls so far (bounded)
  logSignal,      \* log_worker_wait.work
  logPc,          \* where the log worker is in its loop
  logMore,        \* the log worker's more_work
  logCommit,      \* the commit process_commits holds
  logRecord,      \* the record process_commits has written
  nextRecordId,   \* the Log facade's next record id
  appending,      \* records in the log file being appended to
  flushing,       \* records in the log file being flushed
  readable,       \* flushed records not yet read by the commit worker
  logOverlay,     \* log overlay: key -> (record id, value)
  logQueue,       \* log_queue_wait.work: bytes logged but not enacted
  flushSignal,    \* flush_worker_wait.work
  flushMore,      \* the flush worker's more_work
  commitSignal,   \* commit_worker_wait.work
  enactPc,        \* where the commit worker is in enact_logs
  enactMore,      \* the commit worker's more_work
  enactRecord,    \* the record the commit worker is enacting
  tables,         \* the column's index and value tables: key -> value
  refs,           \* a ref-counted column's reference count per key
  lastEnacted     \* last_enacted

clientVars == <<queue, queueRecordId, overlay, committed>>
logVars == <<logSignal, logPc, logMore, logCommit, logRecord>>
facadeVars == <<nextRecordId, appending, flushing, readable, logOverlay>>
flushVars == <<flushSignal, flushMore>>
enactVars == <<commitSignal, enactPc, enactMore, enactRecord, tables, refs,
              lastEnacted>>
vars == <<clientVars, logVars, facadeVars, flushVars, enactVars, logQueue>>

Record == [id : Nat, changes : Changesets, bytes : Nat]
NoRecord == [id |-> 0, changes |-> [k \in {} |-> None], bytes |-> 0]
NoCommit == [id |-> 0, changes |-> [k \in {} |-> None]]

-----------------------------------------------------------------------------
(* Helpers                                                                 *)

\* The overlay after a changeset tagged with id has been written into it.
OverlayWith(ov, cs, id) ==
  [k \in Keys |-> IF k \in DOMAIN cs THEN [id |-> id, val |-> cs[k]] ELSE ov[k]]

\* The overlay after the entries a changeset tagged with id made are
\* removed, except those a later write has overwritten.
OverlayWithout(ov, cs, id) ==
  [k \in Keys |-> IF k \in DOMAIN cs /\ ov[k].id = id THEN NoEntry ELSE ov[k]]

\* A plausible bug: clean the commit overlay without comparing ids.
CommitOverlayCleanupAnyId(ov, c) ==
  [k \in Keys |-> IF k \in DOMAIN c.changes THEN NoEntry ELSE ov[k]]

\* process_commits, "Cleanup the commit overlay": remove commit c's entries.
CommitOverlayCleanup(ov, c) == OverlayWithout(ov, c.changes, c.id)

\* A plausible bug: Log::end_read drops the log overlay entries of every key
\* of the record, newer ones included.
LogEndReadAnyId(ov, rec) ==
  [k \in Keys |-> IF k \in DOMAIN rec.changes THEN NoEntry ELSE ov[k]]

\* Log::end_read(cleared, record_id): drop the record's log overlay entries.
LogEndRead(ov, rec) == OverlayWithout(ov, rec.changes, rec.id)

\* A plausible bug: clamp the log queue at zero instead of letting it
\* underflow when enact_logs overtakes process_commits' accounting.
LogQueueAfterEnactClamped(q, bytes) == IF q < bytes THEN 0 ELSE q - bytes

\* enact_logs: the log queue after a record of the given bytes is enacted.
LogQueueAfterEnact(q, bytes) == q - bytes

\* A plausible bug: notify log_queue_wait.cv after every enacted record.
CrossesBelowBoundAlways(q, bytes) == TRUE

\* enact_logs notifies log_queue_wait.cv only when the queue crosses the
\* bound from above.
CrossesBelowBound(q, bytes) ==
  q <= MAX_LOG_QUEUE_BYTES /\ q + bytes > MAX_LOG_QUEUE_BYTES

\* A plausible bug: get consults the log overlay before the commit overlay.
ReadValueLogFirst(k) ==
  IF logOverlay[k] # NoEntry THEN logOverlay[k].val
  ELSE IF overlay[k] # NoEntry THEN overlay[k].val
  ELSE tables[k]

\* DbInner::get: commit overlay first, then the log overlay, then the tables.
ReadValue(k) ==
  IF overlay[k] # NoEntry THEN overlay[k].val
  ELSE IF logOverlay[k] # NoEntry THEN logOverlay[k].val
  ELSE tables[k]

\* Log::flush_one: the synced file's records join the read queue.
ReadQueueAfterSync(rq, synced) == rq \o synced

SeqBytes(s) == FoldSeq(LAMBDA r, acc : r.bytes + acc, 0, s)


\* commit_raw writes a change into the overlay unless the column is
\* ref-counted and the change is a delete.
OverlayChanges(cs) ==
  [k \in {k \in DOMAIN cs : ~RefCounted \/ cs[k] # None} |-> cs[k]]

\* The column after a record's changes are enacted (enact_plan): a plain
\* column takes each value; a ref-counted one counts references and drops
\* the value with the last.
RefsAfterEnact(r, cs) ==
  [k \in Keys |-> IF ~RefCounted \/ k \notin DOMAIN cs THEN r[k]
                  ELSE IF cs[k] # None THEN r[k] + 1
                  ELSE IF r[k] > 0 THEN r[k] - 1 ELSE 0]
TablesAfterEnact(t, r, cs) ==
  [k \in Keys |-> IF k \notin DOMAIN cs THEN t[k]
                  ELSE IF ~RefCounted \/ cs[k] # None THEN cs[k]
                  ELSE IF RefsAfterEnact(r, cs)[k] = 0 THEN None ELSE t[k]]

-----------------------------------------------------------------------------
(* Client: DbInner::commit_raw.  Under the queue lock and the overlay      *)
(* write lock it allocates the commit id, writes every change into the     *)
(* overlay, queues the commit and signals the log worker.  (The wait on    *)
(* commit_queue_full_cv is modelled in module CommitQueue.)                *)

\* A plausible bug: the id is taken from record_id before it is increased.
CommitIdBeforeIncrement(rid) == rid

\* `queue.record_id += 1; let record_id = queue.record_id + 1;`
CommitId(rid) == rid + 2

commit_raw(cs) ==
  LET id == CommitId(queueRecordId) IN
  /\ committed < MaxCommits
  /\ queueRecordId' = queueRecordId + 1
  /\ overlay' = OverlayWith(overlay, OverlayChanges(cs), id)
  /\ queue' = Append(queue, [id |-> id, changes |-> cs])
  /\ logSignal' = TRUE
  /\ committed' = committed + 1
  /\ UNCHANGED <<logPc, logMore, logCommit, logRecord, facadeVars, flushVars,
                 enactVars, logQueue>>

-----------------------------------------------------------------------------
(* Log worker: Db::log_worker's loop around DbInner::process_commits.      *)
(* process_reindex finds nothing to do here: no column asks for a reindex. *)

\* Top of the loop: wait for the signal unless more_work, then the first
\* step of process_commits: wait on the log queue condvar if it is full.
log_worker_wake ==
  /\ logPc = "top"
  /\ logMore \/ logSignal
  /\ logSignal' = (logSignal /\ logMore)
  /\ logPc' = IF logQueue > MAX_LOG_QUEUE_BYTES THEN "cvwait" ELSE "pop"
  /\ UNCHANGED <<clientVars, logMore, logCommit, logRecord, facadeVars,
                 flushVars, enactVars, logQueue>>

\* Pop the head of the commit queue; an empty queue ends this pass.
process_commits_pop ==
  /\ logPc = "pop"
  /\ IF queue = <<>>
       THEN /\ logMore' = FALSE
            /\ logPc' = "top"
            /\ UNCHANGED <<queue, logCommit>>
       ELSE /\ logCommit' = Head(queue)
            /\ queue' = Tail(queue)
            /\ logPc' = "write"
            /\ UNCHANGED logMore
  /\ UNCHANGED <<queueRecordId, overlay, committed, logSignal, logRecord,
                 facadeVars, flushVars, enactVars, logQueue>>

\* begin_record, write_plan for every change, complete_plan, end_record:
\* the record is appended to the log and its changes enter the log overlay.
process_commits_write ==
  LET rec == [id |-> nextRecordId, changes |-> logCommit.changes,
              bytes |-> ChangeBytes(logCommit.changes)] IN
  /\ logPc = "write"
  /\ nextRecordId' = nextRecordId + 1
  /\ appending' = Append(appending, rec)
  /\ logOverlay' = OverlayWith(logOverlay, rec.changes, rec.id)
  /\ logRecord' = rec
  /\ logPc' = "account"
  /\ UNCHANGED <<clientVars, logSignal, logMore, logCommit, flushing, readable,
                 flushVars, enactVars, logQueue>>

\* A plausible bug: credit the log queue without signalling the flush worker.
process_commits_account_nosignal ==
  /\ logPc = "account"
  /\ logQueue' = logQueue + logRecord.bytes
  /\ logPc' = "cleanup"
  /\ UNCHANGED <<clientVars, logSignal, logMore, logCommit, logRecord,
                 facadeVars, flushVars, enactVars>>

\* Credit the record's bytes to the log queue and signal the flush worker.
process_commits_account ==
  /\ logPc = "account"
  /\ logQueue' = logQueue + logRecord.bytes
  /\ flushSignal' = TRUE
  /\ logPc' = "cleanup"
  /\ UNCHANGED <<clientVars, logSignal, logMore, logCommit, logRecord,
                 facadeVars, flushMore, enactVars>>

\* Under the overlay write lock remove the entries whose id is this
\* commit's; process_reindex then runs and the loop repeats with more_work.
process_commits_cleanup ==
  /\ logPc = "cleanup"
  /\ overlay' = CommitOverlayCleanup(overlay, logCommit)
  /\ logMore' = TRUE
  /\ logPc' = "top"
  /\ logCommit' = NoCommit
  /\ logRecord' = NoRecord
  /\ UNCHANGED <<queue, queueRecordId, committed, logSignal, facadeVars,
                 flushVars, enactVars, logQueue>>

-----------------------------------------------------------------------------
(* Flush worker: Db::flush_worker's loop around DbInner::flush_logs, with  *)
(* Log::flush_one(min_log_size) from spec.md 4.5: the file being flushed   *)
(* becomes readable, and the appending file is handed to flushing once it  *)
(* holds at least min_log_size bytes.                                      *)

flush_logs ==
  LET readNext == flushing # <<>>
      rotate   == appending # <<>> /\ SeqBytes(appending) >= MinLogSize
  IN
  /\ flushMore \/ flushSignal
  /\ flushSignal' = (flushSignal /\ flushMore)
  /\ readable' = ReadQueueAfterSync(readable, flushing)
  /\ flushing' = IF rotate THEN appending ELSE <<>>
  /\ appending' = IF rotate THEN <<>> ELSE appending
  /\ flushMore' = rotate
  /\ commitSignal' = (commitSignal \/ readNext)
  /\ UNCHANGED <<clientVars, logVars, nextRecordId, logOverlay, enactPc,
                 enactMore, enactRecord, tables, refs, lastEnacted, logQueue>>

-----------------------------------------------------------------------------
(* Commit worker: Db::commit_worker's loop around DbInner::enact_logs(false). *)

\* Wait for the signal unless more_work, then Log::read_next.
enact_logs_read ==
  /\ enactPc = "top"
  /\ enactMore \/ commitSignal
  /\ commitSignal' = (commitSignal /\ enactMore)
  /\ IF readable = <<>>
       THEN /\ enactMore' = FALSE
            /\ UNCHANGED <<readable, enactPc, enactRecord>>
       ELSE /\ enactRecord' = Head(readable)
            /\ readable' = Tail(readable)
            /\ enactPc' = "apply"
            /\ UNCHANGED enactMore
  /\ UNCHANGED <<clientVars, logVars, nextRecordId, appending, flushing,
                 logOverlay, flushVars, tables, refs, lastEnacted, logQueue>>

\* enact_plan for every action of the record, then last_enacted.
enact_logs_apply ==
  /\ enactPc = "apply"
  /\ tables' = TablesAfterEnact(tables, refs, enactRecord.changes)
  /\ refs' = RefsAfterEnact(refs, enactRecord.changes)
  /\ lastEnacted' = enactRecord.id
  /\ enactPc' = "end"
  /\ UNCHANGED <<clientVars, logVars, facadeVars, flushVars, commitSignal,
                 enactMore, enactRecord, logQueue>>

\* Log::end_read drops the record's log overlay entries; the record's bytes
\* leave the log queue, and crossing the bound wakes the log worker.
enact_logs_end ==
  LET bytes == enactRecord.bytes
      q     == LogQueueAfterEnact(logQueue, bytes)
  IN
  /\ enactPc = "end"
  /\ logOverlay' = LogEndRead(logOverlay, enactRecord)
  /\ logQueue' = q
  /\ logPc' = IF logPc = "cvwait" /\ CrossesBelowBound(q, bytes)
              THEN "pop" ELSE logPc
  /\ enactPc' = "top"
  /\ enactMore' = TRUE
  /\ enactRecord' = NoRecord
  /\ UNCHANGED <<clientVars, logSignal, logMore, logCommit, logRecord,
                 nextRecordId, appending, flushing, readable, flushVars,
                 commitSignal, tables, refs, lastEnacted>>

-----------------------------------------------------------------------------

\* A fresh database: DbInner::open sets last_enacted to 1 and the log's
\* first record id is 2.
Init ==
  /\ queue = <<>> /\ queueRecordId = 0 /\ committed = 0
  /\ overlay = [k \in Keys |-> NoEntry]
  /\ logSignal = FALSE /\ logPc = "top" /\ logMore = FALSE
  /\ logCommit = NoCommit /\ logRecord = NoRecord
  /\ nextRecordId = 2
  /\ appending = <<>> /\ flushing = <<>> /\ readable = <<>>
  /\ logOverlay = [k \in Keys |-> NoEntry]
  /\ logQueue = 0
  /\ flushSignal = FALSE /\ flushMore = FALSE
  /\ commitSignal = FALSE /\ enactPc = "top" /\ enactMore = FALSE
  /\ enactRecord = NoRecord
  /\ tables = [k \in Keys |-> None] /\ refs = [k \in Keys |-> 0]
  /\ lastEnacted = 1

LogWorker ==
  \/ log_worker_wake \/ process_commits_pop \/ process_commits_write
  \/ process_commits_account \/ process_commits_cleanup
CommitWorker == enact_logs_read \/ enact_logs_apply \/ enact_logs_end

Next ==
  \/ \E cs \in Changesets : commit_raw(cs)
  \/ LogWorker \/ flush_logs \/ CommitWorker

\* Each worker is an OS thread that runs whenever it is not blocked.
Fairness == WF_vars(LogWorker) /\ WF_vars(flush_logs) /\ WF_vars(CommitWorker)

Spec == Init /\ [][Next]_vars /\ Fairness

-----------------------------------------------------------------------------
(* Properties                                                              *)

\* Every variable holds a value of its type; in particular a commit id is
\* never 0, the id that marks an empty overlay slot.
TypeOK ==
  /\ queue \in Seq([id : Nat \ {0}, changes : Changesets])
  /\ queueRecordId \in Nat /\ committed \in 0..MaxCommits
  /\ overlay \in [Keys -> [id : Nat, val : Val]]
  /\ logOverlay \in [Keys -> [id : Nat, val : Val]]
  /\ logSignal \in BOOLEAN /\ logMore \in BOOLEAN
  /\ logPc \in {"top", "cvwait", "pop", "write", "account", "cleanup"}
  /\ logCommit \in [id : Nat, changes : Changesets] \cup {NoCommit}
  /\ logRecord \in Record \cup {NoRecord}
  /\ nextRecordId \in Nat
  /\ appending \in Seq(Record) /\ flushing \in Seq(Record) /\ readable \in Seq(Record)
  /\ logQueue \in Int
  /\ flushSignal \in BOOLEAN /\ flushMore \in BOOLEAN
  /\ commitSignal \in BOOLEAN /\ enactMore \in BOOLEAN
  /\ enactPc \in {"top", "apply", "end"}
  /\ enactRecord \in Record \cup {NoRecord}
  /\ tables \in [Keys -> Val] /\ refs \in [Keys -> 0..MaxCommits]
  /\ lastEnacted \in Nat

\* Commits queued, or popped by the log worker and not yet cleaned up.
PendingCommits ==
  ToSet(queue) \cup (IF logPc \in {"write", "account", "cleanup"} THEN {logCommit} ELSE {})

\* Records written to the log and not yet through Log::end_read.
UnenactedRecords ==
  ToSet(appending) \cup ToSet(flushing) \cup ToSet(readable)
    \cup (IF enactPc \in {"apply", "end"} THEN {enactRecord} ELSE {})

\* An overlay holds, for each key, exactly the change of the newest of the
\* given writes that touches the key, and nothing for a key none touches.
TracksNewest(ov, writes) ==
  \A k \in Keys :
    LET touching == {w \in writes : k \in DOMAIN w.changes} IN
    IF touching = {} THEN ov[k] = NoEntry
    ELSE LET w == CHOOSE w \in touching : \A x \in touching : x.id <= w.id
         IN ov[k] = [id |-> w.id, val |-> w.changes[k]]

\* The commit overlay neither loses the newest pending write of a key nor
\* keeps an entry after every commit touching the key has been logged
\* (commit_raw inserts, process_commits removes only its own id).  In a
\* ref-counted column a delete is no write of the overlay's (spec.md 4.2
\* step 5): an older pending value of the key stays visible past the
\* delete's own cleanup, which must not remove it, until its own cleanup.
OverlayWrite(c) ==
  [id |-> c.id,
   changes |-> Restrict(c.changes, {k \in DOMAIN c.changes :
                                     ~(RefCounted /\ c.changes[k] = None)})]
CommitOverlayTracksPending ==
  TracksNewest(overlay, {OverlayWrite(c) : c \in PendingCommits})

\* The log overlay holds the newest logged-but-unenacted write of each key
\* and nothing else (end_record inserts, end_read removes only its own id).
LogOverlayTracksUnenacted == TracksNewest(logOverlay, UnenactedRecords)

UnenactedBytes == MapThenSumSet(LAMBDA r : r.bytes, UnenactedRecords)

\* log_queue_wait.work counts the bytes of the records logged and not yet
\* enacted, less the record process_commits has written but not credited:
\* it may go below zero (enact_logs races process_commits) but never drifts.
LogQueueAccounting ==
  logQueue = UnenactedBytes - (IF logPc = "account" THEN logRecord.bytes ELSE 0)

\* Backpressure on the log: the log worker never lets more than
\* MAX_LOG_QUEUE_BYTES plus one record of unenacted log build up, although
\* its wait on log_queue_wait.cv is an `if`, not a loop, and enact_logs
\* notifies only when the queue crosses the bound.
LogBacklogBounded ==
  UnenactedBytes <= MAX_LOG_QUEUE_BYTES + 2 * Cardinality(Keys)

\* Read-your-writes (spec.md section 8): what DbInner::get returns, at every
\* moment, is the value the abstract store holds, and every step changes it
\* only by applying one whole committed changeset.
KV == INSTANCE KVStore WITH store <- [k \in Keys |-> ReadValue(k)], commits <- committed
ReadYourWrites == KV!Spec

\* Once clients stop committing, the pipeline drains: every commit is
\* logged, flushed and enacted, both overlays empty and the log queue
\* returns to zero (db.rs test check_empty_overlay for DbFile mode).
PipelineDrains ==
  <>[](/\ PendingCommits = {} /\ UnenactedRecords = {}
       /\ \A k \in Keys : overlay[k] = NoEntry /\ logOverlay[k] = NoEntry
       /\ logQueue = 0)
=============================================================================
