# TLA+ models of the axia-db commit pipeline

These modules model the concurrency of `src/src/db.rs`, the database core of
axia-db. It takes client commits, writes them to a write-ahead log and applies
them to the column tables, all in background threads. Each module names the
functions it models, and `PROJECT.json` maps every definition to its lines.

## The system

| Part | Code (db.rs) | State | Operations |
|---|---|---|---|
| Commit queue | `CommitQueue` 72-80, `commit_raw` 245-291 | `commits` (FIFO), `bytes`, `record_id`; `commit_queue_full_cv` | A client waits while `bytes > MAX_COMMIT_QUEUE_BYTES` (once: an `if`). It then checks `bg_err`, allocates an id, writes the overlay, pushes and signals the log worker. |
| Commit overlay | `commit_overlay` 114 | key -> (commit id, value) | Inserted by `commit_raw`. `process_commits` removes an entry only if its id is the commit's (362-373). |
| Log worker | `log_worker` 870-884, `process_commits` 293-391, `process_reindex` 397-445 | `more_work`, `log_queue_wait.work` (i64 bytes) | Waits (an `if`) while the log queue is over `MAX_LOG_QUEUE_BYTES`. Then it pops one commit, notifying one client on crossing the bound, writes a log record, credits the log queue, signals the flush worker and cleans the overlay. |
| Flush worker | `flush_worker` 886-896, `flush_logs` 598-607 | `more_work` | `Log::flush_one(min_log_size)`, then it signals the commit and cleanup workers. It leaves its loop on shutdown even with work left. |
| Commit worker | `commit_worker` 857-868, `enact_logs` 447-596 | `last_enacted` | Reads the next record and applies it to the tables. Then `Log::end_read`, the log queue debit, and `notify_all` on crossing the bound. |
| Cleanup worker | `cleanup_worker` 898-908, `cleanup_logs` 609-622 | dirty (enacted, not removed) log files | Counts the dirty logs; if there are more than `keep_logs` (0 with `sync_data`, else `KEEP_LOGS`), flushes every column when `sync_data`, then removes the counted number of oldest dirty logs. |
| Signals | `WaitCondvar` 124-158 | a boolean flag per worker | `signal` sets the flag; `wait` blocks until it is set and clears it. |
| Errors | `store_err` 700-710, `bg_err` | first error | Stores the error, shuts down and calls `notify_one` on `commit_queue_full_cv`. |
| Shutdown | `shutdown` 646-653, `Drop` 930-943, `kill_logs` 655-678 | `shutdown` flag | Drop sets the flag and notifies, joins log, flush, commit and cleanup in that order, then runs `kill_logs`. |
| Reindex | `start_reindex` 393-395, `process_reindex` 397-445, DropTable in `enact_logs` 545-550 | `next_reindex`, `last_enacted` (atomics) | Three writers store `next_reindex`: `process_commits` on NeedReindex, `process_reindex` (re-arm or 0), and `enact_logs` on DropTable. `process_reindex` sweeps only when `0 < next_reindex <= last_enacted`. |
| Reads | `get` 205-215 | | The commit overlay, then the log overlay, then the tables. |
| Open and replay | `DbInner::open` 161-203, `replay_all_logs` 633-644, `enact_logs(true)` 464-522 | `last_enacted` from the log | Validates and replays the log before the workers start. |

Interactions: each commit passes client → commit queue → log worker → log file →
flush worker → commit worker → tables. Two bounded queues carry backpressure
back up this chain. The commit queue stops clients; `log_queue_wait.work` stops
the log worker. A failure of any worker, or Drop, stops them all.

The `Log` façade and the columns (`log.rs`, `column.rs`) are not in the sources.
Their behaviour is taken from `spec.md` §4.5/4.6 and marked `spec_modelled`:
- an appending file is handed to flushing once it holds at least
  `min_log_size` bytes;
- a flushed file's records become readable;
- `end_read` drops a record's log-overlay entries that no later record
  has replaced.

## Modules

- **KVStore**: the abstract specification, what `get` promises (spec.md §8). It
  is a map from keys to values in which a commit applies a whole changeset at
  once. `commits` counts commits, so only a commit step may change a value.
- **CommitPipeline**: the data path while the database runs. It covers one
  column, keys and values as model values, and sizes of 1 per key or value.
  The constant `RefCounted` is the column's `ref_counted` flag. When it is
  set, `commit_raw` leaves deletes out of the commit overlay (db.rs:269).
  The column then counts references per key (`refs`): a write adds one, a
  delete removes one, and the value goes with the last (spec.md §8,
  spec-modelled). Actions:
  - `commit_raw`;
  - the log worker's `log_worker_wake` (the loop head plus the log-queue
    check), `process_commits_pop`, `_write`, `_account` and `_cleanup`;
  - `flush_logs`;
  - the commit worker's `enact_logs_read`, `_apply` and `_end`.

  It refines KVStore with `store <- [k |-> ReadValue(k)]`, where `ReadValue`
  is `DbInner::get`, and `commits <- committed`.
- **CommitQueue**: the commit queue's backpressure protocol. It has clients, the
  log worker's pop, and `store_err`. A condition-variable wait is two steps, the
  check under the mutex (`prewait`) and the registration (`waiting`), so a
  notify issued without the mutex can be lost between them.
- **Workers**: all threads together:
  - clients, and the four workers with their loop heads, `WaitCondvar` waits
    and `more_work` flags;
  - both condition variables, and failures at write, flush and enact with
    `store_err`;
  - the owner's Drop: `drop_shutdown`, the ordered joins in `drop_join`, and
    `kill_logs` as one step. That step composes the code's phases, each an
    operator on the files, the queue and the log-queue account: `EnactAll`,
    `FlushAll` (`flush_logs(0)`) and `ProcessAll`. `kill_logs_fail` is the
    `?` of a phase returning an error: the earlier phases are done, and the
    failing loop stops where it failed (`EnactSome`, `ProcessSome`). Drop
    then logs a warning (`ownerPc = "failed"`).

  Data is abstracted to byte counts. Log files are sequences of record sizes.

  Workers refines CommitQueue (`ImplementsCommitQueue`, `logWorkerUp <- TRUE`).
  CommitQueue reduces the log worker to its pops. Workers has the log worker's
  real stages and its wait on the log queue behind the flush and commit
  workers. The refinement includes CommitQueue's weak fairness on the pop, so
  it also shows that every queued commit is eventually popped. It is checked
  while the database is open: `kill_logs` empties the queue in one step,
  which CommitQueue has no action for.
- **Reindex**: the `next_reindex` protocol. The log worker's loop runs
  `process_commits` in two steps (`_write`: pop and `end_record`; `_credit`:
  credit, then `start_reindex` on NeedReindex) and `process_reindex` in four
  (`_load`, `_check`, `_sweep`, `_clear`). The commit worker's `enact_logs` is
  `enact_drop_table` (drop_index and `start_reindex`) and `enact_end`
  (`last_enacted`, end_read, debit). The columns' answers (NeedReindex, a
  batch, a DropTable, or nothing) are free choices, bounded by
  `MaxReindexRecords`. Records become readable in order at any time, which
  covers every timing of the flush worker. The log queue's bound is not
  modelled here (Workers has it).
- **Recovery**: `DbInner::open`'s `last_enacted = replay_record_id().unwrap_or(2) - 1`
  and `replay_all_logs`, which runs before any worker starts:
  - `replay_next` takes the next replay file;
  - each `enact_logs(true)` call is one of five actions: end of file, bad
    header (Corruption), sequence error, validation error, or apply;
  - the three failures call `clear_replay_logs`.

  Init is every disk a crash or corruption can leave within the bounds. A
  record is its id, whether its header reads, whether it validates, and
  whether it carries a DropTable. `ValidRun` (RECURSIVE) is the reference
  definition of what replay should apply.
- **Durability**: extends Recovery with the run before a crash. Actions:
  - `log_write` appends a record;
  - `flush_logs` syncs the flushing file and rotates the appending one;
  - `enact_logs` enacts the next readable record and turns a fully enacted
    file dirty;
  - `cleanup_logs_flush` counts the dirty logs and, with `sync_data`, flushes
    the columns; `cleanup_logs_clean` removes the counted logs;
  - `crash` ends the process or the power. The disk keeps the synced files
    that were not removed, and a prefix of the later records, possibly ending
    in a torn one. The columns keep their last flush and any records enacted
    since. The crash then runs `DbInner::open`'s `last_enacted` on that disk.

  Recovery's replay actions then run on the crash's disk. Recovery's Init,
  every corrupted disk, stays an initial state, so the one run covers both.

Each `MC_*` module extends its module and defines the constants that a cfg
substitutes.

## Runs

| Run | Expect | Checks | What it shows |
|---|---|---|---|
| cp_safety | pass | TypeOK, CommitOverlayTracksPending, LogOverlayTracksUnenacted, LogQueueAccounting, LogBacklogBounded, ReadYourWrites | Each overlay holds exactly the newest pending write per key. The i64 log-queue counter equals the unenacted bytes, minus a record written but not yet credited (it may go below 0, but never drifts). Every read returns what the abstract store holds. |
| cp_drain | pass | PipelineDrains | With a ref-counted column, whose deletes skip the commit overlay: once clients stop, all commits reach the tables and the overlays and log queue empty (DbFile mode, `min_log_size` 0). |
| cq_safety | pass | TypeOK, QueueBytesAccounting | `bytes` matches the queue, whatever the order of pushes and pops. |
| cq_starvation | violation | ClientCommitReturns | Two blocked clients and one `notify_one`: the second client never wakes. |
| cq_error_hang | violation | ClientCommitReturns | After the log worker has failed, a commit that finds the queue full waits before it checks `bg_err` and is never released. |
| workers_open | pass | TypeOK, ClientCommitReturns, LogWorkerResumes, ImplementsCommitQueue | With all workers running, a single client always returns, and a log worker blocked on a full log queue is always woken. The system implements CommitQueue, fairness included. |
| workers_drop | pass | LogQueueMatchesUnenacted, ShutdownCompletes | With errors possible and a log queue that never fills, Drop joins every worker and runs `kill_logs`, which may itself fail inside any phase. Drop returns either way. At every step, including after a failed write, flush, enact or `kill_logs` phase, `log_queue_wait.work` equals the bytes in the log files, less a record written but not yet credited, plus a record read but not yet debited. |
| reindex_safety | pass | TypeOK, LogQueueAccounting, SweepBehindEnactUnlessOverwritten | With commit and reindex records (some with DropTable) interleaved with enact, `next_reindex` always names a written record. The log queue counts both kinds of record, which are credited at different points (db.rs:357 after `end_record`, db.rs:432 under the same lock). A sweep runs ahead of a NeedReindex record only if a DropTable's `start_reindex` replaced a request at least as late as that record's. So the gate is sound except for that overwrite. |
| reindex_ahead | violation | SweepBehindEnact | A DropTable's `start_reindex` replaces a later commit's request, so a sweep runs ahead of enact. |
| reindex_request_lost | violation | DropRequestKept | `store(0)` after an empty sweep erases the request a DropTable has just stored. |
| recovery_replay | pass | SystemTypeOK, ReplayAppliesValidPrefix, CrashKeepsSyncedPrefix | Over every disk of up to three records in one or two files, replay applies a prefix of the valid run at every step, and all of it by the end. The valid run consists of the readable, valid records whose ids follow one another. Nothing after the first bad record is applied, even in a later file. After a crash of a run with `sync_data` and cleanup, the reopened database holds records 2..m with none missing, for an m at least the last synced record. Cleanup flushing the columns first, and removing only the logs it counted before that flush, is what makes this hold. |
| workers_shutdown_hang | violation | ShutdownCompletes | Drop hangs if the log worker is between its log-queue check and its wait when shutdown is signalled. |

Every property of a passing run has a mutant in `PROJECT.json`. A mutant is a
plausible bug in the code that the property catches, for example:
- an overlay cleanup that ignores ids;
- a log queue clamped at 0;
- a read that looks in the log overlay first;
- a pop that never notifies;
- a shutdown that forgets a signal.

## Findings

1. **Drop can hang.** `shutdown()` calls `log_queue_wait.cv.notify_all()`
   without the mutex (db.rs:648). The hang unfolds in this order:
   1. The log worker has already found the log queue full (db.rs:297), so it
      misses the notify and waits.
   2. The flush worker exits at once (db.rs:888).
   3. The commit worker exits at its loop head (db.rs:859).
   4. Nothing brings the log queue below its bound, so `Drop` blocks joining
      the log thread (db.rs:934).
2. **A blocked client can starve.** `notify_one` is issued only when the queue
   crosses its bound (db.rs:318), and a woken client does not re-check
   (db.rs:248 is an `if`). When two clients wait, the second may never be woken.
   spec.md §4.2 says a commit waits "until space is available".
3. **A commit can hang after a background error.** `commit_raw` waits on a
   full queue (db.rs:248-250) and checks `bg_err` only afterwards (db.rs:252).
   Once the log worker has failed (`store_err`, db.rs:700-710), nothing pops
   the queue or notifies again, so a commit that starts then and finds the
   queue full never returns. spec.md §3 says it should fail with Background.

4. **A reindex sweep can run ahead of enact.** `process_commits` stores
   `next_reindex = C` for a commit record that needs a reindex (db.rs:376).
   Then `enact_logs` enacts an earlier reindex record `R < C` that carries a
   DropTable and stores `next_reindex = R` (db.rs:549). Once `R` is enacted,
   the gate at db.rs:399 lets a sweep run while `C` is still unenacted.
   spec.md §4.4 says `process_reindex` "must not run ahead of enact".
5. **A DropTable's reindex request can be erased.** A reindex record without
   NeedReindex leaves `next_reindex` at or below `last_enacted`, so the next
   sweep runs before its DropTable is enacted (spec.md §5 guarantee 4 says
   the DropTable precedes it). If that sweep finds nothing, `store(0)`
   (db.rs:443) can land just after `enact_logs`' `start_reindex(R)`
   (db.rs:549), and no sweep sees the dropped index. Both reindex findings
   take the column's answers as free choices. Whether a real column gives
   them is outside the sources. What the core itself enforces is what these
   runs check.

## Bounds and why they suffice

- **Commit sizes.** Commits are 1 or 2 bytes against a commit queue bound of 1,
  so any commit can cross the bound, and a 2-byte commit crosses it alone.
- **Log queue in CommitPipeline.** The bound is 2 bytes against records of 1-4
  bytes, so the log worker blocks and both crossing directions occur.
- **Log queue in Workers.** `LogQueueSmall` is 3: two 2-byte records overfill
  it. `LogQueueLarge` is 8, above any total a run logs, so the log worker never
  blocks in runs about other things.
- **`min_log_size`.** In the safety run it is 3, so records batch in the
  appending file. In the drain run it is 0, as in DbFile mode.
- **Commit counts.** Three or four commits are enough for:
  - two commits to the same key to be pending at once (the overlay id check);
  - enact to overtake the log-queue credit (underflow);
  - a client to wait behind a crossing.
- **Reindex.** Two commits and two reindex records. The shortest overwrite
  (a DropTable record, then a NeedReindex commit, then enact) takes three
  records. The safety run uses three commits, so the log worker re-arms
  `next_reindex` while the gate is closed and a later request replaces an
  earlier one.
- **Replay.** Ids 2..5 and up to three records give every shape replay
  distinguishes: a clean run, a gap, a repeat, and a bad header or invalid
  record at each position, each either in the same file or after a file
  boundary (41,663 initial disks with ids 2..5). A run before a crash writes
  four records. With `min_log_size` 0 a flush rotates any nonempty file, so
  files hold one or more records. Cleanup meets up to four dirty logs, and
  logs turn dirty between its count and its removal.
- **Errors.** One background error (`MaxErrors` 1) reaches every failure point.
  Later errors only add `notify_one` calls.
- **Runs bound the environment.** `MaxCommits` bounds the clients. The open run
  keeps the database open (`OwnerDrops = FALSE`); Drop is checked in the drop
  run.

## Fairness

Every worker, and every client blocked inside `commit_raw`, is an OS thread
that runs whenever it is not blocked. Each gets weak fairness on its steps.
The owner's join and `kill_logs` also get weak fairness once Drop has begun.

Starting a commit, failing and dropping are not forced. The liveness
violations are therefore stuttering behaviours in which every runnable thread
has run and all remaining threads wait on a condition variable nobody will
signal.

`CHECK_DEADLOCK FALSE` is set in every run, because when clients stop
committing all workers block on their signals: that is the program's idle
state, not a deadlock.

## Not modelled

- **Reindex progress.** `enact_logs` does not signal the log worker when
  `last_enacted` reaches `next_reindex`, so an idle database does not resume
  a due reindex until the next commit. spec.md ties `process_reindex` to
  commit passes, so no liveness property is claimed.
- **Crashes in Durability** keep the unsynced records as a prefix in write
  order. A power loss that writes back a later log file but not an earlier
  one would leave a gap that replay cannot detect, because `last_enacted` is
  read from the first file on disk. Whether `log.rs` syncs files and their
  directory so that this cannot happen is not in the sources. Re-enacting a
  record the columns already hold is taken to be idempotent (column.rs). How
  the Log numbers records after a discarded tail is not modelled.
- **Reads of a ref-counted column** are not checked against KVStore. What the
  log overlay holds for a ref-counted delete, and what `Column::get` returns
  while references remain, are in log.rs and column.rs. spec.md §8 only says
  a delete must not mask the durable value. ReadYourWrites runs with a plain
  column.
- **Cleanup in Workers** returns false: the dirty-log count is modelled in
  Durability, where a crash makes it observable. `clean_all_logs` runs only
  inside `kill_logs`.
- **A failing kill_logs** is modelled (`kill_logs_fail`). It aborts the
  commits still queued, although spec.md §5 says they are "drained, not
  aborted". No violation run states this, because the project is at its
  limit of twelve runs. Failures of `clean_all_logs` and `Log::kill_logs`,
  after the phases, change nothing the models hold.
- **kill_logs leaves its last commits unenacted.** The comment at db.rs:657
  says `kill_logs` will "log and enact queued commits". But the commits that
  phase 660 logs reach only the flushing file: the last `flush_logs(0)` makes
  the earlier file readable and hands the new one to syncing, and the final
  enact never reads it. Whether `Log::kill_logs` keeps that file for replay
  is in `log.rs`, not in the sources. With all twelve runs in use, no run
  states the comment.
- **The commit queue exceeds its bound.** The comment at db.rs:71 says the
  queue "may not grow beyond `MAX_COMMIT_QUEUE_BYTES`". But `commit_raw`
  waits only when the queue is strictly over the bound, and only once
  (db.rs:248). Any commit admitted at or under the bound pushes the queue
  past it, by up to one commit per client. With all twelve runs in use, no
  run states the comment.
- **A failed log write** (db.rs:338) drops the popped commit in Workers
  (`process_commits_fail`), and `kill_logs` still logs the commits queued
  behind it. The records that reach the log are then not a prefix of the
  commits. No run states this, because spec.md 7 lets the first error shut
  the engine down without promising more.
- **Test-only pipeline stages.** `EnableCommitPipelineStages` and the tests'
  `wait_notify` and `check_empty_overlay` are not modelled; the models run the
  Standard and DbFile worker sets. DbFile's assertion that the overlay is empty
  right after the commit worker's signal can fail. In CommitPipeline,
  `flush_logs` may run between `process_commits_account` and
  `process_commits_cleanup` (db.rs:358 and 362-372). This is recorded as a
  hazard in `PROJECT.json`.
  The CommitOverlay and LogOverlay modes spawn no commit worker
  (db.rs:1016-1041), so nothing ever debits the log queue. In LogOverlay mode
  the log worker blocks for good once more than `MAX_LOG_QUEUE_BYTES` is
  logged. The tests stay far below 128 MiB. These modes exist only for tests
  and hold no state of their own, so no module models them.
- **Cleanup without `sync_data`** removes all but `KEEP_LOGS` enacted logs
  without flushing the columns (db.rs:610-618). The run checks `sync_data`
  only. With `SyncData = FALSE` and `KEEP_LOGS = 1`, Durability violates
  `CrashKeepsSyncedPrefix`. With 16 kept logs, a loss needs more than sixteen
  logs of column writes still unflushed at the crash. No run states this,
  because spec.md 4.8 makes the promise only for `sync_data`.
- **Pure I/O and delegation** are left out: stats, iteration, the check module,
  lock files and metadata.
