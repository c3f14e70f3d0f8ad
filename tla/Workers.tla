------------------------------ MODULE Workers ------------------------------
(***************************************************************************)
(* Coordination of the threads of src/src/db.rs: client threads in         *)
(* commit_raw, the four background workers (log, flush, commit, cleanup),  *)
(* their WaitCondvar signals, the two condition variables that carry       *)
(* backpressure (commit_queue_full_cv, log_queue_wait.cv), background      *)
(* errors (store_err) and the owner's Drop (shutdown, join, kill_logs).    *)
(*                                                                         *)
(* Data is abstracted to byte counts: a commit is its size, and the log    *)
(* record written for it has the same size.  Log files follow spec.md 4.5  *)
(* (Log::flush_one, modelled from the spec): the appending file is handed  *)
(* to flushing once it is larger than min_log_size, and a flushing file    *)
(* becomes readable at the next flush_one.                                 *)
(*                                                                         *)
(* A condition-variable wait is two steps: the check made under the mutex  *)
(* ("prewait") and the registration as a waiter ("waiting"); a notify      *)
(* issued without the mutex can fall between them and be lost.            *)
(***************************************************************************)
EXTENDS Naturals, Sequences, SequencesExt

CONSTANTS Clients,                 \* client threads calling commit
          CommitSizes,             \* byte sizes a commit may have
          MaxCommits,              \* bound: commit_raw calls in a behaviour
          MaxErrors,               \* bound: background I/O errors
          MAX_COMMIT_QUEUE_BYTES,
          MAX_LOG_QUEUE_BYTES,
          MinLogSize,              \* the flush worker's min_log_size
          OwnerDrops               \* the owner may drop the Db

ASSUME /\ CommitSizes \subseteq Nat \ {0}
       /\ MaxCommits \in Nat /\ MaxErrors \in Nat
       /\ {MAX_COMMIT_QUEUE_BYTES, MAX_LOG_QUEUE_BYTES, MinLogSize} \subseteq Nat
       \* db.rs: MIN_LOG_SIZE (64 MiB) < MAX_LOG_QUEUE_BYTES (128 MiB)
       /\ MinLogSize < MAX_LOG_QUEUE_BYTES
       /\ OwnerDrops \in BOOLEAN

VARIABLES
  clientPc,      \* client thread: idle, prewait, waiting, woken
  clientSize,    \* size of the commit a client is blocked with
  queue,         \* commit_queue.commits (sizes)
  queueBytes,    \* commit_queue.bytes
  committed,     \* commit_raw calls so far
  bgErr,         \* bg_err is Some
  errors,        \* background errors so far
  shutdown,      \* DbInner::shutdown
  logSignal, flushSignal, commitSignal, cleanupSignal,  \* WaitCondvar flags
  lwPc, lwMore, lwRec,   \* log worker: pc, more_work, record size
  logQueue,      \* log_queue_wait.work
  appending, flushing, readable,   \* log files (record sizes)
  fwPc, fwMore,          \* flush worker
  cwPc, cwMore, cwRec,   \* commit worker
  cuPc, cuMore,          \* cleanup worker
  ownerPc        \* the thread owning Db: open, then Drop's stages

clientVars == <<clientPc, clientSize, committed>>
queueVars == <<queue, queueBytes>>
errVars == <<bgErr, errors, shutdown>>
signalVars == <<logSignal, flushSignal, commitSignal, cleanupSignal>>
lwVars == <<lwPc, lwMore, lwRec>>
fileVars == <<appending, flushing, readable>>
fwVars == <<fwPc, fwMore>>
cwVars == <<cwPc, cwMore, cwRec>>
cuVars == <<cuPc, cuMore>>
vars == <<clientVars, queueVars, errVars, signalVars, lwVars, logQueue,
          fileVars, fwVars, cwVars, cuVars, ownerPc>>

SeqBytes(s) == FoldSeq(LAMBDA b, acc : b + acc, 0, s)

\* No client holds the commit queue mutex between its check and its wait.
QueueLockFree == \A c \in Clients : clientPc[c] # "prewait"

\* Condvar::notify_one on commit_queue_full_cv: one waiting client, if any,
\* is woken; a client not yet waiting misses it.
NotifyOneClient ==
  LET W == {c \in Clients : clientPc[c] = "waiting"} IN
  IF W = {} THEN UNCHANGED clientPc
  ELSE \E w \in W : clientPc' = [clientPc EXCEPT ![w] = "woken"]

\* The log worker's pc after log_queue_wait.cv.notify_all.
LwPcAfterNotify(pc) == IF pc = "cvwait" THEN "pop" ELSE pc

\* Mutant: shutdown does not signal the commit worker.
ShutdownEffectsNoCommitSignal(nextLwPc) ==
  /\ shutdown' = TRUE
  /\ lwPc' = LwPcAfterNotify(nextLwPc)
  /\ logSignal' = TRUE /\ flushSignal' = TRUE
  /\ cleanupSignal' = TRUE /\ UNCHANGED commitSignal

\* DbInner::shutdown: set the flag, notify log_queue_wait.cv, signal every
\* worker.  The caller gives the log worker's next pc.
ShutdownEffects(nextLwPc) ==
  /\ shutdown' = TRUE
  /\ lwPc' = LwPcAfterNotify(nextLwPc)
  /\ logSignal' = TRUE /\ flushSignal' = TRUE
  /\ commitSignal' = TRUE /\ cleanupSignal' = TRUE

\* DbInner::store_err for a worker whose body returned Err: the first error
\* is stored and shuts the database down; commit_queue_full_cv is notified
\* once.  nextLwPc is the log worker's pc once the failing step is done.
store_err(nextLwPc) ==
  /\ errors < MaxErrors
  /\ errors' = errors + 1
  /\ NotifyOneClient
  /\ IF bgErr
       THEN /\ lwPc' = nextLwPc
            /\ UNCHANGED <<bgErr, shutdown, signalVars>>
       ELSE /\ bgErr' = TRUE
            /\ ShutdownEffects(nextLwPc)

-----------------------------------------------------------------------------
(* Clients: DbInner::commit_raw.                                           *)

\* Mutant: the commit is queued but commit_queue.bytes is not increased.
AdmitWithoutBytes(c, size) ==
  /\ clientPc' = [clientPc EXCEPT ![c] = "idle"]
  /\ IF bgErr
       THEN UNCHANGED <<queueVars, logSignal>>
       ELSE /\ queue' = Append(queue, size)
            /\ logSignal' = TRUE
            /\ UNCHANGED queueBytes

\* Past the wait: fail with Background if a worker has failed, otherwise
\* queue the commit and signal the log worker.
Admit(c, size) ==
  /\ clientPc' = [clientPc EXCEPT ![c] = "idle"]
  /\ IF bgErr
       THEN UNCHANGED <<queueVars, logSignal>>
       ELSE /\ queue' = Append(queue, size)
            /\ queueBytes' = queueBytes + size
            /\ logSignal' = TRUE

\* Take the queue mutex; wait if the queue is over its bound, else go on.
commit_raw_start(c, size) ==
  /\ ownerPc = "open"
  /\ clientPc[c] = "idle"
  /\ committed < MaxCommits
  /\ QueueLockFree
  /\ committed' = committed + 1
  /\ IF queueBytes > MAX_COMMIT_QUEUE_BYTES
       THEN /\ clientPc' = [clientPc EXCEPT ![c] = "prewait"]
            /\ clientSize' = [clientSize EXCEPT ![c] = size]
            /\ UNCHANGED <<queueVars, logSignal>>
       ELSE /\ Admit(c, size)
            /\ UNCHANGED clientSize
  /\ UNCHANGED <<errVars, flushSignal, commitSignal, cleanupSignal, lwVars,
                 logQueue, fileVars, fwVars, cwVars, cuVars, ownerPc>>

\* commit_queue_full_cv.wait: register as a waiter, releasing the mutex.
commit_raw_wait(c) ==
  /\ clientPc[c] = "prewait"
  /\ clientPc' = [clientPc EXCEPT ![c] = "waiting"]
  /\ UNCHANGED <<clientSize, committed, queueVars, errVars, signalVars, lwVars,
                 logQueue, fileVars, fwVars, cwVars, cuVars, ownerPc>>

\* Woken: re-take the mutex and go on without checking the bound again.
commit_raw_resume(c) ==
  /\ clientPc[c] = "woken"
  /\ QueueLockFree
  /\ Admit(c, clientSize[c])
  /\ UNCHANGED <<clientSize, committed, errVars, flushSignal, commitSignal,
                 cleanupSignal, lwVars, logQueue, fileVars, fwVars, cwVars,
                 cuVars, ownerPc>>

-----------------------------------------------------------------------------
(* Log worker: Db::log_worker and DbInner::process_commits.  No column     *)
(* asks for a reindex here, so process_reindex returns false.              *)

\* Loop head: leave once shut down with no more work; with more_work go on,
\* otherwise block in WaitCondvar::wait until signalled.
log_worker_loop ==
  /\ lwPc = "top"
  /\ lwPc' = IF shutdown /\ ~lwMore THEN "exited"
             ELSE IF lwMore THEN "check" ELSE "wait"
  /\ UNCHANGED <<clientVars, queueVars, errVars, signalVars, lwMore, lwRec,
                 logQueue, fileVars, fwVars, cwVars, cuVars, ownerPc>>

\* WaitCondvar::wait returns once the flag is set, and clears it.
log_worker_wake ==
  /\ lwPc = "wait"
  /\ logSignal
  /\ logSignal' = FALSE
  /\ lwPc' = "check"
  /\ UNCHANGED <<clientVars, queueVars, errVars, flushSignal, commitSignal,
                 cleanupSignal, lwMore, lwRec, logQueue, fileVars, fwVars,
                 cwVars, cuVars, ownerPc>>

\* Under the log queue mutex: wait on its condvar if the database is not
\* shutting down and the log queue is over its bound.
process_commits_check ==
  /\ lwPc = "check"
  /\ lwPc' = IF ~shutdown /\ logQueue > MAX_LOG_QUEUE_BYTES THEN "prewait" ELSE "pop"
  /\ UNCHANGED <<clientVars, queueVars, errVars, signalVars, lwMore, lwRec,
                 logQueue, fileVars, fwVars, cwVars, cuVars, ownerPc>>

\* log_queue_wait.cv.wait: register as a waiter, releasing the mutex.
process_commits_wait ==
  /\ lwPc = "prewait"
  /\ lwPc' = "cvwait"
  /\ UNCHANGED <<clientVars, queueVars, errVars, signalVars, lwMore, lwRec,
                 logQueue, fileVars, fwVars, cwVars, cuVars, ownerPc>>

\* Mutant: popping never notifies a blocked client.
QueueCrossesNever(before, after) == FALSE

\* process_commits: the pop took commit_queue.bytes from above its bound to
\* at most its bound.
QueueCrosses(before, after) ==
  after <= MAX_COMMIT_QUEUE_BYTES /\ before > MAX_COMMIT_QUEUE_BYTES

\* Under the commit queue mutex pop a commit; crossing the queue bound from
\* above notifies one blocked client.  An empty queue ends the pass.
process_commits_pop ==
  /\ lwPc = "pop"
  /\ QueueLockFree
  /\ IF queue = <<>>
       THEN /\ lwPc' = "top"
            /\ lwMore' = FALSE
            /\ UNCHANGED <<clientPc, queueVars, lwRec>>
       ELSE LET b == Head(queue) IN
            /\ queue' = Tail(queue)
            /\ queueBytes' = queueBytes - b
            /\ IF QueueCrosses(queueBytes, queueBytes - b)
                 THEN NotifyOneClient
                 ELSE UNCHANGED clientPc
            /\ lwRec' = b
            /\ lwPc' = "write"
            /\ UNCHANGED lwMore
  /\ UNCHANGED <<clientSize, committed, errVars, signalVars, logQueue,
                 fileVars, fwVars, cwVars, cuVars, ownerPc>>

\* write_plan, complete_plan and Log::end_record append the record.
process_commits_write ==
  /\ lwPc = "write"
  /\ appending' = Append(appending, lwRec)
  /\ lwPc' = "account"
  /\ UNCHANGED <<clientVars, queueVars, errVars, signalVars, lwMore, lwRec,
                 logQueue, flushing, readable, fwVars, cwVars, cuVars, ownerPc>>

\* An I/O error in write_plan or end_record: the popped commit is lost,
\* the worker returns Err and store_err runs.
process_commits_fail ==
  /\ lwPc = "write"
  /\ store_err("exited")
  /\ UNCHANGED <<clientSize, committed, queueVars, lwMore, lwRec, logQueue,
                 fileVars, fwVars, cwVars, cuVars, ownerPc>>

\* Credit the log queue, signal the flush worker, clean the overlay; the
\* loop goes on with more_work.
process_commits_account ==
  /\ lwPc = "account"
  /\ logQueue' = logQueue + lwRec
  /\ flushSignal' = TRUE
  /\ lwPc' = "top"
  /\ lwMore' = TRUE
  /\ UNCHANGED <<clientVars, queueVars, errVars, logSignal, commitSignal,
                 cleanupSignal, lwRec, fileVars, fwVars, cwVars, cuVars, ownerPc>>

-----------------------------------------------------------------------------
(* Flush worker: Db::flush_worker and DbInner::flush_logs.                 *)

\* Loop head: unlike the other workers it leaves as soon as shutdown is set,
\* whatever work is left.
flush_worker_loop ==
  /\ fwPc = "top"
  /\ fwPc' = IF shutdown THEN "exited" ELSE IF fwMore THEN "flush" ELSE "wait"
  /\ UNCHANGED <<clientVars, queueVars, errVars, signalVars, lwVars, logQueue,
                 fileVars, fwMore, cwVars, cuVars, ownerPc>>

flush_worker_wake ==
  /\ fwPc = "wait"
  /\ flushSignal
  /\ flushSignal' = FALSE
  /\ fwPc' = "flush"
  /\ UNCHANGED <<clientVars, queueVars, errVars, logSignal, commitSignal,
                 cleanupSignal, lwVars, logQueue, fileVars, fwMore, cwVars,
                 cuVars, ownerPc>>

\* Log::flush_one(min): the flushing file, synced, becomes readable; the
\* appending file is handed to flushing once it holds a record and at
\* least min bytes (spec.md 4.5: no file smaller than min_log_size is closed).
RotatesAt(min) == appending # <<>> /\ SeqBytes(appending) >= min
FlushOne(min) ==
  /\ readable' = readable \o flushing
  /\ flushing' = IF RotatesAt(min) THEN appending ELSE <<>>
  /\ appending' = IF RotatesAt(min) THEN <<>> ELSE appending

\* flush_logs: signal the commit worker if a record became readable; more
\* work if a file is left to flush.
flush_logs ==
  /\ fwPc = "flush"
  /\ FlushOne(MinLogSize)
  /\ commitSignal' = (commitSignal \/ flushing # <<>>)
  /\ fwMore' = RotatesAt(MinLogSize)
  /\ fwPc' = "top"
  /\ UNCHANGED <<clientVars, queueVars, errVars, logSignal, flushSignal,
                 cleanupSignal, lwVars, logQueue, cwVars, cuVars, ownerPc>>

\* An fsync error in flush_one.
flush_logs_fail ==
  /\ fwPc = "flush"
  /\ store_err(lwPc)
  /\ fwPc' = "exited"
  /\ UNCHANGED <<clientSize, committed, queueVars, lwMore, lwRec, logQueue,
                 fileVars, fwMore, cwVars, cuVars, ownerPc>>

-----------------------------------------------------------------------------
(* Commit worker: Db::commit_worker and DbInner::enact_logs(false).        *)

commit_worker_loop ==
  /\ cwPc = "top"
  /\ cwPc' = IF shutdown /\ ~cwMore THEN "exited"
             ELSE IF cwMore THEN "enact" ELSE "wait"
  /\ UNCHANGED <<clientVars, queueVars, errVars, signalVars, lwVars, logQueue,
                 fileVars, fwVars, cwMore, cwRec, cuVars, ownerPc>>

commit_worker_wake ==
  /\ cwPc = "wait"
  /\ commitSignal
  /\ commitSignal' = FALSE
  /\ cwPc' = "enact"
  /\ UNCHANGED <<clientVars, queueVars, errVars, logSignal, flushSignal,
                 cleanupSignal, lwVars, logQueue, fileVars, fwVars, cwMore,
                 cwRec, cuVars, ownerPc>>

\* Log::read_next and enact_plan of every action of the record; no record
\* to read ends the pass.
enact_logs_read ==
  /\ cwPc = "enact"
  /\ IF readable = <<>>
       THEN /\ cwMore' = FALSE
            /\ cwPc' = "top"
            /\ UNCHANGED <<readable, cwRec>>
       ELSE /\ cwRec' = Head(readable)
            /\ readable' = Tail(readable)
            /\ cwPc' = "end"
            /\ UNCHANGED cwMore
  /\ UNCHANGED <<clientVars, queueVars, errVars, signalVars, lwVars, logQueue,
                 appending, flushing, fwVars, cuVars, ownerPc>>

\* An I/O error or a corrupt record while enacting.
enact_logs_fail ==
  /\ cwPc = "enact"
  /\ readable # <<>>
  /\ store_err(lwPc)
  /\ cwPc' = "exited"
  /\ UNCHANGED <<clientSize, committed, queueVars, lwMore, lwRec, logQueue,
                 fileVars, fwVars, cwMore, cwRec, cuVars, ownerPc>>

\* Mutant: enact_logs never wakes the log worker.
LogQueueCrossesNever(q, bytes) == FALSE

\* enact_logs: the debit took the log queue from above its bound to at
\* most its bound.
LogQueueCrosses(q, bytes) ==
  q <= MAX_LOG_QUEUE_BYTES /\ q + bytes > MAX_LOG_QUEUE_BYTES

\* Debit the log queue under its mutex (not held by the log worker between
\* its check and its wait); crossing the bound from above notifies the log
\* worker (notify_all).
enact_logs_end ==
  LET q == logQueue - cwRec IN
  /\ cwPc = "end"
  /\ lwPc # "prewait"
  /\ logQueue' = q
  /\ lwPc' = IF LogQueueCrosses(q, cwRec)
             THEN LwPcAfterNotify(lwPc) ELSE lwPc
  /\ cwMore' = TRUE
  /\ cwPc' = "top"
  /\ UNCHANGED <<clientVars, queueVars, errVars, signalVars, lwMore, lwRec,
                 fileVars, fwVars, cwRec, cuVars, ownerPc>>

-----------------------------------------------------------------------------
(* Cleanup worker: Db::cleanup_worker.  The log files are not counted      *)
(* here, so cleanup_logs finds no dirty log and returns false.             *)

cleanup_worker_loop ==
  /\ cuPc = "top"
  /\ IF shutdown /\ ~cuMore THEN cuPc' = "exited" /\ UNCHANGED cuMore
     ELSE IF cuMore THEN cuMore' = FALSE /\ UNCHANGED cuPc
     ELSE cuPc' = "wait" /\ UNCHANGED cuMore
  /\ UNCHANGED <<clientVars, queueVars, errVars, signalVars, lwVars, logQueue,
                 fileVars, fwVars, cwVars, ownerPc>>

\* Signalled: cleanup_logs runs and finds nothing to clean.
cleanup_worker_wake ==
  /\ cuPc = "wait"
  /\ cleanupSignal
  /\ cleanupSignal' = FALSE
  /\ cuPc' = "top"
  /\ cuMore' = FALSE
  /\ UNCHANGED <<clientVars, queueVars, errVars, logSignal, flushSignal,
                 commitSignal, lwVars, logQueue, fileVars, fwVars, cwVars,
                 ownerPc>>

-----------------------------------------------------------------------------
(* The owner: Drop for Db in Standard mode.  Clients borrow the Db, so     *)
(* it is dropped only when no client is inside commit.                     *)

drop_shutdown ==
  /\ OwnerDrops
  /\ ownerPc = "open"
  /\ \A c \in Clients : clientPc[c] = "idle"
  /\ ShutdownEffects(lwPc)
  /\ ownerPc' = "joinLog"
  /\ UNCHANGED <<clientVars, queueVars, bgErr, errors, lwMore, lwRec,
                 logQueue, fileVars, fwVars, cwVars, cuVars>>

\* Join the workers in the order log, flush, commit, cleanup.
drop_join ==
  /\ \/ ownerPc = "joinLog" /\ lwPc = "exited" /\ ownerPc' = "joinFlush"
     \/ ownerPc = "joinFlush" /\ fwPc = "exited" /\ ownerPc' = "joinCommit"
     \/ ownerPc = "joinCommit" /\ cwPc = "exited" /\ ownerPc' = "joinCleanup"
     \/ ownerPc = "joinCleanup" /\ cuPc = "exited" /\ ownerPc' = "kill"
  /\ UNCHANGED <<clientVars, queueVars, errVars, signalVars, lwVars, logQueue,
                 fileVars, fwVars, cwVars, cuVars>>

\* The phases of kill_logs, on the log and the queue as a record: the
\* files ap (appending), fl (flushing), rd (readable), the commit queue q
\* and the log queue account lq.
\* while enact_logs(false) {}: every readable record, debited.
EnactAll(k) == [k EXCEPT !.rd = <<>>, !.lq = @ - SeqBytes(k.rd)]
\* flush_logs(0): Log::flush_one(0).
FlushAll(k) ==
  [k EXCEPT !.rd = @ \o k.fl,
            !.fl = k.ap,
            !.ap = <<>>]
\* A plausible bug: the drained commits are logged but never credited.
ProcessAllNoCredit(k) == [k EXCEPT !.ap = @ \o k.q, !.q = <<>>]

\* while process_commits() {}: every queued commit logged and credited.
ProcessAll(k) ==
  [k EXCEPT !.ap = @ \o k.q, !.q = <<>>, !.lq = @ + SeqBytes(k.q)]

\* kill_logs: enact, flush_logs(0), process, enact, flush_logs(0), enact.
KillLogsPhases(k) ==
  EnactAll(FlushAll(EnactAll(ProcessAll(FlushAll(EnactAll(k))))))

\* kill_logs, alone in the process now, runs its phases; clean_all_logs
\* and Log::kill_logs then remove the enacted files.
kill_logs ==
  LET k == KillLogsPhases([ap |-> appending, fl |-> flushing, rd |-> readable,
                           q |-> queue, lq |-> logQueue])
  IN
  /\ ownerPc = "kill"
  /\ appending' = k.ap /\ flushing' = k.fl /\ readable' = k.rd
  /\ queue' = k.q /\ queueBytes' = 0
  /\ logQueue' = k.lq
  /\ ownerPc' = "closed"
  /\ UNCHANGED <<clientVars, errVars, signalVars, lwVars, fwVars, cwVars, cuVars>>

\* A plausible bug: records enacted before the failure are not debited.
EnactSomeNoDebit(k, n) == [k EXCEPT !.rd = SubSeq(k.rd, n + 1, Len(k.rd))]

\* A loop of enact_logs(false) that fails on its (n+1)-th record: n records
\* enacted and debited; the failing one stays readable (as enact_logs_fail).
EnactSome(k, n) ==
  [k EXCEPT !.rd = SubSeq(k.rd, n + 1, Len(k.rd)),
            !.lq = @ - SeqBytes(SubSeq(k.rd, 1, n))]
\* A loop of process_commits that fails writing its (n+1)-th commit: n
\* commits logged and credited, the failing one popped and lost (as
\* process_commits_fail).
ProcessSome(k, n) ==
  [k EXCEPT !.ap = @ \o SubSeq(k.q, 1, n),
            !.q = SubSeq(k.q, n + 2, Len(k.q)),
            !.lq = @ + SeqBytes(SubSeq(k.q, 1, n))]

\* What kill_logs leaves when the `?` of one of its phases returns an error:
\* the phases before it done, that one stopped where it failed, none after.
\* A failing flush_logs(0) changes nothing (as flush_logs_fail).
KillLogsFailures(k) ==
  LET s1 == EnactAll(k)    s2 == FlushAll(s1)  s3 == ProcessAll(s2)
      s4 == EnactAll(s3)   s5 == FlushAll(s4)
  IN UNION {{EnactSome(e, n) : n \in 0..Len(e.rd) - 1} : e \in {k, s3, s5}}
       \cup {s1, s4}
       \cup {ProcessSome(s2, n) : n \in 0..Len(s2.q) - 1}

\* kill_logs returns Err from a phase (db.rs 658-665), and Drop only logs
\* a warning: the commits still queued are never logged.  The error is one
\* of the MaxErrors I/O errors; it does not go through store_err.
kill_logs_fail ==
  LET k == [ap |-> appending, fl |-> flushing, rd |-> readable,
            q |-> queue, lq |-> logQueue]
  IN
  /\ ownerPc = "kill"
  /\ errors < MaxErrors
  /\ \E f \in KillLogsFailures(k) :
       /\ appending' = f.ap /\ flushing' = f.fl /\ readable' = f.rd
       /\ queue' = f.q
       /\ queueBytes' = queueBytes - SeqBytes(queue) + SeqBytes(f.q)
       /\ logQueue' = f.lq
  /\ errors' = errors + 1
  /\ ownerPc' = "failed"
  /\ UNCHANGED <<clientVars, bgErr, shutdown, signalVars, lwVars, fwVars,
                 cwVars, cuVars>>

-----------------------------------------------------------------------------

Init ==
  /\ clientPc = [c \in Clients |-> "idle"]
  /\ clientSize = [c \in Clients |-> 0]
  /\ queue = <<>> /\ queueBytes = 0 /\ committed = 0
  /\ bgErr = FALSE /\ errors = 0 /\ shutdown = FALSE
  /\ logSignal = FALSE /\ flushSignal = FALSE
  /\ commitSignal = FALSE /\ cleanupSignal = FALSE
  /\ lwPc = "top" /\ lwMore = FALSE /\ lwRec = 0
  /\ logQueue = 0
  /\ appending = <<>> /\ flushing = <<>> /\ readable = <<>>
  /\ fwPc = "top" /\ fwMore = FALSE
  /\ cwPc = "top" /\ cwMore = FALSE /\ cwRec = 0
  /\ cuPc = "top" /\ cuMore = TRUE
  /\ ownerPc = "open"

LogWorker ==
  \/ log_worker_loop \/ log_worker_wake \/ process_commits_check
  \/ process_commits_wait \/ process_commits_pop \/ process_commits_write
  \/ process_commits_account
FlushWorker == flush_worker_loop \/ flush_worker_wake \/ flush_logs
CommitWorker ==
  commit_worker_loop \/ commit_worker_wake \/ enact_logs_read \/ enact_logs_end
CleanupWorker == cleanup_worker_loop \/ cleanup_worker_wake
Failures == process_commits_fail \/ flush_logs_fail \/ enact_logs_fail

Next ==
  \/ \E c \in Clients, size \in CommitSizes : commit_raw_start(c, size)
  \/ \E c \in Clients : commit_raw_wait(c) \/ commit_raw_resume(c)
  \/ LogWorker \/ FlushWorker \/ CommitWorker \/ CleanupWorker \/ Failures
  \/ drop_shutdown \/ drop_join \/ kill_logs \/ kill_logs_fail

\* Every thread runs when it is not blocked: the workers, a client inside
\* commit_raw, and the owner once Drop has begun.  Starting a commit,
\* dropping the database and failing are not forced.
Fairness ==
  /\ WF_vars(LogWorker) /\ WF_vars(FlushWorker)
  /\ WF_vars(CommitWorker) /\ WF_vars(CleanupWorker)
  /\ \A c \in Clients : WF_vars(commit_raw_wait(c)) /\ WF_vars(commit_raw_resume(c))
  /\ WF_vars(drop_join) /\ WF_vars(kill_logs)

Spec == Init /\ [][Next]_vars /\ Fairness

-----------------------------------------------------------------------------
(* Properties                                                              *)

\* Every variable holds a value of its type; commit_queue.bytes (a usize)
\* never goes below zero.  log_queue_wait.work is an i64 and may.
TypeOK ==
  /\ clientPc \in [Clients -> {"idle", "prewait", "waiting", "woken"}]
  /\ clientSize \in [Clients -> CommitSizes \cup {0}]
  /\ queue \in Seq(CommitSizes) /\ queueBytes \in Nat
  /\ committed \in 0..MaxCommits /\ errors \in 0..MaxErrors
  /\ {bgErr, shutdown, logSignal, flushSignal, commitSignal, cleanupSignal,
      lwMore, fwMore, cwMore, cuMore} \subseteq BOOLEAN
  /\ lwPc \in {"top", "wait", "check", "prewait", "cvwait", "pop", "write",
               "account", "exited"}
  /\ fwPc \in {"top", "wait", "flush", "exited"}
  /\ cwPc \in {"top", "wait", "enact", "end", "exited"}
  /\ cuPc \in {"top", "wait", "exited"}
  /\ ownerPc \in {"open", "joinLog", "joinFlush", "joinCommit", "joinCleanup",
                  "kill", "closed", "failed"}
  /\ lwRec \in Nat /\ cwRec \in Nat /\ logQueue \in Int
  /\ appending \in Seq(CommitSizes) /\ flushing \in Seq(CommitSizes)
  /\ readable \in Seq(CommitSizes)

\* A client that calls commit eventually returns from it (spec.md 4.2 and
\* section 8: a blocked commit waits until the log worker drains the queue
\* below its bound, or fails with Background after a worker error).
ClientCommitReturns ==
  \A c \in Clients : (clientPc[c] # "idle") ~> (clientPc[c] = "idle")

\* Until the database is dropped, a log worker blocked in process_commits
\* on a full log queue is eventually woken: the commit worker, enacting
\* what the flush worker made readable, takes the log queue back to its
\* bound and notifies log_queue_wait.cv.
LogWorkerResumes ==
  (lwPc = "cvwait" /\ ~shutdown) ~> (lwPc # "cvwait" \/ shutdown)

\* Dropping the database terminates: every worker leaves its loop, Drop
\* joins the four threads and kill_logs runs (spec.md 4.9, "Shutdown").
ShutdownCompletes ==
  (ownerPc = "joinLog") ~> (ownerPc \in {"closed", "failed"})

\* log_queue_wait.work counts the bytes logged and not yet enacted
\* (spec.md 4.4 step 6 and 4.6): the log worker credits a record after
\* writing it, the commit worker debits it after reading it, kill_logs
\* does both for what it drains, and a failed write, flush or enact leaves
\* the account as it leaves the files.  So the account equals the bytes in
\* the three log files, less a record written and not yet credited, plus a
\* record read and not yet debited; enact_logs' "log underflow" warning
\* (db.rs:574) never fires from this.
LogQueueMatchesUnenacted ==
  logQueue = SeqBytes(appending) + SeqBytes(flushing) + SeqBytes(readable)
             - (IF lwPc = "account" THEN lwRec ELSE 0)
             + (IF cwPc = "end" THEN cwRec ELSE 0)

\* The commit queue as CommitQueue describes it: clients and the log
\* worker's pops, with the log worker reduced to popping.  While the Db is
\* open, the whole system implements that specification, fairness
\* included: however the log worker blocks on the log queue, behind the
\* flush and commit workers, a queued commit is eventually popped.
CQ == INSTANCE CommitQueue WITH logWorkerUp <- TRUE
ImplementsCommitQueue == CQ!Spec
=============================================================================
