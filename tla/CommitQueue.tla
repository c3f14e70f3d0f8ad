---------------------------- MODULE CommitQueue ----------------------------
(***************************************************************************)
(* The commit queue of src/src/db.rs and its backpressure: client threads  *)
(* in DbInner::commit_raw push commits and, while the queue holds more     *)
(* than MAX_COMMIT_QUEUE_BYTES, wait on commit_queue_full_cv; the log      *)
(* worker pops commits in process_commits and notifies one waiter when the *)
(* queue falls back to the bound; DbInner::store_err records a background  *)
(* error and notifies one waiter.                                          *)
(*                                                                         *)
(* The log worker is reduced to what the queue sees of it: it pops while   *)
(* it runs, and stops once it has failed (Db::log_worker returns the       *)
(* error).  A failure of another worker shuts the database down; the log   *)
(* worker then keeps popping until it finds the queue empty, which is all  *)
(* the queue needs of it, so such a worker stays running here.            *)
(* A commit is its size in bytes.                                          *)
(***************************************************************************)
EXTENDS Naturals, Sequences, SequencesExt

CONSTANTS Clients,                 \* client threads calling commit
          CommitSizes,             \* byte sizes a commit may have
          MaxCommits,              \* bound: commit_raw calls in a behaviour
          MaxErrors,               \* bound: background errors
          MAX_COMMIT_QUEUE_BYTES

ASSUME /\ CommitSizes \subseteq Nat \ {0}
       /\ {MaxCommits, MaxErrors, MAX_COMMIT_QUEUE_BYTES} \subseteq Nat

VARIABLES
  clientPc,      \* client thread: idle, prewait, waiting, woken
  clientSize,    \* size of the commit a client is blocked with
  queue,         \* commit_queue.commits (sizes)
  queueBytes,    \* commit_queue.bytes
  committed,     \* commit_raw calls so far
  bgErr,         \* bg_err is Some
  errors,        \* background errors so far
  logWorkerUp    \* the log worker has not failed

vars == <<clientPc, clientSize, queue, queueBytes, committed, bgErr, errors,
          logWorkerUp>>

\* No client holds the commit queue mutex between its check and its wait.
QueueLockFree == \A c \in Clients : clientPc[c] # "prewait"

\* Condvar::notify_one on commit_queue_full_cv: one waiting client, if any,
\* is woken; a client that has checked the bound but not yet waited misses it.
NotifyOneClient ==
  LET W == {c \in Clients : clientPc[c] = "waiting"} IN
  IF W = {} THEN UNCHANGED clientPc
  ELSE \E w \in W : clientPc' = [clientPc EXCEPT ![w] = "woken"]

\* Mutant: the commit is queued but commit_queue.bytes is not increased.
AdmitWithoutBytes(c, size) ==
  /\ clientPc' = [clientPc EXCEPT ![c] = "idle"]
  /\ IF bgErr
       THEN UNCHANGED <<queue, queueBytes>>
       ELSE /\ queue' = Append(queue, size)
            /\ UNCHANGED queueBytes

\* Past the wait: fail with Background if bg_err is set, otherwise queue the
\* commit.  Either way commit_raw returns.
Admit(c, size) ==
  /\ clientPc' = [clientPc EXCEPT ![c] = "idle"]
  /\ IF bgErr
       THEN UNCHANGED <<queue, queueBytes>>
       ELSE /\ queue' = Append(queue, size)
            /\ queueBytes' = queueBytes + size

Init ==
  /\ clientPc = [c \in Clients |-> "idle"]
  /\ clientSize = [c \in Clients |-> 0]
  /\ queue = <<>> /\ queueBytes = 0
  /\ committed = 0
  /\ bgErr = FALSE /\ errors = 0
  /\ logWorkerUp = TRUE

\* commit_raw's test `queue.bytes > MAX_COMMIT_QUEUE_BYTES`.
QueueFull(bytes) == bytes > MAX_COMMIT_QUEUE_BYTES

\* commit_raw: take the queue mutex; wait if the queue is over its bound.
commit_raw_start(c, size) ==
  /\ clientPc[c] = "idle"
  /\ committed < MaxCommits
  /\ QueueLockFree
  /\ committed' = committed + 1
  /\ IF QueueFull(queueBytes)
       THEN /\ clientPc' = [clientPc EXCEPT ![c] = "prewait"]
            /\ clientSize' = [clientSize EXCEPT ![c] = size]
            /\ UNCHANGED <<queue, queueBytes>>
       ELSE /\ Admit(c, size)
            /\ UNCHANGED clientSize
  /\ UNCHANGED <<bgErr, errors, logWorkerUp>>

\* commit_queue_full_cv.wait: register as a waiter, releasing the mutex.
commit_raw_wait(c) ==
  /\ clientPc[c] = "prewait"
  /\ clientPc' = [clientPc EXCEPT ![c] = "waiting"]
  /\ UNCHANGED <<clientSize, queue, queueBytes, committed, bgErr, errors,
                 logWorkerUp>>

\* Woken: re-take the mutex and go on; the bound is not checked again.
commit_raw_resume(c) ==
  /\ clientPc[c] = "woken"
  /\ QueueLockFree
  /\ Admit(c, clientSize[c])
  /\ UNCHANGED <<clientSize, committed, bgErr, errors, logWorkerUp>>

\* Mutant: notify on every pop, not only when the bound is crossed.
CrossesBoundAlways(before, after) == TRUE

\* Mutant: pop the oldest commit but subtract the newest one's size.
process_commits_pop_wrong_size ==
  /\ logWorkerUp
  /\ queue # <<>>
  /\ QueueLockFree
  /\ queue' = Tail(queue)
  /\ queueBytes' = queueBytes - queue[Len(queue)]
  /\ UNCHANGED <<clientPc, clientSize, committed, bgErr, errors, logWorkerUp>>

\* process_commits, under the queue mutex: pop the oldest commit and notify
\* one waiter if the queue went from above the bound to at most the bound.
CrossesBound(before, after) ==
  after <= MAX_COMMIT_QUEUE_BYTES /\ before > MAX_COMMIT_QUEUE_BYTES

process_commits_pop ==
  /\ logWorkerUp
  /\ queue # <<>>
  /\ QueueLockFree
  /\ queue' = Tail(queue)
  /\ queueBytes' = queueBytes - Head(queue)
  /\ IF CrossesBound(queueBytes, queueBytes')
       THEN NotifyOneClient ELSE UNCHANGED clientPc
  /\ UNCHANGED <<clientSize, committed, bgErr, errors, logWorkerUp>>

\* store_err: a worker's body returned Err.  bg_err keeps the first error;
\* notify_one is issued without the queue mutex, so a client between its
\* check and its wait misses it.  A failed log worker pops no more.
store_err ==
  /\ errors < MaxErrors
  /\ errors' = errors + 1
  /\ bgErr' = TRUE
  /\ NotifyOneClient
  /\ \E logWorkerFailed \in BOOLEAN :
       logWorkerUp' = (logWorkerUp /\ ~logWorkerFailed)
  /\ UNCHANGED <<clientSize, queue, queueBytes, committed>>

Next ==
  \/ \E c \in Clients, size \in CommitSizes : commit_raw_start(c, size)
  \/ \E c \in Clients : commit_raw_wait(c) \/ commit_raw_resume(c)
  \/ process_commits_pop
  \/ store_err

\* The log worker pops whenever the queue is not empty and it runs; a
\* client thread that can proceed past the mutex does so.
Fairness ==
  /\ WF_vars(process_commits_pop)
  /\ \A c \in Clients : WF_vars(commit_raw_wait(c)) /\ WF_vars(commit_raw_resume(c))

Spec == Init /\ [][Next]_vars /\ Fairness

-----------------------------------------------------------------------------
\* Every variable holds a value of its type; queueBytes never goes below
\* zero (commit_queue.bytes is a usize).
TypeOK ==
  /\ clientPc \in [Clients -> {"idle", "prewait", "waiting", "woken"}]
  /\ clientSize \in [Clients -> CommitSizes \cup {0}]
  /\ queue \in Seq(CommitSizes)
  /\ queueBytes \in Nat
  /\ committed \in 0..MaxCommits
  /\ {bgErr, logWorkerUp} \subseteq BOOLEAN
  /\ errors \in 0..MaxErrors

\* commit_queue.bytes is the sum of the queued commits' sizes, whatever the
\* order in which clients push and the log worker pops.
QueueBytesAccounting ==
  queueBytes = FoldSeq(LAMBDA b, acc : b + acc, 0, queue)

\* spec.md 4.2 and 8: a commit blocked on a full queue waits until space is
\* available or a background error is reported, so every commit_raw call
\* returns.
ClientCommitReturns == \A c \in Clients : clientPc[c] # "idle" ~> clientPc[c] = "idle"
=============================================================================
