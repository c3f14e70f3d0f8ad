------------------------------ MODULE Reindex ------------------------------
(***************************************************************************)
(* The reindex protocol of src/src/db.rs: the atomic next_reindex, written *)
(* by three parties, and last_enacted, which gates it.                     *)
(*   - The log worker's process_commits writes a commit's record and, when *)
(*     a column's write_plan returns NeedReindex, stores the record's id   *)
(*     (start_reindex).                                                    *)
(*   - The log worker's process_reindex loads next_reindex and, if it is   *)
(*     not 0 and not past last_enacted, asks the column for reindex work:  *)
(*     a batch, possibly with a DropTable, written as a record (and        *)
(*     re-armed on NeedReindex), or nothing, and then stores 0.            *)
(*   - The commit worker's enact_logs, on a DropTable action, stores the   *)
(*     record's id, then last_enacted, then debits the log queue.          *)
(*                                                                         *)
(* The column's reindex, write_plan and write_reindex_plan are outside the *)
(* sources; their outcomes are free choices (spec.md 4.4).  Records become *)
(* readable in the order written; when is left free, which covers any      *)
(* timing of the flush worker.  Each record counts one byte.               *)
(***************************************************************************)
EXTENDS Integers, Sequences, SequencesExt

CONSTANTS MaxCommits,        \* bound: commits clients make
          MaxReindexRecords, \* bound: reindex records process_reindex writes
          DropTableAllowed   \* whether a reindex record may carry DropTable

ASSUME /\ {MaxCommits, MaxReindexRecords} \subseteq Nat
       /\ DropTableAllowed \in BOOLEAN

VARIABLES
  queued,          \* commits in the commit queue
  committed,       \* commits made so far
  logSignal,       \* log_worker_wait.work
  lwPc,            \* log worker: where it is in its loop
  lwMore,          \* its more_work
  lwMoreCommits,   \* process_commits' result in this iteration
  lwNr,            \* the next_reindex value process_reindex loaded
  lwRec,           \* the record process_commits has written
  nextRecordId,    \* the log's next record id
  log,             \* records written and not yet through end_read
  logQueue,        \* log_queue_wait.work
  nextReindex,     \* DbInner::next_reindex
  lastEnacted,     \* DbInner::last_enacted
  cwPc,            \* commit worker: "top", or "end" after a DropTable
  reindexRecords,  \* reindex records written so far
  armedIds,        \* history: ids of records that returned NeedReindex
  dropArmed,       \* history: a DropTable stored next_reindex and no
                   \* column sweep has started since
  overwritten      \* history: next_reindex values a DropTable replaced

clientVars == <<queued, committed, logSignal>>
lwVars == <<lwPc, lwMore, lwMoreCommits, lwNr, lwRec>>
logVars == <<nextRecordId, log, logQueue>>
historyVars == <<armedIds, dropArmed, overwritten>>
vars == <<clientVars, lwVars, logVars, nextReindex, lastEnacted, cwPc,
          reindexRecords, historyVars>>

\* A log record: its id, whether it carries a DropTable action, and whether
\* writing it returned NeedReindex.
Record == [id : Nat, drop : BOOLEAN, needReindex : BOOLEAN]
NoRecord == [id |-> 0, drop |-> FALSE, needReindex |-> FALSE]

\* Log::end_record: the record is appended with the next id.
EndRecord(drop, need) ==
  /\ log' = Append(log, [id |-> nextRecordId, drop |-> drop, needReindex |-> need])
  /\ nextRecordId' = nextRecordId + 1

\* A plausible bug: the id of the record after the one just written.
ArmIdNext(rec) == rec.id + 1

\* start_reindex(writer.record_id()): the id of the record just written.
ArmId(rec) == rec.id

Init ==
  /\ queued = 0 /\ committed = 0 /\ logSignal = FALSE
  /\ lwPc = "rload"                \* log_worker runs process_reindex first
  /\ lwMore = FALSE /\ lwMoreCommits = FALSE
  /\ lwNr = 0 /\ lwRec = NoRecord
  /\ nextRecordId = 2 /\ log = <<>> /\ logQueue = 0
  /\ nextReindex = 1               \* DbInner::open
  /\ lastEnacted = 1               \* replay_record_id().unwrap_or(2) - 1
  /\ cwPc = "top"
  /\ reindexRecords = 0 /\ armedIds = {} /\ dropArmed = FALSE
  /\ overwritten = {}

-----------------------------------------------------------------------------
(* Clients and the log worker's process_commits.                           *)

\* commit_raw queues a commit and signals the log worker.
commit ==
  /\ committed < MaxCommits
  /\ queued' = queued + 1 /\ committed' = committed + 1
  /\ logSignal' = TRUE
  /\ UNCHANGED <<lwVars, logVars, nextReindex, lastEnacted, cwPc,
                 reindexRecords, historyVars>>

\* Loop head: go on with more_work, otherwise wait for the signal.
log_worker_loop ==
  /\ lwPc = "top"
  /\ lwMore \/ logSignal
  /\ logSignal' = (logSignal /\ lwMore)
  /\ lwPc' = "commit"
  /\ UNCHANGED <<queued, committed, lwMore, lwMoreCommits, lwNr, lwRec,
                 logVars, nextReindex, lastEnacted, cwPc, reindexRecords,
                 historyVars>>

\* Pop a commit, plan it (a column may answer NeedReindex) and end_record;
\* an empty queue makes process_commits return false.
process_commits_write ==
  /\ lwPc = "commit"
  /\ IF queued = 0
       THEN /\ lwMoreCommits' = FALSE /\ lwPc' = "rload"
            /\ UNCHANGED <<queued, lwRec, nextRecordId, log>>
       ELSE \E need \in BOOLEAN :
              /\ queued' = queued - 1
              /\ EndRecord(FALSE, need)
              /\ lwRec' = Last(log')
              /\ lwPc' = "credit"
              /\ UNCHANGED lwMoreCommits
  /\ UNCHANGED <<committed, logSignal, lwMore, lwNr, logQueue, nextReindex,
                 lastEnacted, cwPc, reindexRecords, historyVars>>

\* Credit the log queue under its mutex, clean the overlay, then
\* start_reindex if the plan asked for it; process_commits returns true.
process_commits_credit ==
  /\ lwPc = "credit"
  /\ logQueue' = logQueue + 1
  /\ IF lwRec.needReindex
       THEN /\ nextReindex' = ArmId(lwRec)
            /\ armedIds' = armedIds \cup {lwRec.id}
       ELSE UNCHANGED <<nextReindex, armedIds>>
  /\ lwMoreCommits' = TRUE /\ lwPc' = "rload"
  /\ UNCHANGED <<clientVars, lwMore, lwNr, lwRec, nextRecordId, log,
                 lastEnacted, cwPc, reindexRecords, dropArmed, overwritten>>

-----------------------------------------------------------------------------
(* The log worker's process_reindex.                                       *)

\* next_reindex.load
process_reindex_load ==
  /\ lwPc = "rload"
  /\ lwNr' = nextReindex
  /\ lwPc' = "rcheck"
  /\ UNCHANGED <<clientVars, lwMore, lwMoreCommits, lwRec, logVars,
                 nextReindex, lastEnacted, cwPc, reindexRecords, historyVars>>

\* A plausible bug: sweep without waiting for enact to catch up.
ReindexDueIgnoringEnact(nr, le) == nr # 0

\* `next_reindex == 0 || next_reindex > last_enacted` returns false.
ReindexDue(nr, le) == nr # 0 /\ nr <= le

\* last_enacted.load and the test; a false result ends the iteration.
process_reindex_check ==
  /\ lwPc = "rcheck"
  /\ IF ReindexDue(lwNr, lastEnacted)
       THEN /\ lwPc' = "rsweep" /\ UNCHANGED lwMore
       ELSE /\ lwPc' = "top" /\ lwMore' = lwMoreCommits
  /\ UNCHANGED <<clientVars, lwMoreCommits, lwNr, lwRec, logVars,
                 nextReindex, lastEnacted, cwPc, reindexRecords, historyVars>>

\* A plausible bug: the reindex record's bytes are not credited.
ReindexCreditMissing(q) == q

\* Under the log queue mutex, held across end_record, the bytes are added.
ReindexCredit(q) == q + 1

\* column.reindex: a batch to relocate (with a DropTable once the old index
\* is empty), written as one record, crediting the log queue under the
\* mutex and re-arming next_reindex on NeedReindex; process_reindex returns
\* true.  Or nothing, and next_reindex is cleared next.
process_reindex_sweep ==
  /\ lwPc = "rsweep"
  /\ dropArmed' = FALSE
  /\ \/ /\ reindexRecords < MaxReindexRecords
        /\ \E drop \in {FALSE, DropTableAllowed}, need \in BOOLEAN :
             /\ EndRecord(drop, need)
             /\ logQueue' = ReindexCredit(logQueue)
             /\ reindexRecords' = reindexRecords + 1
             /\ IF need
                  THEN /\ nextReindex' = ArmId(Last(log'))
                       /\ armedIds' = armedIds \cup {Last(log').id}
                  ELSE UNCHANGED <<nextReindex, armedIds>>
             /\ lwPc' = "top" /\ lwMore' = TRUE
     \/ /\ lwPc' = "rclear"
        /\ UNCHANGED <<nextRecordId, log, logQueue, reindexRecords,
                       nextReindex, armedIds, lwMore>>
  /\ UNCHANGED <<clientVars, lwMoreCommits, lwNr, lwRec, lastEnacted, cwPc,
                 overwritten>>

\* No column had work: next_reindex.store(0); process_reindex returns false.
process_reindex_clear ==
  /\ lwPc = "rclear"
  /\ nextReindex' = 0
  /\ lwPc' = "top" /\ lwMore' = lwMoreCommits
  /\ UNCHANGED <<clientVars, lwMoreCommits, lwNr, lwRec, logVars,
                 lastEnacted, cwPc, reindexRecords, historyVars>>

-----------------------------------------------------------------------------
(* The commit worker's enact_logs.                                         *)

\* A DropTable action: drop_index, then start_reindex(reader.record_id()).
enact_drop_table ==
  /\ cwPc = "top"
  /\ log # <<>> /\ Head(log).drop
  /\ nextReindex' = Head(log).id
  /\ overwritten' = overwritten \cup {nextReindex}
  /\ dropArmed' = TRUE
  /\ cwPc' = "end"
  /\ UNCHANGED <<clientVars, lwVars, logVars, lastEnacted, reindexRecords,
                 armedIds>>

\* The end of the record: last_enacted.store, Log::end_read, and the debit
\* of the log queue under its mutex.
enact_end ==
  /\ log # <<>>
  /\ cwPc = "end" \/ (cwPc = "top" /\ ~Head(log).drop)
  /\ lastEnacted' = Head(log).id
  /\ log' = Tail(log)
  /\ logQueue' = logQueue - 1
  /\ cwPc' = "top"
  /\ UNCHANGED <<clientVars, lwVars, nextRecordId, nextReindex,
                 reindexRecords, historyVars>>

Next ==
  \/ commit \/ log_worker_loop
  \/ process_commits_write \/ process_commits_credit
  \/ process_reindex_load \/ process_reindex_check
  \/ process_reindex_sweep \/ process_reindex_clear
  \/ enact_drop_table \/ enact_end

Spec == Init /\ [][Next]_vars

-----------------------------------------------------------------------------
\* Every variable holds a value of its type; next_reindex is 0 or the id of
\* a record already written (1, from DbInner::open, stands for the record
\* before the first).
TypeOK ==
  /\ {queued, committed, reindexRecords} \subseteq Nat
  /\ {logSignal, lwMore, lwMoreCommits, dropArmed} \subseteq BOOLEAN
  /\ overwritten \subseteq Nat
  /\ lwPc \in {"top", "commit", "credit", "rload", "rcheck", "rsweep", "rclear"}
  /\ cwPc \in {"top", "end"}
  /\ log \in Seq(Record) /\ lwRec \in Record \cup {NoRecord}
  /\ logQueue \in Int /\ lastEnacted \in Nat
  /\ nextReindex \in {0} \cup 1..(nextRecordId - 1)
  /\ armedIds \subseteq 2..(nextRecordId - 1)

\* The log queue counts the records written and not yet enacted, less the
\* commit record process_commits has written and not yet credited: reindex
\* records are credited in the same critical section as end_record
\* (db.rs:427-432), commit records only after it (db.rs:355-357).
LogQueueAccounting ==
  logQueue = Len(log) - (IF lwPc = "credit" THEN 1 ELSE 0)

\* spec.md 4.4, "must not run ahead of enact": when process_reindex asks the
\* columns for work, every record whose plan returned NeedReindex has been
\* enacted.
SweepBehindEnact ==
  lwPc = "rsweep" => \A id \in armedIds : id <= lastEnacted

\* spec.md 4.4: a DropTable sets next_reindex so that the columns are asked
\* again after the drop.  The request may be replaced, but not cleared to 0
\* before a column sweep has started after it.
DropRequestKept == dropArmed => nextReindex # 0

\* The gate at db.rs:399 orders every sweep after the enact of the records
\* that asked for it, except where a DropTable's start_reindex overwrote
\* the request: when process_reindex asks the columns for work, every
\* NeedReindex record is enacted, or a request at least as late as its own
\* (its own, or a later one that replaced it) was replaced by a DropTable.
SweepBehindEnactUnlessOverwritten ==
  lwPc = "rsweep" =>
    \A id \in armedIds :
      id <= lastEnacted \/ \E o \in overwritten : o >= id
=============================================================================
