\* Commits and reindex records with DropTable interleaved with enact.
CONSTANTS
  MaxCommits = 3
  MaxReindexRecords = 2
  DropTableAllowed = TRUE
SPECIFICATION Spec
INVARIANTS TypeOK LogQueueAccounting SweepBehindEnactUnlessOverwritten
\* The log worker waits for a commit once everything is enacted.
CHECK_DEADLOCK FALSE
