\* A DropTable's start_reindex replaces a later commit's request.
CONSTANTS
  MaxCommits = 2
  MaxReindexRecords = 2
  DropTableAllowed = TRUE
SPECIFICATION Spec
INVARIANT SweepBehindEnact
CHECK_DEADLOCK FALSE
