\* process_reindex's store(0) races enact's DropTable start_reindex.
CONSTANTS
  MaxCommits = 1
  MaxReindexRecords = 2
  DropTableAllowed = TRUE
SPECIFICATION Spec
INVARIANT DropRequestKept
CHECK_DEADLOCK FALSE
