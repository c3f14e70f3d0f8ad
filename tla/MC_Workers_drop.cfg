\* Drop with background errors allowed, and a log queue bound no behaviour
\* reaches: every worker leaves its loop and kill_logs runs.
CONSTANTS
  Clients = {c1}
  CommitSizes = {1, 2}
  MaxCommits = 2
  MaxErrors = 1
  MAX_COMMIT_QUEUE_BYTES = 1
  MAX_LOG_QUEUE_BYTES <- LogQueueLarge
  MinLogSize = 2
  OwnerDrops = TRUE
SPECIFICATION Spec
INVARIANT LogQueueMatchesUnenacted
PROPERTY ShutdownCompletes
CHECK_DEADLOCK FALSE
