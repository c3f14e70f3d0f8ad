\* Drop while the log queue is over its bound: the log worker can miss the
\* notify of DbInner::shutdown and never leave its wait.
CONSTANTS
  Clients = {c1}
  CommitSizes = {1, 2}
  MaxCommits = 3
  MaxErrors = 0
  MAX_COMMIT_QUEUE_BYTES = 1
  MAX_LOG_QUEUE_BYTES <- LogQueueSmall
  MinLogSize = 2
  OwnerDrops = TRUE
SPECIFICATION Spec
PROPERTY ShutdownCompletes
CHECK_DEADLOCK FALSE
