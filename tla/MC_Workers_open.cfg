\* One client, no background error, the Db kept open: two commits of two
\* bytes overfill the log queue and block the log worker, a third crosses
\* the commit queue bound.  The client stops after MaxCommits calls and the
\* workers then wait for signals that never come.
CONSTANTS
  Clients = {c1}
  CommitSizes = {1, 2}
  MaxCommits = 3
  MaxErrors = 0
  MAX_COMMIT_QUEUE_BYTES = 1
  MAX_LOG_QUEUE_BYTES <- LogQueueSmall
  MinLogSize = 2
  OwnerDrops = FALSE
SPECIFICATION Spec
INVARIANT TypeOK
PROPERTY ClientCommitReturns LogWorkerResumes ImplementsCommitQueue
CHECK_DEADLOCK FALSE
