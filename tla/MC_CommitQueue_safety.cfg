\* Three clients, commits of one or two bytes against a bound of one byte,
\* with and without a background error.
CONSTANTS
  Clients = {c1, c2, c3}
  CommitSizes = {1, 2}
  MaxCommits = 5
  MaxErrors = 1
  MAX_COMMIT_QUEUE_BYTES = 1
SPECIFICATION Spec
INVARIANT TypeOK QueueBytesAccounting
CHECK_DEADLOCK FALSE
