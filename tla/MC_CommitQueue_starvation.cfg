\* Two clients, no background error: commit_queue_full_cv is notified once
\* per crossing of the bound, and a woken client does not pass it on.
CONSTANTS
  Clients = {c1, c2}
  CommitSizes = {1, 2}
  MaxCommits = 3
  MaxErrors = 0
  MAX_COMMIT_QUEUE_BYTES = 1
SPECIFICATION Spec
PROPERTY ClientCommitReturns
CHECK_DEADLOCK FALSE
