\* DbFile mode (min_log_size 0) with a ref-counted column: once clients
\* stop, the pipeline drains, deletes that skip the commit overlay included.
\* The workers then block on their signals, so the run stops by design.
CONSTANTS
  Keys = {k1, k2}
  Values = {v1}
  None = None
  MaxCommits = 3
  MAX_LOG_QUEUE_BYTES = 2
  MinLogSize <- MinLogSizeDbFile
  RefCounted = TRUE
SPECIFICATION Spec
PROPERTY PipelineDrains
CHECK_DEADLOCK FALSE
