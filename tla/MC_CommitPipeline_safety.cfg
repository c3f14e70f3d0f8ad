\* Safety of the data path in Standard mode (records batch in the log file).
CONSTANTS
  Keys = {k1, k2}
  Values = {v1}
  None = None
  MaxCommits = 4
  MAX_LOG_QUEUE_BYTES = 2
  MinLogSize <- MinLogSizeStandard
  RefCounted = FALSE
SPECIFICATION Spec
INVARIANT TypeOK
INVARIANT CommitOverlayTracksPending
INVARIANT LogOverlayTracksUnenacted
INVARIANT LogQueueAccounting
INVARIANT LogBacklogBounded
PROPERTY ReadYourWrites
CHECK_DEADLOCK FALSE
