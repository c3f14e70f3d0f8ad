\* Every disk of up to three records in one or two replay files, and every
\* run of a fresh database writing four records with sync_data, flushing a
\* log as soon as it holds a record (min_log_size 0, as DbFile tests do),
\* cleaning up and crashing at any point.
CONSTANTS
  Ids <- RecordIds
  MaxRecords = 3
  SyncData = TRUE
  KEEP_LOGS = 16
  MinLogSize = 0
SPECIFICATION SystemSpec
INVARIANTS SystemTypeOK ReplayAppliesValidPrefix CrashKeepsSyncedPrefix
\* Replay ends: Db::open_inner then starts the workers (Reindex, Workers).
CHECK_DEADLOCK FALSE
