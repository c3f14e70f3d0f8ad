------------------------- MODULE MC_CommitPipeline -------------------------
(* Model-checking instance of CommitPipeline: two keys, one value, four  *)
(* commits.  A changeset's log record is 1 to 4 bytes, so a bound of 2     *)
(* log-queue bytes is crossed in both directions.                          *)
EXTENDS CommitPipeline

\* DbFile mode: the flush worker rotates the log after every record.
MinLogSizeDbFile == 0
\* Standard mode scaled down: records wait in the appending file until it
\* holds 3 bytes.
MinLogSizeStandard == 3
=============================================================================
