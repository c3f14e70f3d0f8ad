---------------------------- MODULE MC_Workers ----------------------------
(* Model-checking instance of Workers.  Commits of 1 or 2 bytes against    *)
(* bounds of 1 and 3 bytes make both queues cross their bounds.           *)
EXTENDS Workers

\* Bounds of the log queue: 3 bytes, so that two records can overfill it; or 8,
\* more than a behaviour ever logs, so that the log worker never waits.
LogQueueSmall == 3
LogQueueLarge == 8
=============================================================================
