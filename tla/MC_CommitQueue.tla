--------------------------- MODULE MC_CommitQueue ---------------------------
(* Instantiates CommitQueue for TLC; the constants are given in the cfgs.  *)
EXTENDS CommitQueue
=============================================================================
