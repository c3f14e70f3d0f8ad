----------------------------- MODULE MC_Reindex -----------------------------
(* Model-checking instance of Reindex; the cfgs give the constants.         *)
EXTENDS Reindex
=============================================================================
