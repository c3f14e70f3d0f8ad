--------------------------- MODULE MC_Durability ---------------------------
(* Model-checking instance of Durability; the cfg gives the constants.      *)
EXTENDS Durability

\* Record ids 2..5: the first id of a fresh log (2), and enough for a gap,
\* a repeat and a run of three on a disk; a run before a crash writes up to
\* four records, so two files of two records can be dirty at a cleanup.
RecordIds == 2..5
=============================================================================
