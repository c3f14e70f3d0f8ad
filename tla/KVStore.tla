------------------------------ MODULE KVStore ------------------------------
(***************************************************************************)
(* What the database promises its clients (spec.md section 8,             *)
(* "Read-your-writes"): a map from keys to optional values in which a      *)
(* commit applies its whole changeset atomically, the last write to a key  *)
(* wins, and a delete (None) makes the key read as None.  Every read of    *)
(* the database returns the value this map holds.                          *)
(***************************************************************************)
EXTENDS Naturals

CONSTANTS Keys,        \* keys, already hashed by their column
          Val,         \* values a key can read as, None included
          None,        \* the value of a deleted or never written key
          Changesets   \* the changesets a client may commit

VARIABLES store,    \* the value every key reads as
          commits   \* the number of commits accepted so far

Init == store = [k \in Keys |-> None] /\ commits = 0

\* One commit: every key of the changeset takes its new value at once, and
\* nothing but a commit changes what a key reads as.
Put(cs) ==
  /\ store' = [k \in Keys |-> IF k \in DOMAIN cs THEN cs[k] ELSE store[k]]
  /\ commits' = commits + 1

Next == \E cs \in Changesets : Put(cs)

Spec == Init /\ [][Next]_<<store, commits>>
=============================================================================
