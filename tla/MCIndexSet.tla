----------------------------- MODULE MCIndexSet -----------------------------
(* Model-checking instances of IndexSet. *)
EXTENDS IndexSet

\* The sets given as arguments: every set of the first indices.
SmallSets == SUBSET (0 .. 3)
=============================================================================
