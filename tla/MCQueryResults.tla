--------------------------- MODULE MCQueryResults ---------------------------
(* Model-checking instance of QueryResults; no definition tells the rows   *)
(* apart, so that they are interchangeable.                                *)
EXTENDS QueryResults

Symmetry == Permutations(Rows)
=============================================================================
