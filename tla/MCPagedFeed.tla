---------------------------- MODULE MCPagedFeed ----------------------------
(* Model-checking instances of PagedFeed. *)
EXTENDS PagedFeed, TLC

Symmetric == Permutations(Ops)
============================================================================
