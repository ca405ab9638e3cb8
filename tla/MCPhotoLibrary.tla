--------------------------- MODULE MCPhotoLibrary ---------------------------
(* Model-checking instances of PhotoLibrary. *)
EXTENDS PhotoLibrary, TLC

CONSTANTS p1, u1, f1

\* One photo with its raw URL and file; any other is without a raw URL.
OneUrl == [p \in Photos |-> IF p = p1 THEN u1 ELSE NoUrl]
OneFile == (u1 :> f1)

Symmetric == Permutations(Requests) \cup Permutations(Tasks)
=============================================================================
