------------------------- MODULE MCDownloadManager -------------------------
(* Model-checking instances of DownloadManager. *)
EXTENDS DownloadManager, TLC

CONSTANTS p1, p2, p3, u1, u2, f1, f2

\* Two photos with their own raw URL and file name, and one without a raw URL.
PhotoUrl == (p1 :> u1) @@ (p2 :> u2) @@ (p3 :> NoUrl)
UrlFile == (u1 :> f1) @@ (u2 :> f2)

Symmetric == Permutations(Requests) \cup Permutations(Tasks)
============================================================================
