------------------------- MODULE MCImageDownloader -------------------------
(* Model-checking instances of ImageDownloader. *)
EXTENDS ImageDownloader, TLC

CONSTANTS r1, r2, x1

\* Two photos with a remote image and one with a local file, or with neither.
OneLocal == (r1 :> "remote") @@ (r2 :> "remote") @@ (x1 :> "local")
OneBare == (r1 :> "remote") @@ (r2 :> "remote") @@ (x1 :> "none")

Symmetric == Permutations(Cells) \cup Permutations(Tasks)
============================================================================
