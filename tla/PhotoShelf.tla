----------------------------- MODULE PhotoShelf -----------------------------
(***************************************************************************)
(* What the application promises about a user's photos, whatever happens   *)
(* to downloads, screens and the process: a favourite changes only when    *)
(* the user taps its heart, a photo is kept as downloaded only after the   *)
(* user asked for it, and nothing but a heart changes both ways.           *)
(***************************************************************************)
CONSTANT Photos

VARIABLES favourites, wanted, downloaded

vars == <<favourites, wanted, downloaded>>

Init == favourites = {} /\ wanted = {} /\ downloaded = {}

TapHeart(p) ==
    /\ favourites' = (favourites \ {p}) \cup ({p} \ favourites)
    /\ UNCHANGED <<wanted, downloaded>>

AskFor(p) ==
    /\ p \notin downloaded
    /\ wanted' = wanted \cup {p}
    /\ UNCHANGED <<favourites, downloaded>>

Keep(p) ==
    /\ p \in wanted
    /\ downloaded' = downloaded \cup {p}
    /\ UNCHANGED <<favourites, wanted>>

Next == \E p \in Photos : TapHeart(p) \/ AskFor(p) \/ Keep(p)

Spec == Init /\ [][Next]_vars
=============================================================================
