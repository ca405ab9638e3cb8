---------------------------- MODULE MCNotifiers ----------------------------
(* Model-checking instance of Notifiers. *)
EXTENDS Notifiers
============================================================================
