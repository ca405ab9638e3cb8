---------------------------- MODULE MCLogChanges ----------------------------
(* Model-checking instance of LogChanges. *)
EXTENDS LogChanges

CONSTANTS e1, e2, e3, e4, e5, e6

SixEntries == <<e1, e2, e3, e4, e5, e6>>
TwoLists == <<e1, e2>>
Lengths == [list |-> 3, table |-> 3]
Logs == [list |-> 3, table |-> 2]
Instructions == [list |-> 2, table |-> 3]
=============================================================================
