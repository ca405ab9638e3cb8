----------------------------- MODULE IndexSets -----------------------------
(***************************************************************************)
(* What the operations of realm::IndexSet (ObjectStore/src/index_set.cpp)  *)
(* promise, on plain sets of natural numbers.  A set stands for positions  *)
(* in a list: inserting at a position moves the later ones back, erasing   *)
(* one moves them forward, and an index is "shifted" by a set when the     *)
(* members of the set are inserted before it and "unshifted" when they are *)
(* taken out again.                                                        *)
(*                                                                         *)
(* The module has no state: IndexSet is checked against it, and the change *)
(* sets of CollectionChange are written with it.                           *)
(***************************************************************************)
EXTENDS Integers, FiniteSets

\* The members of S before index, and their number.
Before(S, index) == {x \in S : x < index}
CountBefore(S, index) == Cardinality(Before(S, index))

\* index once the members of S have been taken out of the list.
UnshiftIndex(S, index) == index - CountBefore(S, index)

\* index once the members of S have been inserted: the index-th position that
\* is not a member of S.
ShiftIndex(S, index) ==
    CHOOSE n \in index .. index + Cardinality(S) :
        n \notin S /\ UnshiftIndex(S, n) = index

\* The members at or after index move back by count, nothing is added.
ShiftForInsertAt(S, index, count) ==
    Before(S, index) \cup {x + count : x \in S \ Before(S, index)}

\* The same, and the inserted positions become members.
InsertAt(S, index, count) ==
    ShiftForInsertAt(S, index, count) \cup index .. index + count - 1

\* The position index is deleted: it leaves the set if it was in it, and the
\* members after it move forward.
EraseAt(S, index) == {UnshiftIndex({index}, x) : x \in S \ {index}}

\* The three operations above for a whole set of positions at a time.
ShiftForInsertAll(S, positions) == {ShiftIndex(positions, x) : x \in S}
InsertAll(S, positions) == positions \cup ShiftForInsertAll(S, positions)
EraseAll(S, positions) == {UnshiftIndex(positions, x) : x \in S \ positions}

\* index, given as a position of the list without the members of S, is added.
AddShifted(S, index) == S \cup {ShiftIndex(S, index)}

\* The same for a set of values, which are given as positions of a list that
\* the members of shiftedBy are still in; those members are left out.
AddShiftedBy(S, shiftedBy, values) ==
    S \cup {ShiftIndex(S, UnshiftIndex(shiftedBy, v)) : v \in values \ shiftedBy}
=============================================================================
