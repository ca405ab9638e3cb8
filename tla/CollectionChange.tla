-------------------------- MODULE CollectionChange --------------------------
(***************************************************************************)
(* realm::_impl::CollectionChangeBuilder: what became of the rows of a     *)
(* collection, as the positions deleted from the old collection, the       *)
(* positions inserted and modified in the new one, and the moves among     *)
(* them (impl/collection_change_builder.cpp).  Positions count from 0.     *)
(*                                                                         *)
(* A change set is a record; its index sets are plain sets of naturals     *)
(* (module IndexSets, which IndexSet is checked against), moves is a       *)
(* sequence of from/to records, and mapping is m_move_mapping, the moves   *)
(* of a table while its log is parsed: a function from new to old rows.    *)
(* The columns vector, which every operation treats as it treats           *)
(* modifications, is left out.                                             *)
(***************************************************************************)
EXTENDS Integers, Sequences, SequencesExt, FiniteSets

CONSTANT Unknown    \* the size npos of a table: a number no collection reaches

Ix == INSTANCE IndexSets

NoChange == [deletions |-> {}, insertions |-> {}, modifications |-> {},
             moves |-> <<>>, mapping |-> <<>>]

IsEmpty(c) == c.deletions = {} /\ c.insertions = {} /\ c.modifications = {} /\ c.moves = <<>>

\* A function with another value, or with none.
With(f, x, v) == [y \in DOMAIN f \cup {x} |-> IF y = x THEN v ELSE f[y]]
Without(f, x) == [y \in DOMAIN f \ {x} |-> f[y]]

\* The members of seq at the positions that are not in gone, in their order.
LeaveOut(seq, gone) == [i \in 1 .. Len(seq) - Cardinality(gone) |-> seq[Ix!ShiftIndex(gone, i)]]

\* The moves with other ends.
Retargeted(moves, To(_)) == [m \in DOMAIN moves |-> [moves[m] EXCEPT !.to = To(@)]]

\* The row from takes the place of to, which is gone: the mark goes where the row goes.
Carried(col, from, to) == IF from \in col THEN (col \ {from}) \cup {to} ELSE col \ {to}

-----------------------------------------------------------------------------
(* Operations of any collection *)

modify(c, ndx) == [c EXCEPT !.modifications = @ \cup {ndx}]

insert(c, index, count, trackMoves) ==
    LET moved(ndx) == IF ndx >= index THEN ndx + count ELSE ndx
        shifted    == [c EXCEPT !.modifications = Ix!ShiftForInsertAt(@, index, count)]
    IN  IF ~trackMoves THEN shifted
        ELSE [shifted EXCEPT
                !.insertions = Ix!InsertAt(@, index, count),
                !.moves = Retargeted(@, moved),
                !.mapping = [n \in {moved(k) : k \in DOMAIN c.mapping} |->
                                c.mapping[IF n >= index THEN n - count ELSE n]]]

\* The new row index is gone: it was never inserted, or else it was one of
\* the old rows.
DeleteRow(c, index) ==
    [c EXCEPT !.insertions = Ix!EraseAt(@, index),
              !.deletions  = IF index \in c.insertions THEN @
                             ELSE Ix!AddShifted(@, Ix!UnshiftIndex(c.insertions, index))]

erase(c, index) ==
    LET left  == LeaveOut(c.moves, {i \in DOMAIN c.moves : c.moves[i].to = index})
        To(t) == Ix!UnshiftIndex({index}, t)
    IN  [DeleteRow(c, index) EXCEPT
            !.modifications = Ix!EraseAt(@, index),
            !.moves = Retargeted(left, To)]

\* Everything is deleted; a table's clear does not come with its size.
clear(c, size) ==
    LET oldSize == IF size = Unknown THEN Unknown
                   ELSE size + Cardinality(c.deletions) - Cardinality(c.insertions)
    IN  [NoChange EXCEPT !.deletions = 0 .. oldSize - 1]

-----------------------------------------------------------------------------
(* Merging *)

\* Mutant: the counts are not compared, only the positions.
clean_up_stale_moves_positions(c) ==
    LET Step(s, m) ==
            IF m.from # m.to THEN [s EXCEPT !.moves = Append(@, m)]
            ELSE [s EXCEPT !.deletions = @ \ {m.from}, !.insertions = @ \ {m.to}]
    IN  FoldLeft(Step, [c EXCEPT !.moves = <<>>], c.moves)

\* A move that the other changes make a no-op is dropped, with its deletion
\* and insertion;
DropStale(s, m) ==
    IF Ix!UnshiftIndex(s.deletions, m.from) # Ix!UnshiftIndex(s.insertions, m.to)
    THEN [s EXCEPT !.moves = Append(@, m)]
    ELSE [s EXCEPT !.deletions = @ \ {m.from}, !.insertions = @ \ {m.to}]

\* one after the other, as each changes the counts.
clean_up_stale_moves(c) ==
    LET after[n \in 0 .. Len(c.moves)] ==
            IF n = 0 THEN [c EXCEPT !.moves = <<>>] ELSE DropStale(after[n - 1], c.moves[n])
    IN  after[Len(c.moves)]

\* Mutant: does not look for a new move of the row.
FollowMoves_once(b, c) ==
    LET left == SelectSeq(b.moves, LAMBDA m : m.to \notin c.deletions)
    IN  [moves |-> [m \in DOMAIN left |-> [left[m] EXCEPT !.to =
                      Ix!ShiftIndex(c.insertions, Ix!UnshiftIndex(c.deletions, @))]],
         new   |-> c]

\* An old move follows its row through the new changes, is dropped when they
\* delete the row, and takes over a new move of it.
FollowMove(b, c, s, old) ==
    LET again == SelectInSeq(s.new.moves, LAMBDA m : m.from = old.to)
        m     == s.new.moves[again]
        rest  == Front([s.new.moves EXCEPT ![again] = Last(s.new.moves)])
    IN  IF again # 0
        THEN [moves |-> Append(s.moves, [old EXCEPT !.to = m.to]),
              new   |-> [s.new EXCEPT
                           !.moves = rest,
                           !.modifications =
                               IF m.from \in b.modifications THEN @ \cup {m.to} ELSE @]]
        ELSE IF old.to \in c.deletions THEN s
        ELSE [s EXCEPT !.moves = Append(@, [old EXCEPT !.to =
                  Ix!ShiftIndex(c.insertions, Ix!UnshiftIndex(c.deletions, @))])]

\* First part of merge: the old moves, one after the other.
FollowMoves(b, c) ==
    LET after[n \in 0 .. Len(b.moves)] ==
            IF n = 0 THEN [moves |-> <<>>, new |-> c] ELSE FollowMove(b, c, after[n - 1], b.moves[n])
    IN  after[Len(b.moves)]

\* Where a new move starts in the collection before both changes.
OldPosition(b, m) ==
    [m EXCEPT !.from = Ix!ShiftIndex(b.deletions, Ix!UnshiftIndex(b.insertions, @))]

\* Mutant: forgets that the modified row of an old change has moved.
StillModified_forgotten(b, moves) == {}

\* Where the rows modified by b that moves moves are now.
StillModified(b, moves) == {m.to : m \in {n \in ToSet(moves) : n.from \in b.modifications}}

merge(b, c) ==
    LET followed == FollowMoves(b, c)
        \* a row inserted by b that c moves is only inserted
        again    == followed.new.moves
        moves    == LeaveOut(again, {i \in DOMAIN again : again[i].from \in b.insertions})
        all      == clean_up_stale_moves(
                      [b EXCEPT !.moves = followed.moves
                                  \o [m \in DOMAIN moves |-> OldPosition(b, moves[m])],
                                !.deletions  = Ix!AddShiftedBy(@, b.insertions, c.deletions),
                                !.insertions = Ix!InsertAll(Ix!EraseAll(@, c.deletions),
                                                            c.insertions)])
    IN  IF IsEmpty(c) THEN b
        ELSE IF IsEmpty(b) THEN c
        ELSE [all EXCEPT !.modifications =
                Ix!ShiftForInsertAll(Ix!EraseAll(@, c.deletions), c.insertions)
                  \cup followed.new.modifications
                  \cup StillModified(b, moves)]

\* What the callback is given: the modified rows that are not new, by their
\* new and by their old positions.
finalize(c) ==
    [deletions         |-> c.deletions,
     insertions        |-> c.insertions,
     modifications     |-> Ix!ShiftForInsertAll(Ix!EraseAll(c.modifications, c.insertions),
                                                c.deletions),
     modifications_new |-> c.modifications \ c.insertions,
     moves             |-> c.moves]

-----------------------------------------------------------------------------
(* Operations of an ordered list *)

move(c, from, to) ==
    LET moved == \E m \in ToSet(c.moves) : m.to = from
        To(t) == IF t = from THEN to
                 ELSE IF to <= t /\ t < from THEN t + 1
                 ELSE IF from < t /\ t <= to THEN t - 1
                 ELSE t
        oldFrom == Ix!ShiftIndex(c.deletions, Ix!UnshiftIndex(c.insertions, from))
        others  == Retargeted(c.moves, To)
        left    == Ix!EraseAt(c.modifications, from)
        deleted == DeleteRow(c, from)
    IN  [(IF moved THEN [c EXCEPT !.insertions = Ix!EraseAt(@, from)] ELSE deleted) EXCEPT
            !.insertions    = Ix!InsertAt(@, to, 1),
            !.moves         = IF moved \/ from \in c.insertions THEN others
                              ELSE Append(others, [from |-> oldFrom, to |-> to]),
            !.modifications = IF from \in c.modifications THEN Ix!InsertAt(left, to, 1)
                              ELSE Ix!ShiftForInsertAt(left, to, 1)]

-----------------------------------------------------------------------------
(* Operations of the unordered rows of a table *)

\* The old row of the new row index is reported as deleted.
AddDeletion(c, index) ==
    [c EXCEPT !.deletions = Ix!AddShifted(@, Ix!UnshiftIndex(c.insertions, index))]

OldRow(c, index) == Ix!ShiftIndex(c.deletions, Ix!UnshiftIndex(c.insertions, index))

\* The last row is gone.
EraseLast(c, last, trackMoves) ==
    LET erased == [DeleteRow(c, last) EXCEPT !.mapping = Without(@, last)]
    IN  [(IF trackMoves THEN erased ELSE c) EXCEPT !.modifications = @ \ {last}]

\* The last row takes the place row: an earlier move of it goes on, a new row
\* is only not the last row any more, and any other row is now moved.
MoveLast(c, row, last) ==
    IF last \in DOMAIN c.mapping
    THEN [c EXCEPT !.insertions = @ \ {last},
                   !.mapping = With(Without(@, last), row, c.mapping[last])]
    ELSE IF last \in c.insertions
    THEN [c EXCEPT !.insertions = @ \ {last}, !.mapping = Without(@, row)]
    ELSE [AddDeletion([c EXCEPT !.mapping = Without(@, row)], last) EXCEPT
            !.mapping = With(@, row, OldRow(c, last))]

move_over(c, row, last, trackMoves) ==
    LET carried == [c EXCEPT !.modifications = Carried(@, last, row)]
        moved   == MoveLast(carried, row, last)
    IN  IF row = last THEN EraseLast(c, last, trackMoves)
        ELSE IF ~trackMoves THEN carried
        ELSE IF row \in c.insertions THEN moved
        ELSE [AddDeletion(moved, row) EXCEPT !.insertions = @ \cup {row}]

\* The new row a was some old row, which is now at b.
MovedTo(c, a, b) ==
    IF a \in c.insertions THEN c
    ELSE [AddDeletion(c, a) EXCEPT !.mapping = With(@, b, OldRow(c, a)),
                                   !.insertions = @ \cup {a}]

\* a and b change places, and b is a row that has moved before.
SwapWithMoved(c, a, b) ==
    MovedTo([c EXCEPT !.mapping = With(Without(@, b), a, c.mapping[b])], a, b)

swap(c, ndx_1, ndx_2, trackMoves) ==
    LET mods == c.modifications
        both == [c EXCEPT !.modifications =
                    {IF n = ndx_1 THEN ndx_2 ELSE IF n = ndx_2 THEN ndx_1 ELSE n : n \in mods}]
        have_1 == ndx_1 \in DOMAIN c.mapping
        have_2 == ndx_2 \in DOMAIN c.mapping
    IN  IF ~trackMoves THEN both
        ELSE IF have_1 /\ have_2
        THEN [both EXCEPT !.mapping = With(With(@, ndx_2, c.mapping[ndx_1]),
                                             ndx_1, c.mapping[ndx_2])]
        ELSE IF have_1 THEN SwapWithMoved(both, ndx_2, ndx_1)
        ELSE IF have_2 THEN SwapWithMoved(both, ndx_1, ndx_2)
        ELSE MovedTo(MovedTo(both, ndx_2, ndx_1), ndx_1, ndx_2)

\* The row old becomes the row new, which was just inserted.
subsume(c, old, new, trackMoves) ==
    LET both == [c EXCEPT !.modifications = IF old \in @ THEN @ \cup {new} ELSE @]
    IN  IF ~trackMoves THEN both
        ELSE IF old \in DOMAIN c.mapping
        THEN [both EXCEPT !.mapping = With(Without(@, old), new, c.mapping[old])]
        ELSE IF old \in c.insertions THEN both
        ELSE [both EXCEPT !.mapping = With(@, new, OldRow(c, old))]

\* Mutant: the moves are left in the order of the mapping, by their new rows.
ByOldRow_unsorted(moves) ==
    [i \in 1 .. Cardinality(moves) |->
        CHOOSE m \in moves : Ix!CountBefore({k.to : k \in moves}, m.to) = i - 1]

\* The moves, sorted by their old rows.
ByOldRow(moves) ==
    [i \in 1 .. Cardinality(moves) |->
        CHOOSE m \in moves : Ix!CountBefore({k.from : k \in moves}, m.from) = i - 1]

\* The end of the log: the moves, without those to the same place.
parse_complete(c) ==
    LET real  == {n \in DOMAIN c.mapping : c.mapping[n] # n}
        still == DOMAIN c.mapping \ real
    IN  [c EXCEPT !.moves = ByOldRow(ToSet(@) \cup {[from |-> c.mapping[n], to |-> n] : n \in real}),
                  !.deletions  = @ \ still,
                  !.insertions = @ \ still,
                  !.mapping    = <<>>]

-----------------------------------------------------------------------------
(* Looking rows up in the changes of a log *)

npos == -1

\* The first of the moves that starts at ndx or after it.  It is found by a
\* binary search: only moves sorted by their old rows are searched.
lower_bound(moves, ndx) == 1 + Cardinality({i \in DOMAIN moves : moves[i].from < ndx})

\* Mutant: a deleted row that was moved counts as deleted.
RowNow_deleted(c, ndx) ==
    IF ndx \in c.deletions THEN npos
    ELSE Ix!ShiftIndex(c.insertions, Ix!UnshiftIndex(c.deletions, ndx))

\* Where a row a query found before is now.
RowNow(c, ndx) ==
    LET it == lower_bound(c.moves, ndx)
    IN  IF ndx \notin c.deletions THEN Ix!ShiftIndex(c.insertions, Ix!UnshiftIndex(c.deletions, ndx))
        ELSE IF it \in DOMAIN c.moves /\ c.moves[it].from = ndx THEN c.moves[it].to
        ELSE npos
=============================================================================
