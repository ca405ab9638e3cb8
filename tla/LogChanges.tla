----------------------------- MODULE LogChanges -----------------------------
(***************************************************************************)
(* The changes of an observed collection as the object store collects      *)
(* them.  TransactLogObserver (impl/transact_log_handler.cpp) reads the    *)
(* log of a transaction and records each instruction in a change builder;  *)
(* at the end of the log the changes are merged into those of the earlier  *)
(* logs: by the notifier of a list, for a callback that has not been given *)
(* them yet, and by the coordinator (IncrementalChangeInfo in              *)
(* impl/realm_coordinator.cpp), for notifiers that start from different    *)
(* versions of a table.                                                    *)
(*                                                                         *)
(* The collection is a sequence of entries with an identity: the entries   *)
(* of a list, which can be put anywhere and moved, or the rows of a table, *)
(* which are appended and, when one is deleted, replaced by the last one;  *)
(* synchronization may also swap rows or merge two of them.  An entry      *)
(* keeps its identity when its value is replaced.  base is the collection  *)
(* before all logs, middle before the log being read, now as the log has   *)
(* left it so far.  accumulated explains base to middle and changes        *)
(* explains middle to now; the entries set on the way are in               *)
(* modifiedBefore and modified.  Moves are tracked in a list and in a      *)
(* table some query is about (trackMoves is m_need_move_info); of a table  *)
(* reached only by links the modified rows are.                            *)
(*                                                                         *)
(* lists are the observed lists of a table's rows: the row number the      *)
(* object store has for each, the row it really belongs to, and whether    *)
(* erase_rows has overlooked it.                                           *)
(***************************************************************************)
EXTENDS CollectionChange

CONSTANTS Entries,          \* identities of entries, a sequence in which they are used
          Observed,         \* the rows whose lists are observed, a sequence
          MaxLength,        \* bounds, of a "list" and of a "table": on the length,
          MaxLogs,          \* on the logs merged,
          MaxInstructions   \* and on the instructions of a log

VARIABLES collection, trackMoves, base, middle, now, accumulated, changes,
          modifiedBefore, modified, lists, logs, instructions

\* The identities suffice for a collection of the greatest length, and no
\* collection is of unknown length.
ASSUME CollectionsAssumption ==
    /\ Entries \in Seq(ToSet(Entries)) /\ IsInjective(Entries)
    /\ Observed \in Seq(ToSet(Entries))
    /\ Unknown \in Nat
    /\ \A kind \in {"list", "table"} :
         MaxLength[kind] \in 0 .. Len(Entries) /\ MaxLength[kind] < Unknown

vars == <<collection, trackMoves, base, middle, now, accumulated, changes,
          modifiedBefore, modified, lists, logs, instructions>>

Positions(entries) == 0 .. Len(entries) - 1
At(entries, ndx) == entries[ndx + 1]
IsList  == collection = "list"
IsTable == collection = "table"

Init ==
    /\ collection \in {"list", "table"}
    /\ trackMoves \in BOOLEAN /\ (IsList => trackMoves)
    /\ base \in {SubSeq(Entries, 1, n) : n \in 0 .. MaxLength[collection]}
    /\ IsTable => ToSet(Observed) \subseteq ToSet(base)
    /\ middle = base /\ now = base
    /\ accumulated = NoChange /\ changes = NoChange
    /\ modifiedBefore = {} /\ modified = {}
    /\ lists = IF IsList THEN <<>>
               ELSE [l \in DOMAIN Observed |->
                        [row |-> CHOOSE n \in Positions(base) : At(base, n) = Observed[l],
                         of  |-> Observed[l], overlooked |-> FALSE]]
    /\ logs = 0 /\ instructions = 0

Instruction ==
    /\ logs < MaxLogs[collection] /\ instructions < MaxInstructions[collection]
    /\ instructions' = instructions + 1
    /\ UNCHANGED <<collection, trackMoves, base, middle, accumulated, modifiedBefore, logs>>

ListInstruction  == IsList /\ Instruction /\ UNCHANGED lists
TableInstruction == IsTable /\ Instruction

\* The identities for new entries; it does not matter which of them an entry gets.
Unused == ToSet(Entries) \ (ToSet(base) \cup ToSet(middle) \cup ToSet(now))
NewEntries(count) == CHOOSE new \in [1 .. count -> Unused] : IsInjective(new)

-----------------------------------------------------------------------------
(* Instructions on a list *)

link_list_set(index) ==
    /\ ListInstruction
    /\ index \in Positions(now)
    /\ changes' = modify(changes, index)
    /\ modified' = modified \cup {At(now, index)}
    /\ UNCHANGED now

link_list_insert(index) ==
    /\ ListInstruction
    /\ index \in 0 .. Len(now)
    /\ Len(now) < MaxLength[collection]
    /\ Unused # {}
    /\ now' = InsertAt(now, index + 1, Head(NewEntries(1)))
    /\ changes' = insert(changes, index, 1, TRUE)
    /\ modified' = modified \ {Head(NewEntries(1))}

\* An entry is erased, by the app or because the row it links to is deleted
\* (link_list_nullify).
link_list_erase(index) ==
    /\ ListInstruction
    /\ index \in Positions(now)
    /\ now' = RemoveAt(now, index + 1)
    /\ changes' = erase(changes, index)
    /\ UNCHANGED modified

\* Two entries exchange their values: both entries stay, with another value.
link_list_swap(index1, index2) ==
    /\ ListInstruction
    /\ {index1, index2} \subseteq Positions(now)
    /\ changes' = modify(modify(changes, index1), index2)
    /\ modified' = modified \cup {At(now, index1), At(now, index2)}
    /\ UNCHANGED now

link_list_clear ==
    /\ ListInstruction
    /\ now' = <<>>
    /\ changes' = clear(changes, Len(now))
    /\ UNCHANGED modified

link_list_move(from, to) ==
    /\ ListInstruction
    /\ {from, to} \subseteq Positions(now) /\ from # to
    /\ now' = InsertAt(RemoveAt(now, from + 1), to + 1, At(now, from))
    /\ changes' = move(changes, from, to)
    /\ UNCHANGED modified

-----------------------------------------------------------------------------
(* Instructions on a table *)

mark_dirty(row) ==
    /\ TableInstruction
    /\ row \in Positions(now)
    /\ changes' = modify(changes, row)
    /\ modified' = modified \cup {At(now, row)}
    /\ UNCHANGED <<now, lists>>

insert_empty_rows(count) ==
    /\ TableInstruction
    /\ Len(now) + count <= MaxLength[collection] /\ count <= Cardinality(Unused)
    /\ now' = now \o NewEntries(count)
    /\ changes' = insert(changes, Len(now), count, trackMoves)
    /\ lists' = [l \in DOMAIN lists |->
                    [lists[l] EXCEPT !.row = IF @ >= Len(now) THEN @ + count ELSE @]]
    /\ modified' = modified \ ToSet(NewEntries(count))

\* The rows after the last one takes the place of row.
MovedOver(table, row) == SubSeq([table EXCEPT ![row + 1] = Last(table)], 1, Len(table) - 1)

\* The lists after row is erased.  A list of the row is replaced by the last one
\* there is, which is not looked at any more, so that the first one takes the
\* last list, the next one the last but one, until the two ends meet.
EraseListsOf(ls, row, last) ==
    LET Erased(i) == Cardinality({j \in 1 .. i : ls[j].row = row})
    IN  [i \in {k \in DOMAIN ls : k + Erased(k) <= Len(ls)} |->
            IF ls[i].row = row THEN [ls[Len(ls) + 1 - Erased(i)] EXCEPT !.overlooked = TRUE]
            ELSE IF ls[i].row = last THEN [ls[i] EXCEPT !.row = row]
            ELSE ls[i]]

\* erase_rows of an unordered table.
erase_rows(row) ==
    /\ TableInstruction
    /\ row \in Positions(now)
    /\ now' = MovedOver(now, row)
    /\ changes' = move_over(changes, row, Len(now) - 1, trackMoves)
    /\ lists' = EraseListsOf(lists, row, Len(now) - 1)
    /\ UNCHANGED modified

\* Mutant: the lists of the second row do not follow it.
swap_rows_lists(row_1, row_2) ==
    /\ TableInstruction
    /\ {row_1, row_2} \subseteq Positions(now) /\ row_1 < row_2
    /\ now' = [now EXCEPT ![row_1 + 1] = At(now, row_2), ![row_2 + 1] = At(now, row_1)]
    /\ changes' = swap(changes, row_1, row_2, trackMoves)
    /\ lists' = [l \in DOMAIN lists |->
                    [lists[l] EXCEPT !.row = IF @ = row_1 THEN row_2 ELSE @]]
    /\ UNCHANGED modified

swap_rows(row_1, row_2) ==
    /\ TableInstruction
    /\ {row_1, row_2} \subseteq Positions(now) /\ row_1 < row_2
    /\ now' = [now EXCEPT ![row_1 + 1] = At(now, row_2), ![row_2 + 1] = At(now, row_1)]
    /\ changes' = swap(changes, row_1, row_2, trackMoves)
    /\ lists' = [l \in DOMAIN lists |->
                    [lists[l] EXCEPT !.row = IF @ = row_1 THEN row_2
                                             ELSE IF @ = row_2 THEN row_1 ELSE @]]
    /\ UNCHANGED modified

\* merge_rows and the erase_rows that follows it: the row from, which has just
\* been found to be the same object as the new row to, becomes that row.
merge_rows(from, to) ==
    LET merged == subsume(changes, from, to, trackMoves)
        moved  == [l \in DOMAIN lists |-> [lists[l] EXCEPT !.row = IF @ = from THEN to ELSE @]]
    IN  /\ TableInstruction
        /\ {from, to} \subseteq Positions(now) /\ from # to
        /\ At(now, to) \notin ToSet(middle)
        /\ now' = MovedOver([now EXCEPT ![to + 1] = At(now, from)], from)
        /\ changes' = move_over(merged, from, Len(now) - 1, trackMoves)
        /\ lists' = EraseListsOf(moved, from, Len(now) - 1)
        /\ modified' = IF At(now, to) \in modified THEN modified \cup {At(now, from)} ELSE modified

\* The instruction does not say how many rows there were.
clear_table ==
    /\ TableInstruction
    /\ now' = <<>>
    /\ changes' = clear(changes, Unknown)
    /\ lists' = <<>>
    /\ UNCHANGED modified

-----------------------------------------------------------------------------
\* The end of a log: its changes are completed, in a way of their own for a
\* list and for a table,
Completed == IF IsList THEN clean_up_stale_moves(changes) ELSE parse_complete(changes)

\* and merged with those of the earlier logs.
parse_complete_log ==
    /\ instructions > 0
    /\ accumulated' = merge(accumulated, Completed)
    /\ changes' = NoChange
    /\ middle' = now
    /\ modifiedBefore' = modifiedBefore \cup modified
    /\ modified' = {}
    /\ logs' = logs + 1 /\ instructions' = 0
    /\ UNCHANGED <<collection, trackMoves, base, now, lists>>

Ndx == 0 .. MaxLength[collection]

Next ==
    \/ \E index, other \in Ndx :
         \/ link_list_set(index) \/ link_list_erase(index)
         \/ link_list_swap(index, other) \/ link_list_move(index, other)
         \/ link_list_insert(index)
         \/ mark_dirty(index) \/ erase_rows(index)
         \/ swap_rows(index, other) \/ merge_rows(index, other)
    \/ link_list_clear
    \/ \E count \in 1 .. 2 : insert_empty_rows(count)
    \/ clear_table
    \/ parse_complete_log

Spec == Init /\ [][Next]_vars

-----------------------------------------------------------------------------
(* Properties *)

IsChangeSet(c) ==
    /\ c.deletions \cup c.insertions \cup c.modifications \subseteq Nat
    /\ \A m \in ToSet(c.moves) : m.from \in Nat /\ m.to \in Nat
    /\ DOMAIN c.mapping \subseteq Nat /\ \A n \in DOMAIN c.mapping : c.mapping[n] \in Nat

TypeOK ==
    /\ \A entries \in {base, middle, now} : ToSet(entries) \subseteq ToSet(Entries) /\ IsInjective(entries)
    /\ IsChangeSet(accumulated) /\ accumulated.mapping = <<>>
    /\ IsChangeSet(changes)
    /\ modifiedBefore \cup modified \subseteq ToSet(Entries)
    /\ \A l \in DOMAIN lists : lists[l].row \in Nat /\ lists[l].of \in ToSet(Entries)

\* The positions in neither set hold the same entries in the same order.
SameRest(old, deletions, new, insertions) ==
    LET kept == Positions(old) \ deletions
        rest == Positions(new) \ insertions
    IN  /\ {At(old, n) : n \in kept} = {At(new, n) : n \in rest}
        /\ \A i, j \in kept : \A k, l \in rest :
             At(old, i) = At(new, k) /\ At(old, j) = At(new, l) /\ i < j => k < l

\* Deleting the deletions from the old collection and inserting the insertions
\* gives the new one, as a table view does it that is given the changes: the
\* entries in neither are the same, in the same order.  A table that is cleared
\* does not say how long it was.
ChangesExplain ==
    TypeOK /\ (trackMoves =>
        /\ IsList => accumulated.deletions \subseteq Positions(base)
        /\ accumulated.insertions \subseteq Positions(middle)
        /\ SameRest(base, accumulated.deletions, middle, accumulated.insertions))

\* collection_notifications.hpp:83: a reported move is always a move, from a
\* deleted position to an inserted one.
MovesAreReal ==
    \A m \in ToSet(accumulated.moves) :
        /\ m.from \in accumulated.deletions
        /\ m.to \in accumulated.insertions
        /\ At(base, m.from) = At(middle, m.to)

\* Where a change set says an old entry is: at the end of its move, or else
\* where the shifts leave it.  (Merged moves are in no order: see RowsAreFound
\* for how they are searched.)
ReportedPlace(c, ndx) ==
    LET m == SelectInSeq(c.moves, LAMBDA n : n.from = ndx)
        unshifted == Ix!UnshiftIndex(c.deletions, ndx)
    IN  IF m # 0 THEN c.moves[m].to ELSE Ix!ShiftIndex(c.insertions, unshifted)

\* An old entry is gone when it is deleted and not moved.
Gone(c, ndx) == ndx \in c.deletions /\ ~\E m \in ToSet(c.moves) : m.from = ndx

IsTraced(c, old, new) ==
    \A n \in Positions(old) :
        IF Gone(c, n) THEN At(old, n) \notin ToSet(new)
        ELSE ReportedPlace(c, n) \in Positions(new) /\ At(new, ReportedPlace(c, n)) = At(old, n)

\* Over any number of merged logs the change set says of every entry of the old
\* version where it is in the new one, or that it is deleted: none that has
\* moved is reported as a deletion and an insertion only.
EntriesAreTraced == trackMoves => IsTraced(accumulated, base, middle) /\ MovesAreReal

\* results_notifier.cpp:133: a query that has run finds the rows of its results
\* in the changes of the log read since then, or learns that they are deleted.
\* It searches the moves by halves, so they have to be sorted; parse_complete
\* sorts them, and merge does not keep them so, but only notifiers that have not
\* run yet, with no rows to look up, are given merged changes.
RowsAreFound ==
    IsTable /\ trackMoves =>
        LET c == parse_complete(changes)
        IN  /\ \A i, j \in DOMAIN c.moves : i < j => c.moves[i].from < c.moves[j].from
            /\ \A n \in Positions(middle) :
                 IF RowNow(c, n) = npos THEN At(middle, n) \notin ToSet(now)
                 ELSE RowNow(c, n) \in Positions(now) /\ At(now, RowNow(c, n)) = At(middle, n)

\* The entries marked as modified, new ones apart, are the modified ones where
\* they are now.
Marks(c, entries, set, known) ==
    /\ c.modifications \subseteq Positions(entries)
    /\ {At(entries, n) : n \in c.modifications} \cap known = set \cap ToSet(entries) \cap known

\* So it is in the log being read, whether moves are tracked or not, and, when
\* they are, in the merged changes; the change set delivered names the modified
\* entries twice, by their old and by their new positions.
ModificationsAreMarked ==
    /\ Marks(changes, now, modified, ToSet(middle))
    /\ trackMoves => Marks(accumulated, middle, modifiedBefore, ToSet(base))
    /\ IsList => LET delivered == finalize(accumulated)
                 IN  {At(base, i) : i \in delivered.modifications} =
                        {At(middle, i) : i \in delivered.modifications_new}

\* transact_log_handler.cpp:398: the changes made to an observed list are
\* tracked: the list the handler has for a row is the list of that row, unless
\* it took the entry of the list of an erased row.
ListsAreTracked ==
    \A l \in DOMAIN lists :
        \/ lists[l].overlooked
        \/ lists[l].row \in Positions(now) /\ At(now, lists[l].row) = lists[l].of
=============================================================================
