---------------------------- MODULE QueryResults ----------------------------
(***************************************************************************)
(* The changes of a query's results: ResultsNotifier (impl/                *)
(* results_notifier.cpp) runs the query again after the table has changed, *)
(* works out from the table's change set where the rows of the previous    *)
(* results are now, and calculates what has to be deleted, inserted and    *)
(* moved (CollectionChangeBuilder::calculate).                             *)
(*                                                                         *)
(* now is the table, a sequence of rows with an identity; matching are the *)
(* rows the query finds.  changes is the table's change builder since the  *)
(* query last ran, previousRows its results then, as row numbers           *)
(* (m_previous_rows), and results the same as identities.  inTableOrder    *)
(* says that the results come in the order of the table; a sorted query    *)
(* may give its rows in any order.  report is what the run that just ended *)
(* reported.                                                               *)
(***************************************************************************)
EXTENDS CollectionChange, FiniteSetsExt

CONSTANTS Rows,             \* identities of rows
          MaxLength,        \* bound on the length of the table
          MaxInstructions   \* bound on the instructions between two runs

VARIABLES inTableOrder, now, matching, changes, changed, previousRows, results, report,
          instructions

vars == <<inTableOrder, now, matching, changes, changed, previousRows, results, report,
          instructions>>

Positions(rows) == 0 .. Len(rows) - 1
At(rows, ndx) == rows[ndx + 1]
IndexIn(rows, row) == CHOOSE n \in Positions(rows) : At(rows, n) = row

-----------------------------------------------------------------------------
(* Results in the order of the table *)

\* Where a row is expected after the rows inserted and removed before it.
CalculatedPlace(s, row) ==
    row.tv_index - Ix!CountBefore(s.insertions, row.tv_index)
                 + Ix!CountBefore(s.removed, row.prev_tv_index)

\* Every row in turn, against the one expected after the last row that did not
\* move; only a candidate can have moved.
calculate_moves_unsorted(rows, removed, insertions, candidates) ==
    LET Step(s, row) ==
            IF row.shifted_tv_index = s.expected \/ row.row_index \notin candidates
            THEN [s EXCEPT !.expected = row.shifted_tv_index + 1]
            ELSE IF row.shifted_tv_index = CalculatedPlace(s, row)
            THEN [s EXCEPT !.expected = CalculatedPlace(s, row) + 1]
            ELSE [s EXCEPT !.moves = Append(@, [from |-> row.prev_tv_index, to |-> row.tv_index]),
                           !.insertions = @ \cup {row.tv_index},
                           !.removed = @ \cup {row.prev_tv_index}]
    IN  FoldLeft(Step, [expected |-> 0, moves |-> <<>>, insertions |-> insertions,
                        removed |-> removed], rows)

-----------------------------------------------------------------------------
(* Sorted results: the longest common subsequences *)

\* count of a range of an index set; a start below zero is a huge number.
CountIn(S, first, end) == IF first < 0 THEN 0 ELSE Cardinality(S \cap first .. end - 1)

\* Mutant: the first block is the longest one.
Longer_first(size, best) == best.size = 0

Longer(size, best) == size > best.size

\* The longest block of rows that follow each other both in a and in b, and
\* among the longest the first with the fewest modified rows, the count of the
\* first one being taken from the wrong end.
find_longest_match(a, b, begin1, end1, begin2, end2, modified) ==
    LET Block(i, j, size, m) ==
            [i |-> i - size + 1, j |-> j - size + 1, size |-> size, modified |-> m]
        Tie(best, i, j, size, here, known) ==
            IF here < known THEN Block(i, j, size, here) ELSE [best EXCEPT !.modified = known]
        Better(best, i, j, size) ==
            IF Longer(size, best) THEN Block(i, j, size, npos)
            ELSE IF size < best.size THEN best
            ELSE Tie(best, i, j, size, CountIn(modified, j - size + 1, j + 1),
                     IF best.modified # npos THEN best.modified
                     ELSE CountIn(modified, best.j - size + 1, best.j + 1))
        Extend(s, i, j, size) == [j |-> j, len |-> size, best |-> Better(s.best, i, j, size)]
        Match(s, i, j) ==
            IF j \notin begin2 .. end2 - 1 THEN [s EXCEPT !.j = npos]
            ELSE Extend(s, i, j, IF s.j # npos /\ s.j + 1 = j THEN s.len + 1 ELSE 1)
        Step(s, i) == Match(s, i, IndexIn(b, At(a, i)))
    IN  FoldLeft(Step, [j |-> npos, len |-> 0,
                        best |-> [i |-> begin1, j |-> begin2, size |-> 0, modified |-> 0]],
                 [k \in 1 .. end1 - begin1 |-> begin1 + k - 1]).best

\* The blocks to keep, in order: the longest one and those on both sides of it.
RECURSIVE find_longest_matches(_, _, _, _, _, _, _)
find_longest_matches(a, b, begin1, end1, begin2, end2, modified) ==
    LET Before(m) ==
            IF m.i > begin1 /\ m.j > begin2
            THEN find_longest_matches(a, b, begin1, m.i, begin2, m.j, modified) ELSE <<>>
        After(m) ==
            IF m.i + m.size < end2 /\ m.j + m.size < end2
            THEN find_longest_matches(a, b, m.i + m.size, end1, m.j + m.size, end2, modified)
            ELSE <<>>
        Around(m) == IF m.size = 0 THEN <<>> ELSE Before(m) \o <<m>> \o After(m)
    IN  Around(find_longest_match(a, b, begin1, end1, begin2, end2, modified))

\* Mutant: forgets the rows after the last block.
Unmatched_lastBlock(first, length, starts, sizes) ==
    first .. length - 1 \ UNION {starts[k] .. length - 1 : k \in {Len(starts)} \ {0}}

\* The positions from first on that are in no block.
Unmatched(first, length, starts, sizes) ==
    first .. length - 1 \ UNION {starts[k] .. starts[k] + sizes[k] - 1 : k \in DOMAIN starts}

\* Rows outside the blocks are deleted and inserted again.
calculate_moves_sorted(rows, removed, insertions, modified) ==
    LET n == Len(rows)
        RowNumbers(s) == [k \in DOMAIN s |-> s[k].row_index]
        Unkept(first, starts, matches) ==
            Unmatched(first, n, starts, [k \in DOMAIN matches |-> matches[k].size])
        Keep(old, first, matches) ==
            [moves      |-> <<>>,
             removed    |-> removed \cup {At(old, k).prev_tv_index :
                              k \in Unkept(first, [k \in DOMAIN matches |-> matches[k].i], matches)},
             insertions |-> insertions \cup {At(rows, k).tv_index :
                              k \in Unkept(first, [k \in DOMAIN matches |-> matches[k].j], matches)}]
        From(old, first) ==
            Keep(old, first, find_longest_matches(RowNumbers(old), RowNumbers(rows), first, n, first, n,
                                                  modified))
        Moved(old, differ) ==
            IF differ = {} THEN [moves |-> <<>>, removed |-> removed, insertions |-> insertions]
            ELSE From(old, Min(differ))
        ByOldPlace(old) == Moved(old, {k \in Positions(rows) : At(old, k) # At(rows, k)})
    IN  ByOldPlace(SortSeq(rows, LAMBDA r, s : r.prev_tv_index < s.prev_tv_index))

-----------------------------------------------------------------------------
(* calculate *)

\* prevRows are the old results, as the rows' numbers in the new table or npos
\* for a deleted one, nextRows the new ones, both without repetitions;
\* candidates are the rows that may have moved, when the results are in the
\* order of the table.
Gone(prevRows) == {i \in Positions(prevRows) : At(prevRows, i) = npos}

\* The rows in both, by their place in the new results.
KeptRows(prevRows, nextRows) ==
    LET Info(j) == LET i == IndexIn(prevRows, At(nextRows, j))
                   IN  [row_index        |-> At(nextRows, j),
                        tv_index         |-> j,
                        prev_tv_index    |-> i,
                        shifted_tv_index |-> i - Ix!CountBefore(Gone(prevRows), i)]
        kept == SelectSeq([n \in DOMAIN nextRows |-> n - 1],
                          LAMBDA j : At(nextRows, j) \in ToSet(prevRows))
    IN  [n \in DOMAIN kept |-> Info(kept[n])]

calculate(prevRows, nextRows, didChange, ordered, candidates) ==
    LET removed    == {i \in Positions(prevRows) :
                         At(prevRows, i) \notin ToSet(nextRows) \cup {npos}}
        insertions == {j \in Positions(nextRows) : At(nextRows, j) \notin ToSet(prevRows)}
        Set(moved, modified) ==
            [NoChange EXCEPT !.deletions     = Gone(prevRows) \cup moved.removed,
                             !.insertions    = moved.insertions,
                             !.modifications = modified,
                             !.moves         = moved.moves]
        Moved(rows, modified) ==
            Set(IF ordered THEN calculate_moves_unsorted(rows, removed, insertions, candidates)
                ELSE calculate_moves_sorted(rows, removed, insertions, modified), modified)
        MovedOf(rows) ==
            Moved(rows, {r.tv_index : r \in {k \in ToSet(rows) : k.row_index \in didChange}})
    IN  MovedOf(KeptRows(prevRows, nextRows))

-----------------------------------------------------------------------------
(* The table and the notifier *)

\* The rows of set in the order of the table.
InOrder(table, set) == SelectSeq(table, LAMBDA row : row \in set)
Numbers(table, rows) == [n \in DOMAIN rows |-> IndexIn(table, rows[n])]

NoReport == [before |-> <<>>, after |-> <<>>, changed |-> {}, changes |-> NoChange]

Init ==
    /\ inTableOrder \in BOOLEAN
    /\ \E set \in SUBSET Rows : Cardinality(set) <= MaxLength /\ now \in SetToSeqs(set)
    /\ matching \in SUBSET ToSet(now)
    /\ changes = NoChange /\ changed = {}
    /\ results = InOrder(now, matching)
    /\ previousRows = Numbers(now, results)
    /\ report = NoReport
    /\ instructions = 0

Instruction ==
    /\ instructions < MaxInstructions
    /\ instructions' = instructions + 1
    /\ report' = NoReport
    /\ UNCHANGED <<inTableOrder, previousRows, results>>

\* A row is set, after which the query may find it or not.
SetRow(ndx, found) ==
    /\ Instruction
    /\ ndx \in Positions(now)
    /\ changes' = modify(changes, ndx)
    /\ changed' = changed \cup {At(now, ndx)}
    /\ matching' = IF found THEN matching \cup {At(now, ndx)} ELSE matching \ {At(now, ndx)}
    /\ UNCHANGED now

AppendRow(row, found) ==
    /\ Instruction
    /\ Len(now) < MaxLength /\ row \notin ToSet(now) \cup ToSet(results)
    /\ now' = Append(now, row)
    /\ changes' = insert(changes, Len(now), 1, TRUE)
    /\ changed' = changed \ {row}
    /\ matching' = IF found THEN matching \cup {row} ELSE matching

DeleteRowAt(ndx) ==
    /\ Instruction
    /\ ndx \in Positions(now)
    /\ now' = SubSeq([now EXCEPT ![ndx + 1] = Last(now)], 1, Len(now) - 1)
    /\ changes' = move_over(changes, ndx, Len(now) - 1, TRUE)
    /\ matching' = matching \ {At(now, ndx)}
    /\ UNCHANGED changed

\* The query runs again, with the changes of the log that has been read.
calculate_changes(next) ==
    LET rows == Numbers(now, next)
        Calculated(c) == calculate([n \in DOMAIN previousRows |-> RowNow(c, previousRows[n])],
                                   rows, c.modifications, inTableOrder, c.insertions)
    IN  /\ instructions > 0
        /\ report' = [before |-> results, after |-> next,
                      changed |-> changed \cap ToSet(results) \cap ToSet(next),
                      changes |-> Calculated(parse_complete(changes))]
        /\ previousRows' = rows
        /\ results' = next
        /\ changes' = NoChange /\ changed' = {} /\ instructions' = 0
        /\ UNCHANGED <<inTableOrder, now, matching>>

Next ==
    \/ \E ndx \in 0 .. MaxLength - 1 :
         \/ \E found \in BOOLEAN : SetRow(ndx, found)
         \/ DeleteRowAt(ndx)
    \/ \E row \in Rows, found \in BOOLEAN : AppendRow(row, found)
    \/ \E next \in IF inTableOrder THEN {InOrder(now, matching)} ELSE SetToSeqs(matching) :
         calculate_changes(next)

Spec == Init /\ [][Next]_vars

-----------------------------------------------------------------------------
(* Properties *)

TypeOK ==
    /\ ToSet(now) \cup ToSet(results) \subseteq Rows /\ matching \subseteq ToSet(now)
    /\ previousRows \in Seq(Nat)
    /\ report.changes.deletions \subseteq Positions(report.before)
    /\ report.changes.insertions \cup report.changes.modifications \subseteq Positions(report.after)
    /\ instructions \in 0 .. MaxInstructions

\* The members of rows whose positions are not in gone, in order.
Kept(rows, gone) ==
    LET kept == SelectSeq([n \in DOMAIN rows |-> n - 1], LAMBDA i : i \notin gone)
    IN  [n \in DOMAIN kept |-> At(rows, kept[n])]

\* A reported move names one row at both of its ends.
ReportedMovesAreReal ==
    \A m \in ToSet(report.changes.moves) :
        /\ m.from \in report.changes.deletions
        /\ m.to \in report.changes.insertions
        /\ At(report.before, m.from) = At(report.after, m.to)

\* collection_change_builder.cpp:848: deleting and inserting what was reported
\* turns the previous results into the new ones, and they are the same rows:
\* no row of the table was mistaken for another that took its number.
ReportProducesNewResults ==
    /\ TypeOK
    /\ Kept(report.before, report.changes.deletions) = Kept(report.after, report.changes.insertions)
    /\ ReportedMovesAreReal

\* Exactly the rows that were in both results and have been set are reported
\* as modified, where they are in the new results.
ReportedModificationsAreRight ==
    {At(report.after, n) : n \in report.changes.modifications} = report.changed

\* Sorted results: of the rows in both results, the longest block that stays
\* together keeps its place; only rows outside it are reported as moved.
LongestBlockStays ==
    inTableOrder \/
        LET old == SelectSeq(report.before, LAMBDA row : row \in ToSet(report.after))
            new == SelectSeq(report.after, LAMBDA row : row \in ToSet(report.before))
            Blocks(rows) == {SubSeq(rows, i, j) : i, j \in DOMAIN rows}
            stay == ToSet(Kept(report.before, report.changes.deletions))
        IN  old # <<>> => Cardinality(stay) >= Max({Len(s) : s \in Blocks(old) \cap Blocks(new)})
=============================================================================
