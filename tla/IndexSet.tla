------------------------------ MODULE IndexSet ------------------------------
(***************************************************************************)
(* realm::IndexSet: a set of row numbers kept as sorted half-open ranges,  *)
(* the ranges in chunks of at most MaxSize (max_size in index_set.hpp: 4   *)
(* in a debug build, 256 in a release build), every chunk with the number  *)
(* of indices in it so that a whole chunk can be skipped.                  *)
(*                                                                         *)
(* data is m_data.  A range is <<first, second>>, a chunk is its ranges    *)
(* and its cached count; the begin and end the code also caches are always *)
(* the first member of the first range and the end of the last one, and    *)
(* are read from there.  An iterator is <<chunk, range>>, and the end is   *)
(* <<number of chunks + 1, 0>>.                                            *)
(*                                                                         *)
(* indices is what the set should hold: the same operations, on a plain    *)
(* set (module IndexSets).  miscounted records that add_shifted_by has run *)
(* over the chunks it reserved with a range of several indices, which      *)
(* leaves a chunk with a wrong count; nothing but clear is modelled from   *)
(* there on.                                                               *)
(***************************************************************************)
EXTENDS Integers, Sequences, SequencesExt, FiniteSetsExt

CONSTANTS MaxSize,    \* ranges in a chunk
          MaxIndex,   \* bound on the indices in the set
          Arguments   \* the sets of indices given as arguments

ASSUME IndexSetAssumption ==
    /\ MaxSize \in Nat /\ MaxSize >= 2 /\ MaxSize % 2 = 0
    /\ MaxIndex \in Nat
    /\ Arguments \subseteq SUBSET (0 .. MaxIndex)

VARIABLES data, indices, miscounted

vars == <<data, indices, miscounted>>

Reference == INSTANCE IndexSets

npos == -1

-----------------------------------------------------------------------------
(* Ranges, chunks and iterators *)

SizeOf(range) == range[2] - range[1]
IndicesIn(ranges) == UNION {r[1] .. r[2] - 1 : r \in ToSet(ranges)}
CountIn(ranges) == FoldLeft(LAMBDA n, r : n + SizeOf(r), 0, ranges)
ChunkBegin(chunk) == Head(chunk.data)[1]
ChunkEnd(chunk) == Last(chunk.data)[2]
NewChunk(ranges) == [data |-> ranges, count |-> CountIn(ranges)]

AllRanges(d) == FlattenSeq([c \in DOMAIN d |-> d[c].data])
Values(d) == IndicesIn(AllRanges(d))
AsIndexes(S) ==
    IF S = {} THEN <<>>
    ELSE SelectSeq([i \in 1 .. Max(S) + 1 |-> i - 1], LAMBDA i : i \in S)

EndOf(d) == <<Len(d) + 1, 0>>
BeginOf(d) == IF d = <<>> THEN EndOf(d) ELSE <<1, 1>>
RangeAt(d, it) == d[it[1]].data[it[2]]

next_chunk(d, it) == IF it[1] < Len(d) THEN <<it[1] + 1, 1>> ELSE EndOf(d)

Following(d, it) ==
    IF it[2] < Len(d[it[1]].data) THEN <<it[1], it[2] + 1>> ELSE next_chunk(d, it)

Preceding(d, it) ==
    IF it[2] <= 1 THEN <<it[1] - 1, Len(d[it[1] - 1].data)>> ELSE <<it[1], it[2] - 1>>

\* it is not after other.
AtOrBefore(it, other) ==
    it[1] < other[1] \/ (it[1] = other[1] /\ it[2] <= other[2])

\* The first range from it on that Stop holds of, or the end.
FirstFrom(d, it, Stop(_)) ==
    LET stops == {p \in UNION {{c} \X DOMAIN d[c].data : c \in DOMAIN d} :
                    AtOrBefore(it, p) /\ Stop(p)}
    IN  IF stops = {} THEN EndOf(d)
        ELSE CHOOSE p \in stops : \A q \in stops : AtOrBefore(p, q)

\* The number of indices in the ranges from it up to stop.
CountBetween(d, it, stop) ==
    MapThenSumSet(LAMBDA p : SizeOf(RangeAt(d, p)),
                  {p \in UNION {{c} \X DOMAIN d[c].data : c \in DOMAIN d} :
                     AtOrBefore(it, p) /\ ~AtOrBefore(stop, p)})

\* s with its i-th member replaced by those of t.
Splice(s, i, t) == SubSeq(s, 1, i - 1) \o t \o SubSeq(s, i + 1, Len(s))

\* set and adjust of an iterator: the range becomes <<front, back>>.
SetRange(d, it, front, back) ==
    LET chunk == d[it[1]]
    IN  Splice(d, it[1],
               <<[data  |-> Splice(chunk.data, it[2], <<<<front, back>>>>),
                  count |-> chunk.count - SizeOf(RangeAt(d, it)) + back - front]>>)

adjust(d, it, front, back) ==
    SetRange(d, it, RangeAt(d, it)[1] + front, RangeAt(d, it)[2] + back)

\* shift of every iterator from it to the end.
ShiftFrom(d, it, distance) ==
    LET By(c, i) == IF AtOrBefore(it, <<c, i>>) THEN distance ELSE 0
    IN  [c \in 1 .. Len(d) |->
            [data  |-> [i \in 1 .. Len(d[c].data) |->
                           <<d[c].data[i][1] + By(c, i), d[c].data[i][2] + By(c, i)>>],
             count |-> d[c].count]]

-----------------------------------------------------------------------------
(* ChunkedRangeVector *)

push_back(d, range) ==
    IF d # <<>> /\ Len(Last(d).data) < MaxSize
    THEN Append(Front(d), [data  |-> Append(Last(d).data, range),
                           count |-> Last(d).count + SizeOf(range)])
    ELSE Append(d, NewChunk(<<range>>))

HasSpace(chunk) == Len(chunk) + 1 <= MaxSize

\* Room for one more range in the chunk of pos: a full chunk is halved.
ensure_space(d, pos) ==
    LET chunk == d[pos[1]].data
        left  == Len(chunk) - MaxSize \div 2
        moved == NewChunk(SubSeq(chunk, left + 1, Len(chunk)))
        kept  == [data  |-> SubSeq(chunk, 1, left),
                  count |-> d[pos[1]].count - moved.count]
    IN  IF HasSpace(chunk) THEN [data |-> d, it |-> pos]
        ELSE [data |-> Splice(d, pos[1], <<kept, moved>>),
              it   |-> IF pos[2] - 1 >= MaxSize \div 2
                       THEN <<pos[1] + 1, pos[2] - MaxSize \div 2>>
                       ELSE pos]

insert(d, pos, range) ==
    IF pos = EndOf(d)
    THEN LET pushed == push_back(d, range)
         IN  [data |-> pushed, it |-> Preceding(pushed, EndOf(pushed))]
    ELSE LET room  == ensure_space(d, pos)
             chunk == room.data[room.it[1]]
         IN  [data |-> Splice(room.data, room.it[1],
                         <<[data  |-> InsertAt(chunk.data, room.it[2], range),
                            count |-> chunk.count + SizeOf(range)]>>),
              it   |-> room.it]

erase(d, pos) ==
    LET rest == RemoveAt(d[pos[1]].data, pos[2])
        left == Splice(d, pos[1], <<[data  |-> rest,
                                     count |-> d[pos[1]].count - SizeOf(RangeAt(d, pos))]>>)
    IN  IF rest = <<>>
        THEN LET less == RemoveAt(d, pos[1])
             IN  [data |-> less,
                  it   |-> IF pos[1] <= Len(less) THEN <<pos[1], 1>> ELSE EndOf(less)]
        ELSE [data |-> left,
              it   |-> IF pos[2] <= Len(rest) THEN pos ELSE next_chunk(left, pos)]

\* ChunkedRangeVectorBuilder: its chunks so far and the number it reserved,
\* from the ranges of the set being replaced.  A chunk beyond the reserved
\* ones starts with the count 1, whatever the length of its first range.
NewBuilder(d) == [chunks |-> <<>>, reserved |-> Len(AllRanges(d)) \div MaxSize + 1]

BuilderPushBack(b, range) ==
    LET n      == Len(b.chunks)
        chunk  == b.chunks[n]
        last   == Last(chunk.data)
        Becomes(ranges) == [b EXCEPT !.chunks = Append(Front(@),
                               [data |-> ranges, count |-> chunk.count + SizeOf(range)])]
    IN  IF n = 0 THEN [b EXCEPT !.chunks = <<NewChunk(<<range>>)>>]
        ELSE IF range[1] = last[2]
        THEN Becomes(Append(Front(chunk.data), <<last[1], range[2]>>))
        ELSE IF Len(chunk.data) < MaxSize THEN Becomes(Append(chunk.data, range))
        ELSE [b EXCEPT !.chunks = Append(@,
                [data  |-> <<range>>,
                 count |-> IF n >= b.reserved THEN 1 ELSE SizeOf(range)])]

\* The chunks built from a sequence of ranges, or of single indices.
Build(b, ranges) == FoldLeft(BuilderPushBack, b, ranges)
BuildIndexes(b, values) == Build(b, [i \in DOMAIN values |-> <<values[i], values[i] + 1>>])

-----------------------------------------------------------------------------
(* Searching and counting *)

\* The range that holds index or else the first one after it.  The search
\* starts in the chunk of from; only in that chunk, and only when index is
\* not before the whole chunk, at the range of from.
find(d, index, from) ==
    LET chunks == {c \in from[1] .. Len(d) : ChunkEnd(d[c]) > index}
        c      == Min(chunks)
    IN  IF chunks = {} THEN EndOf(d)
        ELSE IF index < ChunkBegin(d[c]) THEN <<c, 1>>
        ELSE FirstFrom(d, IF c = from[1] THEN from ELSE <<c, 1>>,
                       LAMBDA p : RangeAt(d, p)[2] > index)

contains(d, index) ==
    LET it == find(d, index, BeginOf(d))
    IN  it # EndOf(d) /\ RangeAt(d, it)[1] <= index

\* The last part of count: the chunks from it on that end by endIndex, by
\* their cached count, then the ranges that do, then a part of the next one.
CountFromChunk(d, it, endIndex) ==
    LET chunks == FirstFrom(d, it, LAMBDA p : ChunkEnd(d[p[1]]) > endIndex)
        ranges == FirstFrom(d, chunks, LAMBDA p : RangeAt(d, p)[2] > endIndex)
    IN  FoldLeft(LAMBDA n, c : n + c.count, 0, SubSeq(d, it[1], chunks[1] - 1))
          + CountBetween(d, chunks, ranges)
          + IF ranges # EndOf(d) /\ RangeAt(d, ranges)[1] < endIndex
            THEN endIndex - RangeAt(d, ranges)[1] ELSE 0

count(d, startIndex, endIndex) ==
    LET it     == find(d, startIndex, BeginOf(d))
        from   == RangeAt(d, it)
        inside == startIndex > from[1] \/ it[2] # 1
        \* the rest of the first chunk, as far as whole ranges go
        stop   == FirstFrom(d, Following(d, it),
                      LAMBDA p : RangeAt(d, p)[2] >= endIndex \/ p[2] = 1)
        rest   == from[2] - Max({from[1], startIndex})
                    + CountBetween(d, Following(d, it), stop)
        part   == IF stop # EndOf(d) /\ RangeAt(d, stop)[1] < endIndex /\ stop[2] # 1
                  THEN endIndex - RangeAt(d, stop)[1] ELSE 0
    IN  IF it = EndOf(d) THEN 0
        ELSE IF from[1] >= endIndex THEN 0
        ELSE IF from[2] >= endIndex THEN endIndex - Max({from[1], startIndex})
        ELSE IF ~inside THEN CountFromChunk(d, it, endIndex)
        ELSE IF stop = EndOf(d) THEN rest
        ELSE IF RangeAt(d, stop)[2] >= endIndex THEN rest + part
        ELSE rest + part + CountFromChunk(d, stop, endIndex)

unshift(d, index) == index - count(d, 0, index)

RECURSIVE ShiftFromRange(_, _, _)
ShiftFromRange(d, it, index) ==
    IF it = EndOf(d) THEN index
    ELSE IF RangeAt(d, it)[1] > index THEN index
    ELSE ShiftFromRange(d, Following(d, it), index + SizeOf(RangeAt(d, it)))

shift(d, index) == ShiftFromRange(d, BeginOf(d), index)

-----------------------------------------------------------------------------
(* Adding and removing *)

\* index goes into the set before the range it, which it extends, or extends
\* the one before it, or joins the two, or gets a range of its own.
do_add(d, it, index) ==
    LET valid   == it # EndOf(d)
        before  == Preceding(d, it)
        longer  == adjust(d, before, 0, 1)
    IN  IF valid /\ (RangeAt(d, it)[1] <= index /\ index < RangeAt(d, it)[2])
        THEN [data |-> d, it |-> it]
        ELSE IF it # BeginOf(d) /\ RangeAt(d, before)[2] = index
        THEN IF valid /\ RangeAt(d, it)[1] = index + 1
             THEN LET joined == erase(adjust(longer, before, 0, SizeOf(RangeAt(d, it))), it)
                  IN  [data |-> joined.data, it |-> Preceding(joined.data, joined.it)]
             ELSE [data |-> longer, it |-> before]
        ELSE IF valid /\ RangeAt(d, it)[1] = index + 1
        THEN [data |-> adjust(d, it, -1, 0), it |-> it]
        ELSE insert(d, it, <<index, index + 1>>)

add(d, index) == do_add(d, find(d, index, BeginOf(d)), index).data

\* The set made from a list of its members.
IndexSetOf(S) == FoldLeft(add, <<>>, AsIndexes(S))

\* Every index of other, the search going on where the last one was added.
add_set(d, other) ==
    FoldLeft(LAMBDA s, index : do_add(s.data, find(s.data, index, s.it), index),
             [data |-> d, it |-> BeginOf(d)], AsIndexes(Values(other))).data

RECURSIVE ShiftByChunks(_, _, _)
ShiftByChunks(d, it, index) ==
    IF it # EndOf(d) /\ ChunkEnd(d[it[1]]) <= index
    THEN ShiftByChunks(d, next_chunk(d, it), index + d[it[1]].count)
    ELSE [it |-> it, index |-> index]

RECURSIVE ShiftByRanges(_, _, _)
ShiftByRanges(d, it, index) ==
    IF it # EndOf(d) /\ RangeAt(d, it)[1] <= index
    THEN ShiftByRanges(d, Following(d, it), index + SizeOf(RangeAt(d, it)))
    ELSE [it |-> it, index |-> index]

\* The index as added, and the set.
add_shifted(d, index) ==
    LET chunks == ShiftByChunks(d, BeginOf(d), index)
        target == ShiftByRanges(d, chunks.it, chunks.index)
    IN  [index |-> target.index, data |-> do_add(d, target.it, target.index).data]

\* Every value in turn, with the ranges of the two sets that are behind it;
\* what is left of the old ranges is pushed whole.
add_shifted_by(d, shiftedBy, values) ==
    LET old == AllRanges(d)
        by  == AllRanges(shiftedBy)
        Step(s, index) ==
            LET newShift == CountIn(SelectSeq(by, LAMBDA r : r[1] <= index))
                RECURSIVE Push(_, _, _)
                Push(b, n, oldShift) ==
                    IF n < Len(old) /\ old[n + 1][1] <= index - newShift + oldShift
                    THEN Push(BuildIndexes(b, AsIndexes(IndicesIn(<<old[n + 1]>>))),
                              n + 1, oldShift + SizeOf(old[n + 1]))
                    ELSE [builder  |-> BuildIndexes(b, <<index - newShift + oldShift>>),
                          pushed   |-> n,
                          oldShift |-> oldShift]
            IN  IF index \in IndicesIn(by) THEN s
                ELSE Push(s.builder, s.pushed, s.oldShift)
        all == FoldLeft(Step, [builder |-> NewBuilder(d), pushed |-> 0, oldShift |-> 0],
                        AsIndexes(Values(values)))
    IN  IF values = <<>> THEN [NewBuilder(d) EXCEPT !.chunks = d]
        ELSE Build(all.builder, SubSeq(old, all.pushed + 1, Len(old)))

RECURSIVE do_remove(_, _, _, _)
do_remove(d, from, begin, end) ==
    LET it    == find(d, begin, from)
        first == RangeAt(d, it)[1]
        last  == RangeAt(d, it)[2]
        low   == Max({first, begin})
        trim  == SetRange(d, it, first, low)
        split == insert(trim, Following(trim, it), <<end, last>>)
        gone  == erase(d, it)
    IN  IF it = EndOf(d) THEN [data |-> d, it |-> it]
        ELSE IF first >= end THEN [data |-> d, it |-> it]
        ELSE IF first < low /\ last > end
        THEN do_remove(split.data, Preceding(split.data, split.it), low, end)
        ELSE IF low = first /\ end >= last THEN do_remove(gone.data, gone.it, low, end)
        ELSE IF low = first THEN do_remove(SetRange(d, it, end, last), it, low, end)
        ELSE do_remove(trim, it, low, end)

remove(d, index, n) == do_remove(d, find(d, index, BeginOf(d)), index, index + n).data

\* The ranges of values one after the other, until nothing is left to remove.
remove_set(d, values) ==
    FoldLeft(LAMBDA s, range : IF s.it = EndOf(s.data) THEN s
                               ELSE do_remove(s.data, s.it, range[1], range[2]),
             [data |-> d, it |-> BeginOf(d)], AllRanges(values)).data

-----------------------------------------------------------------------------
(* Inserting and erasing positions *)

set(len) == IF len = 0 THEN <<>> ELSE push_back(<<>>, <<0, len>>)

insert_at(d, index, n) ==
    LET pos     == find(d, index, BeginOf(d))
        inside  == pos # EndOf(d) /\ RangeAt(d, pos)[1] <= index
        widened == adjust(d, pos, 0, n)
        opened  == IF pos = EndOf(d) THEN d ELSE ShiftFrom(d, pos, n)
        AddNext(s, i) == LET added == do_add(s.data, s.it, index + i)
                         IN  [data |-> added.data, it |-> Following(added.data, added.it)]
    IN  IF inside
        THEN IF Following(d, pos) = EndOf(d) THEN widened
             ELSE ShiftFrom(widened, Following(d, pos), n)
        ELSE FoldLeft(AddNext, [data |-> opened, it |-> pos],
                      [i \in 1 .. n |-> i - 1]).data

\* The indices of both sets in order: an old one moves back by the positions
\* inserted before it, and shift_for_insert_at leaves the positions out.
RECURSIVE MergeForInsert(_, _, _, _)
MergeForInsert(old, positions, by, keep) ==
    IF old = <<>> THEN IF keep THEN positions ELSE <<>>
    ELSE IF positions = <<>> THEN [i \in DOMAIN old |-> old[i] + by]
    ELSE IF Head(old) + by < Head(positions)
    THEN <<Head(old) + by>> \o MergeForInsert(Tail(old), positions, by, keep)
    ELSE (IF keep THEN <<Head(positions)>> ELSE <<>>)
           \o MergeForInsert(old, Tail(positions), by + 1, keep)

insert_at_set(d, positions) ==
    IF positions = <<>> THEN d
    ELSE IF d = <<>> THEN positions
    ELSE BuildIndexes(NewBuilder(d),
            MergeForInsert(AsIndexes(Values(d)), AsIndexes(Values(positions)), 0, TRUE)).chunks

\* Mutant: one position is inserted, whatever n is, when a range is split.
shift_for_insert_at_one(d, index, n) ==
    LET it    == find(d, index, BeginOf(d))
        first == RangeAt(d, it)[1]
        head  == SetRange(ShiftFrom(d, it, n), it, first, index)
    IN  IF it = EndOf(d) THEN d
        ELSE IF first + n < index + n
        THEN insert(head, Following(head, it), <<index + 1, RangeAt(d, it)[2] + n>>).data
        ELSE ShiftFrom(d, it, n)

shift_for_insert_at(d, index, n) ==
    LET it    == find(d, index, BeginOf(d))
        moved == ShiftFrom(d, it, n)
        first == RangeAt(d, it)[1]
        head  == SetRange(moved, it, first, index)
    IN  IF it = EndOf(d) THEN d
        ELSE IF first + n < index + n
        THEN insert(head, Following(head, it),
                    <<index + n, RangeAt(d, it)[2] + n>>).data
        ELSE moved

shift_for_insert_at_set(d, positions) ==
    IF d = <<>> \/ positions = <<>> THEN d
    ELSE IF ChunkBegin(Head(positions)) >= ChunkEnd(Last(d)) THEN d
    ELSE BuildIndexes(NewBuilder(d),
            MergeForInsert(AsIndexes(Values(d)), AsIndexes(Values(positions)), 0, FALSE)).chunks

GapCloses(d, it) ==
    it # BeginOf(d) /\ RangeAt(d, Preceding(d, it))[2] + 1 = RangeAt(d, it)[1]

\* index is taken out of the range it, or else it lies in the gap before it,
\* which may close; the ranges after it move forward.
do_erase(d, it, index) ==
    LET range  == RangeAt(d, it)
        before == Preceding(d, it)
        s == IF range[1] <= index
             THEN IF SizeOf(range) = 1 THEN erase(d, it)
                  ELSE [data |-> adjust(d, it, 0, -1), it |-> Following(d, it)]
             ELSE IF GapCloses(d, it)
             THEN erase(adjust(d, before, 0, SizeOf(range)), it)
             ELSE [data |-> d, it |-> it]
    IN  ShiftFrom(s.data, s.it, -1)

erase_at(d, index) ==
    LET it == find(d, index, BeginOf(d))
    IN  IF it = EndOf(d) THEN d ELSE do_erase(d, it, index)

RECURSIVE MergeForErase(_, _, _)
MergeForErase(old, positions, by) ==
    IF old = <<>> THEN <<>>
    ELSE IF positions = <<>> THEN [i \in DOMAIN old |-> old[i] - by]
    ELSE IF Head(old) < Head(positions)
    THEN <<Head(old) - by>> \o MergeForErase(Tail(old), positions, by)
    ELSE MergeForErase(IF Head(old) = Head(positions) THEN Tail(old) ELSE old,
                       Tail(positions), by + 1)

erase_at_set(d, positions) ==
    IF d = <<>> \/ positions = <<>> THEN d
    ELSE BuildIndexes(NewBuilder(d),
            MergeForErase(AsIndexes(Values(d)), AsIndexes(Values(positions)), 0)).chunks

\* Mutant: skips a chunk that index falls in.
ChunkOf_skipped(d, index) ==
    FirstFrom(d, BeginOf(d), LAMBDA p : ChunkBegin(d[p[1]]) > index)

ChunkOf(d, index) == FirstFrom(d, BeginOf(d), LAMBDA p : ChunkEnd(d[p[1]]) > index)

\* npos when index was a member, and its unshifted value otherwise.
erase_or_unshift(d, index) ==
    LET chunks == ChunkOf(d, index)
        it     == FirstFrom(d, chunks, LAMBDA p : RangeAt(d, p)[2] > index)
        gone   == FoldLeft(LAMBDA n, c : n + c.count, 0, SubSeq(d, 1, chunks[1] - 1))
                    + CountBetween(d, chunks, it)
    IN  IF it = EndOf(d) THEN [index |-> index - gone, data |-> d]
        ELSE [index |-> IF RangeAt(d, it)[1] <= index THEN npos ELSE index - gone,
              data  |-> do_erase(d, it, index)]

-----------------------------------------------------------------------------
(* The operations as steps of the set's owner *)

Init == data = <<>> /\ indices = {} /\ miscounted = FALSE

\* data becomes d and should hold the members of S.
Become(d, S) ==
    /\ ~miscounted
    /\ S \subseteq 0 .. MaxIndex
    /\ data' = d
    /\ indices' = S
    /\ UNCHANGED miscounted

Argument == [S \in Arguments |-> IndexSetOf(S)]

Add(i)        == Become(add(data, i), indices \cup {i})
AddSet(S)     == Become(add_set(data, Argument[S]), indices \cup S)
AddShifted(i) == Become(add_shifted(data, i).data, Reference!AddShifted(indices, i))
SetLength(n)  == Become(set(n), 0 .. n - 1)
InsertPositions(i, n) == Become(insert_at(data, i, n), Reference!InsertAt(indices, i, n))
InsertSet(S)  == Become(insert_at_set(data, Argument[S]), Reference!InsertAll(indices, S))
ShiftForInsert(i, n) ==
    Become(shift_for_insert_at(data, i, n), Reference!ShiftForInsertAt(indices, i, n))
ShiftForInsertSet(S) ==
    Become(shift_for_insert_at_set(data, Argument[S]),
           Reference!ShiftForInsertAll(indices, S))
Erase(i)      == Become(erase_at(data, i), Reference!EraseAt(indices, i))
EraseSet(S)   == Become(erase_at_set(data, Argument[S]), Reference!EraseAll(indices, S))
EraseOrUnshift(i) == Become(erase_or_unshift(data, i).data, Reference!EraseAt(indices, i))
RemoveRange(i, n) == Become(remove(data, i, n), indices \ (i .. i + n - 1))
RemoveSet(S)  == Become(remove_set(data, Argument[S]), indices \ S)

AddShiftedBy(by, S) ==
    LET built == add_shifted_by(data, Argument[by], Argument[S])
        added == Reference!AddShiftedBy(indices, by, S)
    IN  /\ ~miscounted
        /\ added \subseteq 0 .. MaxIndex
        /\ data' = built.chunks
        /\ indices' = added
        /\ miscounted' = \E c \in DOMAIN built.chunks :
                            c > built.reserved
                              /\ built.chunks[c].count # CountIn(built.chunks[c].data)

clear == data' = <<>> /\ indices' = {} /\ miscounted' = FALSE

Next ==
    \/ \E i \in 0 .. MaxIndex :
         \/ Add(i) \/ AddShifted(i) \/ Erase(i) \/ EraseOrUnshift(i) \/ SetLength(i)
         \/ \E n \in 1 .. 3 : InsertPositions(i, n) \/ ShiftForInsert(i, n) \/ RemoveRange(i, n)
    \/ \E S \in Arguments :
         \/ AddSet(S) \/ InsertSet(S) \/ ShiftForInsertSet(S) \/ EraseSet(S) \/ RemoveSet(S)
         \/ \E by \in Arguments : AddShiftedBy(by, S)
    \/ clear

Spec == Init /\ [][Next]_vars

-----------------------------------------------------------------------------
(* Properties *)

\* The state is a sequence of chunks of ranges, with the set it stands for.
TypeOK ==
    /\ \A c \in DOMAIN data :
         /\ data[c].count \in Nat
         /\ data[c].data \in Seq(Nat \X Nat)
         /\ Len(data[c].data) \in 1 .. MaxSize
    /\ indices \subseteq 0 .. MaxIndex
    /\ miscounted \in BOOLEAN

\* verify (index_set.cpp:172): the ranges are in order, not empty and never
\* touch, over the boundary of two chunks too, and the cached counts are those
\* of the ranges, which is what every skip of a whole chunk relies on.
Verified ==
    LET ranges == AllRanges(data)
    IN  /\ \A r \in DOMAIN ranges : ranges[r][1] < ranges[r][2]
        /\ \A r \in DOMAIN ranges : r > 1 => ranges[r][1] > ranges[r - 1][2]
        /\ miscounted \/ \A c \in DOMAIN data : data[c].count = CountIn(data[c].data)

\* Whatever operations made it, the set is well formed, as verify asserts, and
\* holds the indices it should.
HoldsItsIndices == TypeOK /\ Verified /\ Values(data) = indices

\* unshift is right for every index that is not in the set, as is every count
\* that starts with the set or at the first range of a chunk.
CountsFromAChunkAreRight ==
    /\ \A i \in 0 .. MaxIndex :
         i \notin indices => unshift(data, i) = Reference!UnshiftIndex(indices, i)
    /\ \A start, end \in 0 .. MaxIndex + 1 :
         (start <= end /\ ~\E c \in DOMAIN data :
                              ChunkBegin(data[c]) < start /\ start < ChunkEnd(data[c]))
         => count(data, start, end) = Cardinality(indices \cap (start .. end - 1))

\* Lookups find what the set holds, whichever chunk the index falls in:
\* contains, shift, and the index add_shifted and erase_or_unshift return,
\* agree with the plain set, and so do the counts.
LookupsAreRight ==
    miscounted \/
    /\ CountsFromAChunkAreRight
    /\ \A i \in 0 .. MaxIndex :
        /\ contains(data, i) <=> i \in indices
        /\ shift(data, i) = Reference!ShiftIndex(indices, i)
        /\ add_shifted(data, i).index = Reference!ShiftIndex(indices, i)
        /\ erase_or_unshift(data, i).index =
             IF i \in indices THEN npos ELSE Reference!UnshiftIndex(indices, i)
=============================================================================
