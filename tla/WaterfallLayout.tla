--------------------------- MODULE WaterfallLayout ---------------------------
(***************************************************************************)
(* Common/Views/WaterfallLayout.swift: the collection view layout of the   *)
(* Home and Collection screens.  prepare() gives each item the shortest of *)
(* at most three columns.  The collection view asks for a new layout when  *)
(* its items or its width change, and only then.  All of it runs on the    *)
(* main thread: the steps between prepare and endPrepare are the           *)
(* iterations of one call, and nothing happens between them.               *)
(*                                                                         *)
(* Lengths are points.  The columns' width is a fraction: horizontal       *)
(* positions are kept in units of 1 / numberOfColumns point.               *)
(***************************************************************************)
EXTENDS Integers, Sequences, FiniteSetsExt

CONSTANTS
    Widths,      \* frame widths of the collection view
    Sizes,       \* [width, height] of photos
    TopInset,    \* topInset
    Spacing,     \* itemSpacing of more than one column
    Margin,      \* layoutMargins.left and right
    MinWidth,    \* minimumWidth of a column
    PagingHeight,\* PagingView.height
    MaxItems     \* how many items the screen may have

ASSUME LayoutConstants ==
    /\ Widths \subseteq Nat \ {0}
    /\ Sizes \subseteq [width: Nat \ {0}, height: Nat]
    /\ {TopInset, Margin, PagingHeight, MaxItems} \subseteq Nat
    /\ {Spacing, MinWidth} \subseteq Nat \ {0}
    /\ Margin <= MinWidth + Spacing

VARIABLES
    frameWidth,     \* collectionView.frame.width
    items,          \* sizes of the photos the data source has
    phase,          \* "invalid", "placing" (prepare's loop) or "ready"
    frames,         \* frames and layoutAttributes
    columnHeights,
    contentHeight,
    pagingY         \* top of pagingViewAttributes' frame, or -1 without one

vars == <<frameWidth, items, phase, frames, columnHeights, contentHeight, pagingY>>

----------------------------------------------------------------------------
\* Int truncates towards zero: a frame narrower than the spacing has no column.
numberOfColumns(w) ==
    IF w < Spacing THEN 0 ELSE Min({(w - Spacing) \div (MinWidth + Spacing), 3})

columns == numberOfColumns(frameWidth)
isSingleColumn == columns = 1
itemSpacing == IF isSingleColumn THEN 1 ELSE Spacing
contentWidth == IF isSingleColumn THEN frameWidth ELSE frameWidth - 2 * Margin

\* columns * columnWidth
scaledWidth == IF isSingleColumn THEN contentWidth ELSE contentWidth - (columns - 1) * Spacing

\* columns * the left edge of column k, counted from 0
scaledX(k) == IF isSingleColumn THEN 0 ELSE columns * Margin + k * (scaledWidth + columns * Spacing)

\* floor(columnWidth), and the photo's height at columnWidth
itemSize(size) ==
    [width  |-> scaledWidth \div columns,
     height |-> (size.height * scaledWidth) \div (columns * size.width)]

Column == 0 .. columns - 1

\* Mutant: takes the columns in turn.
indexOfNextColumn_inTurn == Len(frames) % columns

indexOfNextColumn == Min({k \in Column : \A c \in Column : columnHeights[k] <= columnHeights[c]})

----------------------------------------------------------------------------
Init ==
    /\ frameWidth \in Widths
    /\ items = <<>>
    /\ phase = "invalid"
    /\ frames = <<>> /\ columnHeights = <<>> /\ contentHeight = 0 /\ pagingY = -1

layout == <<frames, columnHeights, contentHeight, pagingY>>

\* insertItems or reloadData with one item more, deleteItems with one less
changeItems ==
    /\ phase # "placing"
    /\ \/ /\ Len(items) < MaxItems
          /\ \E s \in Sizes : items' = Append(items, s)
       \/ \E i \in DOMAIN items :
             items' = SubSeq(items, 1, i - 1) \o SubSeq(items, i + 1, Len(items))
    /\ phase' = "invalid"
    /\ UNCHANGED <<frameWidth, layout>>

\* shouldInvalidateLayout(forBoundsChange:)
changeWidth ==
    /\ phase # "placing"
    /\ \E w \in Widths \ {frameWidth} : frameWidth' = w
    /\ phase' = "invalid"
    /\ UNCHANGED <<items, layout>>

\* prepare up to its loop: without a column nothing is laid out.
prepare ==
    /\ phase = "invalid"
    /\ frames' = <<>> /\ contentHeight' = 0 /\ pagingY' = -1
    /\ columnHeights' = [k \in Column |-> TopInset]
    /\ phase' = IF columns > 0 THEN "placing" ELSE "ready"
    /\ UNCHANGED <<frameWidth, items>>

\* Mutant: the item's height is not added to what the column has.
placeItem_notAdded ==
    /\ phase = "placing"
    /\ Len(frames) < Len(items)
    /\ LET column == indexOfNextColumn
           size == itemSize(items[Len(frames) + 1])
           y == columnHeights[column]
       IN  /\ frames' = Append(frames, [column |-> column, y |-> y,
                                        width |-> size.width, height |-> size.height])
           /\ columnHeights' = [columnHeights EXCEPT ![column] = size.height + itemSpacing]
    /\ UNCHANGED <<frameWidth, items, phase, contentHeight, pagingY>>

\* One iteration: the next item
placeItem ==
    /\ phase = "placing"
    /\ Len(frames) < Len(items)
    /\ LET column == indexOfNextColumn
           size == itemSize(items[Len(frames) + 1])
           y == columnHeights[column]
       IN  /\ frames' = Append(frames, [column |-> column, y |-> y,
                                        width |-> size.width, height |-> size.height])
           /\ columnHeights' = [columnHeights EXCEPT ![column] = y + size.height + itemSpacing]
    /\ UNCHANGED <<frameWidth, items, phase, contentHeight, pagingY>>

Tallest == Max({columnHeights[k] : k \in Column})

\* Mutant: the loop stops one item early.
endPrepare_early ==
    /\ phase = "placing"
    /\ Len(frames) >= Len(items) - 1
    /\ pagingY' = IF items = <<>> THEN -1 ELSE Tallest
    /\ contentHeight' = Tallest + (IF items = <<>> THEN 0 ELSE PagingHeight) + itemSpacing
    /\ phase' = "ready"
    /\ UNCHANGED <<frameWidth, items, frames, columnHeights>>

\* The rest of prepare
endPrepare ==
    /\ phase = "placing"
    /\ Len(frames) = Len(items)
    /\ pagingY' = IF items = <<>> THEN -1 ELSE Tallest
    /\ contentHeight' = Tallest + (IF items = <<>> THEN 0 ELSE PagingHeight) + itemSpacing
    /\ phase' = "ready"
    /\ UNCHANGED <<frameWidth, items, frames, columnHeights>>

Next == changeItems \/ changeWidth \/ prepare \/ placeItem \/ endPrepare

Spec == Init /\ [][Next]_vars

----------------------------------------------------------------------------
\* rect.intersects, for a rect of the full width between the heights y1, y2
Intersects(f, y1, y2) == f.y < y2 /\ y1 < f.y + f.height

Hits(y1, y2) == {i \in DOMAIN frames : Intersects(frames[i], y1, y2)}

\* Mutant: the end of the range is left at the number of frames.
layoutAttributesForElements_open(y1, y2) ==
    IF Hits(y1, y2) = {} THEN DOMAIN frames
    ELSE Min(Hits(y1, y2)) .. Len(frames)

\* The items of the first to the last frame that meets the rect; if none
\* does, the initial bounds of the range stand, and all are returned.
layoutAttributesForElements(y1, y2) ==
    IF Hits(y1, y2) = {} THEN DOMAIN frames
    ELSE Min(Hits(y1, y2)) .. Max(Hits(y1, y2))

----------------------------------------------------------------------------
Frame == [column: 0 .. 2, y: Nat, width: Nat, height: Nat]

\* The type invariant of the layout; at most three columns.
TypeOK ==
    /\ frameWidth \in Widths
    /\ items \in Seq(Sizes)
    /\ phase \in {"invalid", "placing", "ready"}
    /\ frames \in Seq(Frame)
    /\ phase = "placing" => columnHeights \in [Column -> Nat] /\ Column \subseteq 0 .. 2
    /\ contentHeight \in Nat /\ pagingY \in Nat \cup {-1}

Laid == phase \in {"placing", "ready"} /\ columns > 0

\* No two photos overlap, and none leaves the screen.
FramesApart ==
    Laid =>
        /\ \A i, j \in DOMAIN frames :
              i < j => \/ frames[i].column # frames[j].column
                       \/ frames[i].y + frames[i].height + itemSpacing <= frames[j].y
        /\ \A i \in DOMAIN frames :
              LET right == scaledX(frames[i].column) + columns * frames[i].width
              IN  /\ right <= columns * frameWidth
                  /\ frames[i].column < columns - 1 => right < scaledX(frames[i].column + 1)

\* The content is as high as it needs to be: the paging view begins below
\* every photo and ends in the content.
ContentHoldsAll ==
    phase = "ready" /\ columns > 0 =>
        \A i \in DOMAIN frames :
            /\ frames[i].y + frames[i].height < pagingY
            /\ pagingY + PagingHeight <= contentHeight

\* The layout is one a user can see all of: photos apart, on the screen and in
\* the content.
PhotosFit == TypeOK /\ FramesApart /\ ContentHoldsAll

\* Photos keep the order of the feed: a later one never starts above an
\* earlier one.  This is why the items of a rect are (nearly) a range.
FramesInReadingOrder ==
    Laid => \A i, j \in DOMAIN frames : i < j => frames[i].y <= frames[j].y

\* The columns end within the height of one item of each other, with its
\* spacing.
ColumnsBalanced ==
    Laid =>
        \A k, c \in Column :
            \/ columnHeights[k] <= columnHeights[c]
            \/ \E i \in DOMAIN frames :
                  /\ frames[i].column = k
                  /\ columnHeights[k] - columnHeights[c] <= frames[i].height + itemSpacing

\* The range of a rect holds no photo from below the rect, and from above it
\* only such as stand beside the first photo that meets it, however the photos
\* are spread over the columns.
ExtraElementsLieAbove ==
    phase = "ready" =>
        LET edges == {0} \cup UNION {{f.y, f.y + f.height} : f \in {frames[i] : i \in DOMAIN frames}}
        IN  \A y1, y2 \in edges :
              \A i \in layoutAttributesForElements(y1, y2) \ Hits(y1, y2) :
                  Hits(y1, y2) # {} => /\ frames[i].y + frames[i].height <= y1
                                       /\ frames[Min(Hits(y1, y2))].y <= frames[i].y

\* Every item has its attributes whenever the layout is ready, unless the
\* collection view is too narrow for one column: then layoutAttributesForItem
\* would index an empty array.
ItemsHaveAttributes ==
    phase = "ready" => Len(frames) = Len(items) \/ frameWidth < MinWidth + 2 * Spacing
==============================================================================
