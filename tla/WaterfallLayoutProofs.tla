------------------------ MODULE WaterfallLayoutProofs ------------------------
(***************************************************************************)
(* Proofs, for any widths, photo sizes and number of items, of the         *)
(* invariants WaterfallLayout.cfg model-checks.                            *)
(***************************************************************************)
EXTENDS WaterfallLayout, FiniteSetTheorems, WellFoundedInduction, TLAPS

----------------------------------------------------------------------------
(* Arithmetic *)

LEMMA Quotient ==
    ASSUME NEW a \in Nat, NEW b \in Nat \ {0}
    PROVE  a \div b \in Nat /\ (a \div b) * b <= a /\ (a < b <=> a \div b = 0)
  OBVIOUS

LEMMA MinOfTwo ==
    ASSUME NEW a \in Int, NEW b \in Int
    PROVE  Min({a, b}) = IF a <= b THEN a ELSE b
<1> DEFINE m == IF a <= b THEN a ELSE b
<1>1. m \in {a, b} /\ \A y \in {a, b} : m <= y
  OBVIOUS
<1>2. \A x \in {a, b} : (\A y \in {a, b} : x <= y) => x = m
  OBVIOUS
<1> HIDE DEF m
<1>3. Min({a, b}) = m
  BY <1>1, <1>2 DEF Min
<1>. QED
  BY <1>3 DEF m

\* The width of the columns: they fit in the frame, with their margins.
LEMMA ColumnsFit ==
    ASSUME frameWidth \in Widths
    PROVE  /\ columns \in 0 .. 3
           /\ columns = 0 => frameWidth < MinWidth + 2 * Spacing
           /\ columns = 2 => 2 * MinWidth + 3 * Spacing <= frameWidth
           /\ columns = 3 => 3 * MinWidth + 4 * Spacing <= frameWidth
<1> USE LayoutConstants
<1>1. frameWidth \in Nat /\ MinWidth + Spacing \in Nat \ {0}
  OBVIOUS
<1>2. CASE frameWidth < Spacing
  BY <1>1, <1>2 DEF columns, numberOfColumns
<1>3. CASE frameWidth >= Spacing
  <2> DEFINE a == frameWidth - Spacing
             b == MinWidth + Spacing
             q == a \div b
  <2>1. a \in Nat /\ b \in Nat \ {0}
    BY <1>1, <1>3
  <2>2. columns = Min({q, 3})
    BY <1>1, <1>3 DEF columns, numberOfColumns
  <2> HIDE DEF a, b
  <2>3. q \in Nat /\ q * b <= a /\ (a < b <=> q = 0)
    BY <2>1, Quotient
  <2> HIDE DEF q
  <2>4. columns = IF q <= 3 THEN q ELSE 3
    BY <2>2, <2>3, MinOfTwo
  <2>5. q >= 2 => 2 * b <= a
    BY <2>1, <2>3
  <2>6. q >= 3 => 3 * b <= a
    BY <2>1, <2>3
  <2>. QED
    BY <1>1, <2>3, <2>4, <2>5, <2>6 DEF a, b
<1>. QED
  BY <1>1, <1>2, <1>3

LEMMA ColumnPlaces ==
    ASSUME frameWidth \in Widths, columns > 0
    PROVE  /\ columns \in 1 .. 3 /\ Column \subseteq 0 .. 2 /\ 0 \in Column
           /\ itemSpacing \in Nat \ {0}
           /\ scaledWidth \in Nat
           /\ \A k \in Column :
                 /\ scaledX(k) + scaledWidth <= columns * frameWidth
                 /\ k < columns - 1 => scaledX(k) + scaledWidth < scaledX(k + 1)
<1> USE LayoutConstants
<1>1. frameWidth \in Nat /\ Spacing \in Nat \ {0} /\ Margin \in Nat /\ MinWidth \in Nat
  OBVIOUS
<1>2. columns \in 1 .. 3
  BY ColumnsFit
<1>3. Column \subseteq 0 .. 2 /\ 0 \in Column
  BY <1>2 DEF Column
<1>4. itemSpacing \in Nat \ {0}
  BY <1>1 DEF itemSpacing
<1>5. CASE columns = 1
  <2>1. scaledWidth = frameWidth /\ \A k : scaledX(k) = 0
    BY <1>5 DEF scaledWidth, contentWidth, scaledX, isSingleColumn
  <2>2. \A k \in Column : ~(k < columns - 1)
    BY <1>5 DEF Column
  <2>. QED
    BY <1>1, <1>2, <1>3, <1>4, <1>5, <2>1, <2>2
<1>6. CASE columns = 2
  <2>1. /\ scaledWidth = frameWidth - 2 * Margin - Spacing
        /\ \A k : scaledX(k) = 2 * Margin + k * (scaledWidth + 2 * Spacing)
    BY <1>1, <1>6 DEF scaledWidth, contentWidth, scaledX, isSingleColumn
  <2>2. scaledWidth \in Nat
    BY <1>1, <1>6, <2>1, ColumnsFit
  <2>3. scaledX(0) = 2 * Margin /\ scaledX(1) = 2 * Margin + scaledWidth + 2 * Spacing
    BY <1>1, <2>1, <2>2
  <2>4. \A k \in Column : k = 0 \/ k = 1
    BY <1>6 DEF Column
  <2>5. /\ scaledX(0) + scaledWidth <= 2 * frameWidth /\ scaledX(1) + scaledWidth <= 2 * frameWidth
        /\ scaledX(0) + scaledWidth < scaledX(0 + 1)
    BY <1>1, <2>1, <2>2, <2>3
  <2>. QED
    BY <1>2, <1>3, <1>4, <1>6, <2>2, <2>4, <2>5
<1>7. CASE columns = 3
  <2>1. /\ scaledWidth = frameWidth - 2 * Margin - 2 * Spacing
        /\ \A k : scaledX(k) = 3 * Margin + k * (scaledWidth + 3 * Spacing)
    BY <1>1, <1>7 DEF scaledWidth, contentWidth, scaledX, isSingleColumn
  <2>2. scaledWidth \in Nat
    BY <1>1, <1>7, <2>1, ColumnsFit
  <2>3. /\ scaledX(0) = 3 * Margin /\ scaledX(1) = 3 * Margin + scaledWidth + 3 * Spacing
        /\ scaledX(2) = 3 * Margin + 2 * scaledWidth + 6 * Spacing
    BY <1>1, <2>1, <2>2
  <2>4. \A k \in Column : k = 0 \/ k = 1 \/ k = 2
    BY <1>7 DEF Column
  <2>5. /\ scaledX(0) + scaledWidth <= 3 * frameWidth /\ scaledX(1) + scaledWidth <= 3 * frameWidth
        /\ scaledX(2) + scaledWidth <= 3 * frameWidth
        /\ scaledX(0) + scaledWidth < scaledX(0 + 1) /\ scaledX(1) + scaledWidth < scaledX(1 + 1)
    BY <1>1, <2>1, <2>2, <2>3
  <2>6. ~(2 < columns - 1)
    BY <1>7
  <2>. QED
    BY <1>2, <1>3, <1>4, <1>7, <2>2, <2>4, <2>5, <2>6
<1>. QED
  BY <1>2, <1>5, <1>6, <1>7

\* An item fits in its column.
LEMMA ItemFits ==
    ASSUME frameWidth \in Widths, columns > 0, NEW s \in Sizes
    PROVE  /\ itemSize(s) \in [width: Nat, height: Nat]
           /\ itemSize(s).width = scaledWidth \div columns
<1>1. s.width \in Nat \ {0} /\ s.height \in Nat
  BY LayoutConstants
<1>2. scaledWidth \in Nat /\ columns \in Nat \ {0}
  BY ColumnPlaces
<1>3. s.height * scaledWidth \in Nat /\ columns * s.width \in Nat \ {0}
  BY <1>1, <1>2
<1>4. scaledWidth \div columns \in Nat /\ (s.height * scaledWidth) \div (columns * s.width) \in Nat
  BY <1>2, <1>3, Quotient
<1>. QED
  BY <1>4 DEF itemSize

\* The shortest and the tallest of at most three columns.
LEMMA NextColumn ==
    ASSUME frameWidth \in Widths, columns > 0, columnHeights \in [Column -> Nat]
    PROVE  /\ indexOfNextColumn \in Column
           /\ \A c \in Column : columnHeights[indexOfNextColumn] <= columnHeights[c]
<1> DEFINE S == {k \in Column : \A c \in Column : columnHeights[k] <= columnHeights[c]}
<1>1. Column = 0 .. 0 \/ Column = 0 .. 1 \/ Column = 0 .. 2
  BY ColumnPlaces DEF Column
<1>2. \E k \in S : \A l \in S : k <= l
  <2>1. CASE Column = 0 .. 0
    BY <2>1
  <2>2. CASE Column = 0 .. 1
    <3>1. columnHeights[0] \in Nat /\ columnHeights[1] \in Nat /\ \A k \in Column : k = 0 \/ k = 1
      BY <2>2
    <3>. QED
      BY <2>2, <3>1
  <2>3. CASE Column = 0 .. 2
    <3>1. /\ columnHeights[0] \in Nat /\ columnHeights[1] \in Nat /\ columnHeights[2] \in Nat
          /\ \A k \in Column : k = 0 \/ k = 1 \/ k = 2
      BY <2>3
    <3>. QED
      BY <2>3, <3>1
  <2>. QED
    BY <1>1, <2>1, <2>2, <2>3
<1>3. indexOfNextColumn \in S
  BY <1>2 DEF indexOfNextColumn, Min
<1>. QED
  BY <1>3

LEMMA TallestColumn ==
    ASSUME frameWidth \in Widths, columns > 0, columnHeights \in [Column -> Nat]
    PROVE  Tallest \in Nat /\ \A c \in Column : columnHeights[c] <= Tallest
<1> DEFINE S == {columnHeights[k] : k \in Column}
<1>1. Column = 0 .. 0 \/ Column = 0 .. 1 \/ Column = 0 .. 2
  BY ColumnPlaces DEF Column
<1>2. \E k \in Column : \A c \in Column : columnHeights[k] >= columnHeights[c]
  <2>1. CASE Column = 0 .. 0
    BY <2>1
  <2>2. CASE Column = 0 .. 1
    <3>1. columnHeights[0] \in Nat /\ columnHeights[1] \in Nat /\ \A k \in Column : k = 0 \/ k = 1
      BY <2>2
    <3>. QED
      BY <2>2, <3>1
  <2>3. CASE Column = 0 .. 2
    <3>1. /\ columnHeights[0] \in Nat /\ columnHeights[1] \in Nat /\ columnHeights[2] \in Nat
          /\ \A k \in Column : k = 0 \/ k = 1 \/ k = 2
      BY <2>3
    <3>. QED
      BY <2>3, <3>1
  <2>. QED
    BY <1>1, <2>1, <2>2, <2>3
<1>3. \E x \in S : \A y \in S : x >= y
  BY <1>2
<1>4. Tallest \in S /\ \A y \in S : Tallest >= y
  BY <1>3 DEF Tallest, Max
<1>. QED
  BY <1>4

----------------------------------------------------------------------------
(* The layout *)

\* What prepare's loop maintains: a column is filled from the top without
\* gaps, and no column ends above the top of an item that was placed.
Stacked ==
    Laid =>
        /\ columnHeights \in [Column -> Nat]
        /\ \A i \in DOMAIN frames :
              /\ frames[i].column \in Column
              /\ frames[i].width = scaledWidth \div columns
              /\ frames[i].y + frames[i].height + itemSpacing <= columnHeights[frames[i].column]
              /\ \A k \in Column : frames[i].y <= columnHeights[k]
        /\ \A i, j \in DOMAIN frames :
              i < j /\ frames[i].column = frames[j].column =>
                  frames[i].y + frames[i].height + itemSpacing <= frames[j].y

\* A layout without a column has no frames.
NarrowIsEmpty == phase = "ready" /\ frames # <<>> => columns > 0

Layout ==
    /\ TypeOK
    /\ NarrowIsEmpty
    /\ phase = "placing" => columns > 0 /\ Len(frames) <= Len(items)
    /\ Stacked
    /\ FramesInReadingOrder
    /\ ColumnsBalanced
    /\ ContentHoldsAll
    /\ ItemsHaveAttributes

LEMMA LayoutInit == Init => Layout
<1> SUFFICES ASSUME Init PROVE Layout
  OBVIOUS
<1>1. TypeOK
  BY DEF Init, TypeOK
<1>2. ~Laid /\ phase = "invalid"
  BY DEF Init, Laid
<1>. QED
  BY <1>1, <1>2 DEF Layout, NarrowIsEmpty, Stacked, FramesInReadingOrder, ColumnsBalanced,
                    ContentHoldsAll, ItemsHaveAttributes

\* A step that asks for a new layout.
LEMMA Invalidated == ASSUME TypeOK', phase' = "invalid" PROVE Layout'
  BY DEF Layout, NarrowIsEmpty, Stacked, FramesInReadingOrder, ColumnsBalanced, ContentHoldsAll,
         ItemsHaveAttributes, Laid

LEMMA LayoutNext == Layout /\ [Next]_vars => Layout'
<1> SUFFICES ASSUME Layout, [Next]_vars PROVE Layout'
  OBVIOUS
<1>. /\ frameWidth \in Widths /\ items \in Seq(Sizes) /\ frames \in Seq(Frame)
     /\ contentHeight \in Nat /\ pagingY \in Nat \cup {-1}
     /\ phase \in {"invalid", "placing", "ready"}
     /\ TopInset \in Nat /\ PagingHeight \in Nat
  BY LayoutConstants DEF Layout, TypeOK
<1>1. CASE changeItems
  <2>1. items' \in Seq(Sizes)
    <3>1. CASE \E s \in Sizes : items' = Append(items, s)
      BY <3>1
    <3>2. ASSUME NEW i \in DOMAIN items, items' = SubSeq(items, 1, i - 1) \o SubSeq(items, i + 1, Len(items))
          PROVE  items' \in Seq(Sizes)
      <4>1. SubSeq(items, 1, i - 1) \in Seq(Sizes) /\ SubSeq(items, i + 1, Len(items)) \in Seq(Sizes)
        OBVIOUS
      <4>. QED
        BY <3>2, <4>1
    <3>. QED
      BY <1>1, <3>1, <3>2 DEF changeItems
  <2>2. phase' = "invalid" /\ UNCHANGED <<frameWidth, frames, contentHeight, pagingY>>
    BY <1>1 DEF changeItems, layout
  <2>3. TypeOK'
    BY <2>1, <2>2 DEF TypeOK
  <2>. QED
    BY <2>2, <2>3, Invalidated
<1>2. CASE changeWidth
  <2>1. frameWidth' \in Widths /\ phase' = "invalid" /\ UNCHANGED <<items, frames, contentHeight, pagingY>>
    BY <1>2 DEF changeWidth, layout
  <2>2. TypeOK'
    BY <2>1 DEF TypeOK
  <2>. QED
    BY <2>1, <2>2, Invalidated
<1>3. CASE prepare
  <2>1. /\ frames' = <<>> /\ contentHeight' = 0 /\ pagingY' = -1
        /\ columnHeights' = [k \in Column |-> TopInset]
        /\ phase' = IF columns > 0 THEN "placing" ELSE "ready"
        /\ UNCHANGED <<frameWidth, items>>
    BY <1>3 DEF prepare
  <2>2. /\ columns' = columns /\ Column' = Column /\ itemSpacing' = itemSpacing /\ scaledWidth' = scaledWidth
    BY <2>1 DEF columns, Column, itemSpacing, scaledWidth, contentWidth, isSingleColumn
  <2>3. columns \in 0 .. 3 /\ (columns = 0 => frameWidth < MinWidth + 2 * Spacing)
    BY ColumnsFit
  <2>4. columns > 0 => Column \subseteq 0 .. 2
    BY ColumnPlaces
  <2>5. TypeOK'
    BY <2>1, <2>2, <2>4 DEF TypeOK
  <2>6. Stacked' /\ FramesInReadingOrder' /\ ContentHoldsAll'
    BY <2>1, <2>2 DEF Stacked, FramesInReadingOrder, ContentHoldsAll
  <2>7. ColumnsBalanced'
    BY <2>1, <2>2 DEF ColumnsBalanced
  <2>8. ItemsHaveAttributes'
    BY <2>1, <2>3 DEF ItemsHaveAttributes
  <2>9. NarrowIsEmpty'
    BY <2>1 DEF NarrowIsEmpty
  <2>. QED
    BY <2>1, <2>2, <2>5, <2>6, <2>7, <2>8, <2>9 DEF Layout
<1>4. CASE placeItem
  <2> DEFINE m == indexOfNextColumn
             n == Len(frames) + 1
             size == itemSize(items[n])
             y == columnHeights[m]
             f == [column |-> m, y |-> y, width |-> size.width, height |-> size.height]
  <2>1. /\ phase = "placing" /\ Len(frames) < Len(items)
        /\ frames' = Append(frames, f)
        /\ columnHeights' = [columnHeights EXCEPT ![m] = y + size.height + itemSpacing]
        /\ UNCHANGED <<frameWidth, items, phase, contentHeight, pagingY>>
    BY <1>4 DEF placeItem
  <2>2. columns' = columns /\ Column' = Column /\ itemSpacing' = itemSpacing /\ scaledWidth' = scaledWidth
    BY <2>1 DEF columns, Column, itemSpacing, scaledWidth, contentWidth, isSingleColumn
  <2>3. columns > 0 /\ Laid
    BY <2>1 DEF Layout, Laid
  <2>4. /\ Column \subseteq 0 .. 2 /\ itemSpacing \in Nat \ {0}
        /\ columnHeights \in [Column -> Nat]
    BY <2>3, ColumnPlaces DEF Layout, Stacked
  <2>5. m \in Column /\ y \in Nat /\ \A c \in Column : y <= columnHeights[c]
    BY <2>3, <2>4, NextColumn
  <2>6. items[n] \in Sizes
    BY <2>1
  <2>7. size.width \in Nat /\ size.height \in Nat /\ size.width = scaledWidth \div columns
    BY <2>3, <2>6, ItemFits
  <2> HIDE DEF m, size
  <2>8. /\ f \in Frame /\ f.column = m /\ f.y = y /\ f.height = size.height
        /\ f.width = scaledWidth \div columns
    BY <2>4, <2>5, <2>7 DEF Frame
  <2> HIDE DEF y, f
  <2>9. /\ columnHeights' \in [Column -> Nat]
        /\ columnHeights'[m] = y + size.height + itemSpacing
        /\ \A c \in Column \ {m} : columnHeights'[c] = columnHeights[c]
    BY <2>1, <2>4, <2>5, <2>7
  <2>10. \A c \in Column : columnHeights[c] <= columnHeights'[c] /\ y <= columnHeights'[c]
    BY <2>4, <2>5, <2>7, <2>9 DEF y
  <2>11. /\ frames' \in Seq(Frame) /\ DOMAIN frames' = 1 .. n /\ Len(frames') = n
         /\ \A i \in DOMAIN frames : frames'[i] = frames[i] /\ i \in DOMAIN frames' /\ i < n
         /\ \A i \in DOMAIN frames' : i \in DOMAIN frames \/ i = n
         /\ frames'[n] = f /\ n \in DOMAIN frames'
    BY <2>1, <2>8
  <2>12. \A i \in DOMAIN frames : frames[i].y \in Nat /\ frames[i].height \in Nat /\ frames[i].column \in Column
    <3>1. \A i \in DOMAIN frames : frames[i] \in Frame
      OBVIOUS
    <3>2. \A i \in DOMAIN frames : frames[i].column \in Column
      BY <2>3 DEF Layout, Stacked
    <3>. QED
      BY <3>1, <3>2 DEF Frame
  <2>13. TypeOK'
    BY <2>1, <2>2, <2>4, <2>9, <2>11 DEF TypeOK
  <2>14. Stacked'
    <3>1. \A i \in DOMAIN frames' :
             /\ frames'[i].column \in Column
             /\ frames'[i].width = scaledWidth \div columns
             /\ frames'[i].y + frames'[i].height + itemSpacing <= columnHeights'[frames'[i].column]
             /\ \A k \in Column : frames'[i].y <= columnHeights'[k]
      <4>1. ASSUME NEW i \in DOMAIN frames
            PROVE  /\ frames'[i].column \in Column
                   /\ frames'[i].width = scaledWidth \div columns
                   /\ frames'[i].y + frames'[i].height + itemSpacing <= columnHeights'[frames'[i].column]
                   /\ \A k \in Column : frames'[i].y <= columnHeights'[k]
        <5>1. /\ frames[i].column \in Column
              /\ frames[i].width = scaledWidth \div columns
              /\ frames[i].y + frames[i].height + itemSpacing <= columnHeights[frames[i].column]
              /\ \A k \in Column : frames[i].y <= columnHeights[k]
          BY <2>3 DEF Layout, Stacked
        <5>2. \A k \in Column : columnHeights[k] \in Nat /\ columnHeights'[k] \in Nat
          BY <2>4, <2>9
        <5>3. frames'[i] = frames[i] /\ frames[i].y \in Nat /\ frames[i].height \in Nat
          BY <2>11, <2>12
        <5>4. \A k \in Column : columnHeights[k] <= columnHeights'[k]
          BY <2>10
        <5>5. frames[i].y + frames[i].height + itemSpacing <= columnHeights'[frames[i].column]
          <6> DEFINE a == columnHeights[frames[i].column]
                     b == columnHeights'[frames[i].column]
                     e == frames[i].y + frames[i].height + itemSpacing
          <6>1. a \in Nat /\ b \in Nat /\ a <= b /\ e <= a /\ e \in Nat
            <7>1. a \in Nat /\ b \in Nat
              BY <5>1, <5>2
            <7>2. a <= b
              BY <5>1, <5>4
            <7>3. e <= a
              BY <5>1
            <7>4. e \in Nat
              BY <2>4, <5>3
            <7>. QED
              BY <7>1, <7>2, <7>3, <7>4
          <6> HIDE DEF a, b, e
          <6>2. e <= b
            BY <6>1
          <6>. QED
            BY <6>2 DEF b, e
        <5>6. \A k \in Column : frames[i].y <= columnHeights'[k]
          BY <5>1, <5>2, <5>3, <5>4
        <5>. QED
          BY <5>1, <5>3, <5>5, <5>6
      <4>2. /\ frames'[n].column \in Column
            /\ frames'[n].width = scaledWidth \div columns
            /\ frames'[n].y + frames'[n].height + itemSpacing <= columnHeights'[frames'[n].column]
            /\ \A k \in Column : frames'[n].y <= columnHeights'[k]
        BY <2>4, <2>5, <2>7, <2>8, <2>9, <2>10, <2>11
      <4>. QED
        BY <2>11, <4>1, <4>2
    <3>2. \A i, j \in DOMAIN frames' :
             i < j /\ frames'[i].column = frames'[j].column =>
                 frames'[i].y + frames'[i].height + itemSpacing <= frames'[j].y
      <4>1. ASSUME NEW i \in DOMAIN frames, frames[i].column = m
            PROVE  frames[i].y + frames[i].height + itemSpacing <= y
        BY <2>3, <4>1 DEF Layout, Stacked, y
      <4>2. ASSUME NEW i \in DOMAIN frames, NEW j \in DOMAIN frames, i < j, frames[i].column = frames[j].column
            PROVE  frames[i].y + frames[i].height + itemSpacing <= frames[j].y
        BY <2>3, <4>2 DEF Layout, Stacked
      <4>3. ASSUME NEW i \in DOMAIN frames', NEW j \in DOMAIN frames', i < j,
                   frames'[i].column = frames'[j].column
            PROVE  frames'[i].y + frames'[i].height + itemSpacing <= frames'[j].y
        <5>1. i \in DOMAIN frames
          BY <2>11, <4>3
        <5>2. CASE j \in DOMAIN frames
          BY <2>11, <4>2, <4>3, <5>1, <5>2
        <5>3. CASE j = n
          BY <2>8, <2>11, <4>1, <4>3, <5>1, <5>3
        <5>. QED
          BY <2>11, <5>2, <5>3
      <4>. QED
        BY <4>3
    <3>. QED
      BY <2>2, <2>9, <3>1, <3>2 DEF Stacked
  <2>15. FramesInReadingOrder'
    <3>1. \A i \in DOMAIN frames : frames[i].y <= y
      BY <2>3, <2>5 DEF Layout, Stacked, y
    <3>2. \A i, j \in DOMAIN frames : i < j => frames[i].y <= frames[j].y
      BY <2>3 DEF Layout, FramesInReadingOrder
    <3>. QED
      BY <2>8, <2>11, <2>12, <3>1, <3>2 DEF FramesInReadingOrder
  <2>16. ColumnsBalanced'
    <3>1. ASSUME NEW k \in Column, NEW c \in Column
          PROVE  \/ columnHeights'[k] <= columnHeights'[c]
                 \/ \E i \in DOMAIN frames' :
                       /\ frames'[i].column = k
                       /\ columnHeights'[k] - columnHeights'[c] <= frames'[i].height + itemSpacing
      <4>1. /\ columnHeights[k] \in Nat /\ columnHeights'[k] \in Nat
            /\ columnHeights[c] \in Nat /\ columnHeights'[c] \in Nat
        BY <2>4, <2>9
      <4>2. CASE k = m
        <5>1. /\ frames'[n].column = k
              /\ columnHeights'[k] - columnHeights'[c] <= frames'[n].height + itemSpacing
          <6>1. frames'[n].column = k /\ frames'[n].height = size.height
            BY <2>8, <2>11, <4>2
          <6>2. columnHeights'[k] = y + size.height + itemSpacing /\ y <= columnHeights'[c]
            BY <2>9, <2>10, <4>2
          <6>3. columnHeights'[k] - columnHeights'[c] <= size.height + itemSpacing
            <7> DEFINE a == columnHeights'[k]
                       b == columnHeights'[c]
                       h == size.height + itemSpacing
            <7>1. a \in Nat /\ b \in Nat /\ h \in Nat /\ y \in Nat
              BY SMTT(30), <2>4, <2>5, <2>7, <4>1
            <7>2. a = y + h
              BY <2>4, <2>5, <2>7, <6>2
            <7>3. y <= b
              BY <6>2
            <7> HIDE DEF a, b, h
            <7>4. a - b <= h
              BY <7>1, <7>2, <7>3
            <7>. QED
              BY <7>4 DEF a, b, h
          <6>. QED
            BY <6>1, <6>3
        <5>. QED
          BY <2>11, <5>1
      <4>3. CASE k # m
        <5>1. columnHeights'[k] = columnHeights[k] /\ columnHeights[c] <= columnHeights'[c]
          BY <2>9, <2>10, <4>3
        <5>2. \/ columnHeights[k] <= columnHeights[c]
              \/ \E i \in DOMAIN frames :
                    /\ frames[i].column = k
                    /\ columnHeights[k] - columnHeights[c] <= frames[i].height + itemSpacing
          BY <2>3 DEF Layout, ColumnsBalanced
        <5>3. CASE columnHeights[k] <= columnHeights[c]
          BY <4>1, <5>1, <5>3
        <5>4. ASSUME NEW i \in DOMAIN frames, frames[i].column = k,
                     columnHeights[k] - columnHeights[c] <= frames[i].height + itemSpacing
              PROVE  /\ i \in DOMAIN frames' /\ frames'[i].column = k
                     /\ columnHeights'[k] - columnHeights'[c] <= frames'[i].height + itemSpacing
          BY SMTT(30), <2>4, <2>11, <2>12, <4>1, <5>1, <5>4
        <5>. QED
          BY <5>2, <5>3, <5>4
      <4>. QED
        BY <4>2, <4>3
    <3>. QED
      BY <2>2, <3>1 DEF ColumnsBalanced
  <2>17. ContentHoldsAll' /\ ItemsHaveAttributes' /\ NarrowIsEmpty'
    BY <2>1 DEF ContentHoldsAll, ItemsHaveAttributes, NarrowIsEmpty
  <2>. QED
    BY <2>1, <2>2, <2>3, <2>11, <2>13, <2>14, <2>15, <2>16, <2>17 DEF Layout
<1>5. CASE endPrepare
  <2>1. /\ phase = "placing" /\ Len(frames) = Len(items) /\ phase' = "ready"
        /\ pagingY' = IF items = <<>> THEN -1 ELSE Tallest
        /\ contentHeight' = Tallest + (IF items = <<>> THEN 0 ELSE PagingHeight) + itemSpacing
        /\ UNCHANGED <<frameWidth, items, frames, columnHeights>>
    BY <1>5 DEF endPrepare
  <2>2. columns' = columns /\ Column' = Column /\ itemSpacing' = itemSpacing /\ scaledWidth' = scaledWidth
    BY <2>1 DEF columns, Column, itemSpacing, scaledWidth, contentWidth, isSingleColumn
  <2>3. columns > 0 /\ Laid
    BY <2>1 DEF Layout, Laid
  <2>4. itemSpacing \in Nat \ {0} /\ columnHeights \in [Column -> Nat]
    BY <2>3, ColumnPlaces DEF Layout, Stacked
  <2>5. Tallest \in Nat /\ \A c \in Column : columnHeights[c] <= Tallest
    BY <2>3, <2>4, TallestColumn
  <2>6. TypeOK'
    BY <2>1, <2>4, <2>5 DEF TypeOK
  <2>7. Stacked' /\ FramesInReadingOrder' /\ ColumnsBalanced'
    BY <2>1, <2>2, <2>3 DEF Layout, Stacked, FramesInReadingOrder, ColumnsBalanced, Laid
  <2>8. ContentHoldsAll'
    <3>1. ASSUME NEW i \in DOMAIN frames
          PROVE  frames[i].y + frames[i].height < pagingY' /\ pagingY' + PagingHeight <= contentHeight'
      <4>1. /\ frames[i].column \in Column /\ frames[i].y \in Nat /\ frames[i].height \in Nat
            /\ frames[i].y + frames[i].height + itemSpacing <= columnHeights[frames[i].column]
        <5>1. frames[i] \in Frame
          OBVIOUS
        <5>2. /\ frames[i].column \in Column
              /\ frames[i].y + frames[i].height + itemSpacing <= columnHeights[frames[i].column]
          BY <2>3 DEF Layout, Stacked
        <5>. QED
          BY <5>1, <5>2 DEF Frame
      <4>2. items # <<>>
        BY <2>1
      <4>3. columnHeights[frames[i].column] \in Nat /\ columnHeights[frames[i].column] <= Tallest
        BY <2>4, <2>5, <4>1
      <4>. QED
        BY <2>1, <2>4, <2>5, <4>1, <4>2, <4>3
    <3>. QED
      BY <2>1, <3>1 DEF ContentHoldsAll
  <2>9. ItemsHaveAttributes' /\ NarrowIsEmpty'
    BY <2>1, <2>2, <2>3 DEF ItemsHaveAttributes, NarrowIsEmpty
  <2>. QED
    BY <2>1, <2>6, <2>7, <2>8, <2>9 DEF Layout
<1>6. CASE UNCHANGED vars
  BY <1>6 DEF vars, Layout, NarrowIsEmpty, TypeOK, Stacked, FramesInReadingOrder, ColumnsBalanced, ContentHoldsAll,
              ItemsHaveAttributes, Laid, Column, columns, itemSpacing, isSingleColumn, scaledWidth,
              contentWidth
<1>. QED
  BY <1>1, <1>2, <1>3, <1>4, <1>5, <1>6 DEF Next

----------------------------------------------------------------------------
(* What is asked of every layout *)

LEMMA LayoutHolds == Spec => []Layout
<1>. QED
  BY LayoutInit, LayoutNext, PTL DEF Spec

\* A column is a fraction of the screen's width and the photo in it is no
\* wider, whatever the division leaves.
LEMMA FramesStayApart == Layout => FramesApart
<1> SUFFICES ASSUME Layout, Laid PROVE FramesApart
  BY DEF FramesApart
<1>1. /\ frameWidth \in Widths /\ columns > 0 /\ frames \in Seq(Frame)
      /\ \A i \in DOMAIN frames : frames[i].column \in Column
      /\ \A i \in DOMAIN frames : frames[i].width = scaledWidth \div columns
      /\ \A i, j \in DOMAIN frames :
            i < j /\ frames[i].column = frames[j].column =>
                frames[i].y + frames[i].height + itemSpacing <= frames[j].y
  BY DEF Layout, TypeOK, Stacked, Laid
<1>2. /\ columns \in 1 .. 3 /\ Column \subseteq 0 .. 2
      /\ scaledWidth \in Nat
      /\ \A k \in Column :
            /\ scaledX(k) + scaledWidth <= columns * frameWidth
            /\ k < columns - 1 => scaledX(k) + scaledWidth < scaledX(k + 1)
  BY <1>1, ColumnPlaces
<1>3. frameWidth \in Nat
  BY <1>1, LayoutConstants
<1>4. ASSUME NEW k \in Column
      PROVE  scaledX(k) \in Int /\ scaledX(k + 1) \in Int
  <2>1. k \in Nat /\ Spacing \in Nat /\ Margin \in Nat
    BY <1>2, LayoutConstants
  <2>. QED
    BY <1>2, <2>1 DEF scaledX
<1>5. ASSUME NEW i \in DOMAIN frames
      PROVE  LET right == scaledX(frames[i].column) + columns * frames[i].width
             IN  /\ right <= columns * frameWidth
                 /\ frames[i].column < columns - 1 => right < scaledX(frames[i].column + 1)
  <2>1. PICK k \in Column : k = frames[i].column
    BY <1>1
  <2>2. PICK w \in Nat : w = scaledWidth \div columns /\ w * columns <= scaledWidth
    BY <1>2, Quotient
  <2>3. frames[i].width = w
    BY <1>1, <2>2
  <2>4. scaledX(k) \in Int /\ scaledX(k + 1) \in Int
    BY <1>4
  <2>5. columns * w \in Nat /\ columns * w <= scaledWidth
    BY <1>2, <2>2
  <2>6. columns * frameWidth \in Nat
    BY <1>2, <1>3
  <2>7. scaledX(k) + columns * w <= scaledX(k) + scaledWidth
    BY <1>2, <2>4, <2>5
  <2>8. scaledX(k) + columns * w <= columns * frameWidth
    BY <1>2, <2>4, <2>5, <2>6, <2>7
  <2>9. k < columns - 1 => scaledX(k) + columns * w < scaledX(k + 1)
    BY <1>2, <2>4, <2>5, <2>7
  <2>. QED
    BY <2>1, <2>3, <2>8, <2>9
<1>. QED
  BY <1>1, <1>5 DEF FramesApart

\* prepare() lays the photos out apart, on the screen, and in the content:
\* what WaterfallLayout.cfg checks as PhotosFit.
THEOREM PhotosAlwaysFit == Spec => []PhotosFit
<1>1. Layout => PhotosFit
  BY FramesStayApart DEF Layout, PhotosFit
<1>. QED
  BY <1>1, LayoutHolds, PTL

\* Photos keep the order of the feed from top to bottom.
THEOREM PhotosInReadingOrder == Spec => []FramesInReadingOrder
<1>1. Layout => FramesInReadingOrder
  BY DEF Layout
<1>. QED
  BY <1>1, LayoutHolds, PTL

\* indexOfNextColumn keeps the columns' ends within an item of each other.
THEOREM Balanced == Spec => []ColumnsBalanced
<1>1. Layout => ColumnsBalanced
  BY DEF Layout
<1>. QED
  BY <1>1, LayoutHolds, PTL

\* layoutAttributesForItem finds the attributes of every item of the data
\* source, on a screen wide enough for a column.
THEOREM AttributesForItems == Spec => []ItemsHaveAttributes
<1>1. Layout => ItemsHaveAttributes
  BY DEF Layout
<1>. QED
  BY <1>1, LayoutHolds, PTL

----------------------------------------------------------------------------
(* layoutAttributesForElements *)

\* A set of naturals has a least element: the one with the least initial
\* segment for inclusion, which is a well-founded order on finite sets.
LEMMA LeastNatural ==
    ASSUME NEW T \in SUBSET Nat, T # {}
    PROVE  \E x \in T : \A y \in T : x <= y
<1> DEFINE Segments == {0 .. n : n \in T}
<1>1. Segments \subseteq FiniteSubsetsOf(Nat) /\ Segments # {}
  <2>1. ASSUME NEW n \in T PROVE 0 .. n \in SUBSET Nat /\ IsFiniteSet(0 .. n)
    <3>1. 0 \in Int /\ n \in Int
      OBVIOUS
    <3>. QED
      BY <3>1, FS_Interval
  <2>. QED
    BY <2>1 DEF FiniteSubsetsOf
<1>2. PICK B \in Segments : \A C \in Segments : ~ (<<C, B>> \in StrictSubsetOrdering(Nat))
  BY <1>1, FS_StrictSubsetOrderingWellFounded, WFMin
<1>3. PICK x \in T : B = 0 .. x
  OBVIOUS
<1>4. ASSUME NEW y \in T, y < x PROVE FALSE
  <2>1. 0 .. y \subseteq 0 .. x /\ x \in 0 .. x /\ x \notin 0 .. y
    BY <1>4
  <2>2. <<0 .. y, B>> \in StrictSubsetOrdering(Nat)
    BY <1>3, <2>1 DEF StrictSubsetOrdering
  <2>. QED
    BY <1>2, <2>2
<1>. QED
  BY <1>4

LEMMA LeastAndGreatest ==
    ASSUME NEW n \in Nat, NEW T \in SUBSET (1 .. n), T # {}
    PROVE  Min(T) \in T /\ Max(T) \in T
<1>1. \E x \in T : \A y \in T : x <= y
  BY LeastNatural
<1>2. \E x \in T : \A y \in T : x >= y
  <2> DEFINE U == {n - i : i \in T}
  <2>1. U \in SUBSET Nat /\ U # {}
    <3>1. \A i \in T : i \in Nat /\ i <= n
      OBVIOUS
    <3>2. \A i \in T : n - i \in Nat
      BY <3>1
    <3>3. \E i \in T : n - i \in U
      OBVIOUS
    <3>. QED
      BY <3>2, <3>3
  <2>2. PICK u \in U : \A v \in U : u <= v
    BY <2>1, LeastNatural
  <2>3. PICK x \in T : u = n - x
    OBVIOUS
  <2>4. ASSUME NEW y \in T PROVE x >= y
    <3>1. n - x <= n - y
      BY <2>2, <2>3
    <3>. QED
      BY <3>1
  <2>. QED
    BY <2>4
<1>3. Min(T) \in T /\ \A y \in T : Min(T) <= y
  BY <1>1 DEF Min
<1>4. Max(T) \in T /\ \A y \in T : Max(T) >= y
  BY <1>2 DEF Max
<1>. QED
  BY <1>3, <1>4

\* Of the photos that do not meet the rect, layoutAttributesForElements returns
\* none from below it, in every layout that is ready, because the photos are in
\* reading order.
THEOREM OnlyPhotosAboveAreExtra == Spec => []ExtraElementsLieAbove
<1>1. Layout => ExtraElementsLieAbove
  <2> SUFFICES ASSUME Layout PROVE ExtraElementsLieAbove
    OBVIOUS
  <2> SUFFICES ASSUME phase = "ready",
                      NEW y1 \in Nat, NEW y2 \in Nat, Hits(y1, y2) # {},
                      NEW i \in layoutAttributesForElements(y1, y2) \ Hits(y1, y2)
               PROVE  /\ frames[i].y + frames[i].height <= y1
                      /\ frames[Min(Hits(y1, y2))].y <= frames[i].y
    <3>1. frames \in Seq(Frame)
      BY DEF Layout, TypeOK
    <3>2. \A k \in DOMAIN frames : frames[k] \in Frame
      BY <3>1
    <3>3. \A k \in DOMAIN frames : frames[k].y \in Nat /\ frames[k].y + frames[k].height \in Nat
      BY <3>2 DEF Frame
    <3>. QED
      BY <3>3 DEF ExtraElementsLieAbove
  <2> DEFINE first == Min(Hits(y1, y2))
             last == Max(Hits(y1, y2))
  <2>1. frames \in Seq(Frame) /\ Len(frames) \in Nat /\ DOMAIN frames = 1 .. Len(frames)
    BY DEF Layout, TypeOK
  <2>2. Hits(y1, y2) \in SUBSET (1 .. Len(frames))
    BY <2>1 DEF Hits
  <2>3. first \in Hits(y1, y2) /\ last \in Hits(y1, y2)
    BY <2>1, <2>2, LeastAndGreatest
  <2>4. i \in first .. last /\ i \notin Hits(y1, y2)
    BY DEF layoutAttributesForElements
  <2> HIDE DEF first, last
  <2>5. i \in DOMAIN frames /\ first \in DOMAIN frames /\ last \in DOMAIN frames /\ first < i /\ i < last
    BY <2>1, <2>2, <2>3, <2>4
  <2>6. columns > 0
    BY <2>1, <2>5 DEF Layout, NarrowIsEmpty
  <2>7. frames[first].y <= frames[i].y /\ frames[i].y <= frames[last].y
    BY <2>5, <2>6 DEF Layout, FramesInReadingOrder, Laid
  <2>8. frames[last].y < y2 /\ ~(frames[i].y < y2 /\ y1 < frames[i].y + frames[i].height)
    BY <2>3, <2>4, <2>5 DEF Hits, Intersects
  <2>9. /\ frames[i].y \in Nat /\ frames[i].height \in Nat /\ frames[last].y \in Nat
    <3>1. frames[i] \in Frame /\ frames[last] \in Frame
      BY <2>1, <2>5
    <3>. QED
      BY <3>1 DEF Frame
  <2>. QED
    BY <2>7, <2>8, <2>9 DEF first
<1>. QED
  BY <1>1, LayoutHolds, PTL
==============================================================================
