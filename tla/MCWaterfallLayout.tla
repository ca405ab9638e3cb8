------------------------- MODULE MCWaterfallLayout -------------------------
(* Model-checking instance of WaterfallLayout. *)
EXTENDS WaterfallLayout

\* Frames with room for no column, one, two and five: the last is given three.
FrameWidths == {181, 320, 375, 1000}

\* A portrait, a panorama lower than a point in a narrow column, and the 1 by 1
\* of a record without size.
PhotoSizes == {[width |-> 3000, height |-> 4000], [width |-> 50000, height |-> 100],
               [width |-> 1, height |-> 1]}
============================================================================
