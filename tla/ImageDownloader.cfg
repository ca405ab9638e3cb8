SPECIFICATION Spec
CONSTANTS
    r1 = r1
    r2 = r2
    x1 = x1
    Photos = {r1, r2, x1}
    Source <- OneLocal
    NoPhoto = NoPhoto
    Cells = {c1, c2}
    Tasks = {t1, t2, t3}
    NoTask = NoTask
    MaxBlocks = 2
SYMMETRY Symmetric
INVARIANTS
    OneTaskPerCell
    EmptyCellHasReason
    WrongImageHasReason
CHECK_DEADLOCK FALSE
