SPECIFICATION FairSpec
CONSTANTS
    r1 = r1
    r2 = r2
    x1 = x1
    Photos = {r1, r2, x1}
    Source <- OneBare
    NoPhoto = NoPhoto
    Cells = {c1}
    Tasks = {t1, t2, t3}
    NoTask = NoTask
    MaxBlocks = 2
PROPERTY
    ImageArrives
CHECK_DEADLOCK FALSE
