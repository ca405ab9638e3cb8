SPECIFICATION Spec
CONSTANTS
    Ops = {o1, o2, o3, o4}
    PerPage = 2
    FullPages = 2
    Remainder = 1
    Prefetch = 1
    MaxAppears = 1
    MaxBlocks = 2
SYMMETRY Symmetric
INVARIANT
    ServerErrorMeansAFailedRequest
CHECK_DEADLOCK FALSE
