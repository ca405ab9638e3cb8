SPECIFICATION FairSpec
CONSTANTS
    Ops = {o1, o2, o3}
    PerPage = 2
    FullPages = 2
    Remainder = 1
    Prefetch = 1
    MaxAppears = 2
    MaxBlocks = 2
INVARIANTS
    NoSkippedPage
    FeedInOrder
    FlagIsARequest
    EndIsReal
    InsertIsConsistent
    SpinnerHasReason
PROPERTIES
    FetchEnds
    SpinnerStops
CHECK_DEADLOCK FALSE
