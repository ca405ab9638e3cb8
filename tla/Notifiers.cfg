SPECIFICATION FairSpec
CONSTANTS
    MaxVersion = 4
    MaxTokens = 2
INVARIANTS
    KnowsTheListItSees
    NothingIsLostOrRepeated
PROPERTY
    ChangesArrive
CHECK_DEADLOCK FALSE
