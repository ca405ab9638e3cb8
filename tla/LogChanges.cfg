SPECIFICATION Spec
CONSTANTS
    Unknown = 30
    e1 = e1
    e2 = e2
    e3 = e3
    e4 = e4
    e5 = e5
    e6 = e6
    Entries <- SixEntries
    Observed <- TwoLists
    MaxLength <- Lengths
    MaxLogs <- Logs
    MaxInstructions <- Instructions
INVARIANTS
    ChangesExplain
    EntriesAreTraced
    RowsAreFound
    ModificationsAreMarked
    ListsAreTracked
CHECK_DEADLOCK FALSE
