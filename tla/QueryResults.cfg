SPECIFICATION Spec
CONSTANTS
    Unknown = 30
    Rows = {r1, r2, r3, r4}
    MaxLength = 4
    MaxInstructions = 3
INVARIANTS
    ReportProducesNewResults
    ReportedModificationsAreRight
    LongestBlockStays
SYMMETRY Symmetry
