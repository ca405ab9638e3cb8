SPECIFICATION Spec
CONSTANTS
    MaxSize = 2
    MaxIndex = 8
    Arguments <- SmallSets
INVARIANTS
    HoldsItsIndices
    LookupsAreRight
