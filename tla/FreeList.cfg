SPECIFICATION MCSpec
CONSTANTS
    Words = 13
    Max = 5
    NumSmall = 2
    FlpMax = 2
    Chunks <- MCChunks
    Sizes <- MCSizes
    Cycles = 1
    CustomSizes <- MCCustom
    MaxHeld = 4
INVARIANTS
    HeapConsistent
    NoFitOnlyWhenNone
    Coalesced
    TreeSound
PROPERTIES
    StoreSpec
CHECK_DEADLOCK FALSE
