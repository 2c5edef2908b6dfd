SPECIFICATION Spec
CONSTANTS
    Blocks <- MCBlocks
    ShortRange = 8
    SmallStore = 6
INVARIANTS
    BlockIsRead
    CostIsWritten
