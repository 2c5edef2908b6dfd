SPECIFICATION LoopSpec
CONSTANTS
    Iterations = {1, 2, 9}
    Costs = {10, 11, 12}
    LargeFloat = 1000
    Settled = 5
INVARIANTS
    StoreIsBest
PROPERTIES
    KeepsCheapest
