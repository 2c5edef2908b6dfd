SPECIFICATION Spec
CONSTANTS
    MinMatch = 3
    MaxMatch = 5
    CacheLength = 2
    LargeFloat = 100000
    MaxCost = 20
    SymbolEnd <- MCSymbolEnd
    Blocks <- MCBlocks
INVARIANTS
    CheapestParse
    StoreHasItsCost
