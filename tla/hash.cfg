SPECIFICATION Spec
CONSTANTS
    WindowSize = 8
    MinMatch = 3
    MaxMatch = 5
    HashShift = 1
    HashMask = 7
    SameMask = 3
    SameMax = 11
    BitXor <- MCXor
    ChainHits = {2, 8}
    Inputs <- MCInputs
INVARIANTS
    ProbesAreAlike
    MatchesAreReal
    FindsNearest
    LimitedAgrees
