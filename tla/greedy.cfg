SPECIFICATION Spec
CONSTANTS
    MinMatch = 3
    MaxMatch = 6
    Far = 2
    Sizes = {0, 2, 3, 7}
    Finds <- MCFinds
INVARIANTS
    Tiled
    MatchesAreFound
    GivenUpForBetter
PROPERTIES
    ParsesAll
