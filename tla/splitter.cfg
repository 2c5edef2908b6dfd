SPECIFICATION SplitterSpec
CONSTANTS
    Sizes = {2, 8, 9}
    Costs <- MCCosts
    Limits = {0, 1, 2, 3, 9}
    MinSplit = 3
    Linear = 5
    Samples = 2
    LargeFloat = 100
    TokenBytes <- MCTokenBytes
INVARIANTS
    PointsInOrder
    NothingLeft
PROPERTIES
    Returns
