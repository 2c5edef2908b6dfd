\* A store is not used any longer once it is full.
CHECK_DEADLOCK FALSE
SPECIFICATION Spec
CONSTANTS
    NumLL = 3
    NumD = 2
    Literals = {0}
    Lengths = {4}
    Dists = {1, 2}
    LengthSymbol <- MCLengthSymbol
    DistSymbol <- MCDistSymbol
    MaxTokens = 10
    MaxAppended = 2
INVARIANTS
    HistogramExact
    BytesExact
