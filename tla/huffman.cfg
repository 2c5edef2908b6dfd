SPECIFICATION MergeSpec
CONSTANTS
    Frequencies <- MCFrequencies
    MaxBits = {2, 3, 4}
INVARIANTS
    WithinPool
    CheapestCode
