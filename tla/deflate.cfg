SPECIFICATION Spec
CONSTANTS
    MasterBlockSize = 5
    MaxCompressionWorkers = 3
    StoredMax = 2
    Inputs <- DeflateInputs
    Calls <- DeflateCalls
    Parse <- MCParse
    FixedParse <- MCFixedParse
    Stores <- MCStores
    BlockSplit <- MCBlockSplit
    BlockSplitLZ77 <- MCBlockSplitLZ77
    Cheaper <- MCCheaper
    Cheapest <- MCCheapest
INVARIANTS
    OneFinalBlock
    MatchesSerial
    WriteAfterWait
    AnalysisBound
    ScratchIsOwn
    JoinAfterDrain
PROPERTIES
    Terminates
    ImplementsStream
