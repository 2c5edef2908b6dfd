SPECIFICATION Spec
CONSTANTS
    Paths <- MCPaths
    Dirs <- MCDirs
    Listing <- MCListing
    Root <- MCRoot
    Rank <- MCRank
    EndsInGz <- MCEndsInGz
    Output <- MCOutput
    Matches <- MCMatches
    Contents <- MCContents
    Torn <- MCTorn
    None <- MCNone
    NoPath <- MCNoPath
    Gzip <- MCGzip
    Shrinks <- MCShrinks
    FileSystems <- MCFileSystems
    Commands <- AllCommands
    GOMAXPROCS = 3
    MaxCompressionWorkers = 4
    MaxCrashes <- MCMaxCrashes
    MaxLost <- MCMaxLost
INVARIANTS
    TypeOK
    OneWorkerPerFile
    NoneLost
    FanOut
    SuccessIsServed
    SameOutcome
PROPERTIES
    Terminates
