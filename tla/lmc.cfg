\* The user of a cache stops after its last block.
CHECK_DEADLOCK FALSE
SPECIFICATION Spec
CONSTANTS
    MinMatch = 3
    MaxMatch = 5
    CacheLength = 2
    MinCapacity = 2
    Blocks <- MCBlocks
    Size <- MCSize
    Found <- MCFound
    Same <- MCSame
    Budgets <- MCBudgets
    MaxSize = 5
    MaxBlocks = 2
INVARIANTS
    AnswersAreFound
    WithinBudget
    NoOrphanRuns
    BuiltOrFull
