\* A miner, a follower and a node that does both, with crashes between writes.
CONSTANTS
    GenesisOutputs <- MCGenesisOutputs
    InitialDifficulty = 2
    BlockGap = 5
    Modes <- MCModes
    MaxInFlight = 1
    MaxBlocks = 3
    MaxTransactions = 1
    MaxCrashes = 2
    TargetBlockTime = 10
    AdjustmentPeriod = 2
    MaxDifficultyRatio = 4
    MinDifficulty = 1
    MaxDifficulty = 8
SPECIFICATION Spec
INVARIANTS
    AckedBlocksSurvive
    StoreSound
