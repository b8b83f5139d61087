\* Two nodes with the same chain and their UTXO sets.
CONSTANTS
    n1 = n1
    n2 = n2
    alice = alice
    bob = bob
    Nodes = {n1, n2}
    Addresses = {alice, bob}
    Genesis <- MCGenesis
    InitialDifficulty = 2
    MiningReward = 10000
    Amounts <- MCAmountsOne
    BlockGaps <- MCGaps
    MinesEmptyBlocks = FALSE
    OneSpendAtATime = TRUE
    MaxTransactions = 1
    MaxBlocks = 1
    TargetBlockTime = 10
    AdjustmentPeriod = 10
    MaxDifficultyRatio = 4
    MinDifficulty = 1
    MaxDifficulty = 4
SPECIFICATION Spec
INVARIANTS
    SameChainSameUTXOs
CHECK_DEADLOCK FALSE
