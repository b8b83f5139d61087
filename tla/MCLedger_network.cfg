\* Two nodes, transactions and blocks delivered late, repeatedly and out of order,
\* a retarget at every second block.
CONSTANTS
    n1 = n1
    n2 = n2
    alice = alice
    bob = bob
    Nodes = {n1, n2}
    Addresses = {alice, bob}
    Genesis <- MCGenesis
    InitialDifficulty = 2
    MiningReward = 10000
    Amounts <- MCAmountsOne
    BlockGaps <- MCRetargetGaps
    MinesEmptyBlocks = TRUE
    OneSpendAtATime = FALSE
    MaxTransactions = 1
    MaxBlocks = 4
    TargetBlockTime = 10
    AdjustmentPeriod = 2
    MaxDifficultyRatio = 4
    MinDifficulty = 1
    MaxDifficulty = 4
SPECIFICATION Spec
SYMMETRY Symmetry
INVARIANTS
    ChainsSound
    PeersAgreeOnDifficulty
    ConsumedOutputsGone
    SharedHistory
PROPERTIES
    NoTransactionDropped
CHECK_DEADLOCK FALSE
