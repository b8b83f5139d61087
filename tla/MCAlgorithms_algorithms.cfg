CONSTANTS
    TargetBlockTime = 4
    AdjustmentPeriod = 3
    MaxDifficultyRatio = 4
    MinDifficulty = 1
    MaxDifficulty = 40
    Gaps <- MCGaps
    InitialRange <- MCInitial
    MaxHeight = 6
    Values <- MCValues
    Amounts <- MCAmounts
    MaxReceived = 4
    MaxPayments = 2
    MaxDictionarySize = 3
    ScriptModulus = 4
    MaxPatternLength = 3
    MaxLength = 6
    MaxBlock = 17
    Samples <- MCSamples
    RecentTransactions <- MCRecentTransactions
    DictionaryIds = {"default", "other"}
    Configs <- MCConfigs
    CacheSize = 1
    MaxDictionaries = 1
    MaxVersion = 2
    ManyCharacters = 3
    LargeBlock = 3
    HashesOf <- MCHashesOf
    SyncPeers <- MCSyncPeers
    MaxPoolConnections = 2
SPECIFICATION AlgorithmsSpec
INVARIANTS
    DifficultyInRange
    PaymentsSound
    
    
PROPERTIES
    RefusedOnlyAtEdges
    DownloadsEnd
CHECK_DEADLOCK FALSE
