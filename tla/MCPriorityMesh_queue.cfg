CONSTANTS
    HighFee = 10
    NormalFee = 1
    EmergencyBypass = TRUE
    BlockPriorityBoost = TRUE
    MerkleProofPriority = 1
    Context <- MCContext
    MaxTotalMessages = 2
    EmergencyCapacityReserve = 1
    CapacityByPriority <- MCCapacity
    MemoryLimit = 3
    TickSeconds = 60
    Submissions <- MCSubmissions
    MaxAttempts <- MCMaxAttempts
    EmergencyMaxRetries = 1
    TimeToLive <- MCTimeToLive
    EmergencyTimeToLive = 0
    DutyCycleExemption <- MCExemption
    EmergencyConfigEnabled = FALSE
    MaxOverlap = 2
    MaxTimers = 2
SPECIFICATION Spec
INVARIANTS
    EmergencyWillEnd
PROPERTIES
    MostUrgentFirst
    NothingCirculatesForever
