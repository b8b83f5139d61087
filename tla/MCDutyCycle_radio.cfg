\* Three messages through a queue of two and a window of three seconds.
CONSTANTS
    m1 = m1
    m2 = m2
    m3 = m3
    none = none
    Messages = {m1, m2, m3}
    Priority <- MCPriority
    Configs <- MCConfigs
    BandOf <- MCBandOf
    SubBandOf <- MCSubBandOf
    SubBandLimit <- MCSubBandLimit
    NoSubBand = none
    DefaultLimit <- MCDefaultLimit
    Window = 2
    Retention = 3
    TTL = 2
    MaxSize = 2
    MaxRestarts = 1
SPECIFICATION FairSpec
INVARIANTS
    AirtimeLimited
PROPERTIES
    GivenUpForMoreUrgent
    QueueDrained
