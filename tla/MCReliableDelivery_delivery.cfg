\* Two messages, acknowledgments lost and repeated, a failing mesh.
CONSTANTS
    m1 = m1
    m2 = m2
    i1 = i1
    i2 = i2
    Messages = {m1, m2}
    Ids = {i1, i2}
    IdMaps <- MCIdMaps
    MaxRetries <- MCMaxRetries
    Urgency <- MCUrgency
    MaxPending = 2
    BatchSize = 2
    MaxAcks = 1
    MaxEchoes = 3
    MaxManual = 1
SPECIFICATION FairSpec
INVARIANTS
    DeliverySound
PROPERTIES
    SentOrCompleted
CHECK_DEADLOCK FALSE
