CONSTANTS
    p1 = p1
    p2 = p2
    tx = tx
    block = block
    proof = proof
    Messages = {tx, block, proof}
    Kind <- MCKind
    Length <- MCLength
    Checksum <- MCChecksum
    ChecksumBits = 4
    MaxSessions = 2
    SessionTimeout = 2
    CleanupInterval = 2
    PacketsPerTick = 1
    Damaged = Damaged
    Peers <- MCPeers
    AddressOf <- MCAddressOf
    MisbehaviorTypes <- MCTypes
    IncidentThreshold <- MCThreshold
    IncidentWindow <- MCWindow
    TempBanDuration = 1
    MaxTempBans = 1
    Info <- MCInfo
    MaxConnections = 1
    MaxOutbound = 1
    MaxDiscoveryPeers = 1
    MaxAttempts = 2
    transfer = transfer
    Transfers = {transfer}
    FragmentsOf <- MCFragmentsOf
    MaxBaseSessions = 1
    BaseTimeout = 1
    BaseBackoff = 1
    MaxBackoff = 2
    NetworkConfigs <- MCNetworkConfigs
    MaxRetransmissionTasks = 2
    ChallengeIds = {h1, h2}
    ClientIds = {k1, k2}
    Sockets = {s1}
    UTXOAddresses = {d1, d2}
    ChallengeExpiration = 1
    JwtExpiration = 1
    AllUTXOs = AllUTXOs
    NoUser = NoUser
    NoSubscription = NoSubscription
SPECIFICATION ServicesSpec
INVARIANTS
    PeersSound
    DeliveredWhole
    SessionsAgree
    
PROPERTIES
    BansSettled
    ActiveNotEvicted
    SessionsForgotten
