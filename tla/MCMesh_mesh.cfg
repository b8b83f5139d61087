CONSTANTS
    a = a
    b = b
    c = c
    Self = a
    Others = {b, c}
    NodeType <- MCNodeType
    Requests <- MCRequests
    Replies <- MCReplies
    RouteErrors <- MCRouteErrors
    Hellos <- MCHellos
    MaxRoutesPerDestination = 2
    RouteExpiryTime = 1
    RouteCleanupInterval = 1
    RouteDiscoveryTimeout = 1
    AcknowledgmentTimeout = 1
    MaxForwardRetries = 1
    RetryInterval = 1
    HelloInterval = 1
    MaxHelloTimers = 1
    Floods <- MCFloods
    Originators = {b, c}
    SequenceNumbers = {1, 2}
    FloodCacheSize = 2
    FloodExpiry = 1
    MaxSequenceNumberAge = 1
    CleanupInterval = 2
    MaxBurst = 3
SPECIFICATION Spec
INVARIANTS
    RoutesSound
    ForwardsEnd
    
    FloodControlSound
PROPERTIES
    DiscoveryEnds
