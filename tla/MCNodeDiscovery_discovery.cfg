CONSTANTS
    x = x
    y = y
    Nodes = {x, y}
    Transmitters = {y}
    Skew <- MCSkew
    EnableBeaconSigning = FALSE
    BeaconInterval = 1
    NeighborTimeout = 1
    MaxNeighbors = 1
    AdaptiveBeaconInterval = TRUE
    MaxDelay = 1
    MaxInFlight = 2
    MaxNumber = 3
SPECIFICATION DiscoveryFairSpec

    
PROPERTIES
    SilentForgotten
    ActiveFound
