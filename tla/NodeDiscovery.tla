--------------------------- MODULE NodeDiscovery ---------------------------
(***************************************************************************)
(* NodeDiscoveryProtocol (node-discovery-protocol.ts): nodes that announce *)
(* themselves with numbered beacons, keep those they hear as neighbours    *)
(* and forget the ones that fall silent.                                   *)
(*                                                                         *)
(* The clocks of two nodes may differ.  Entries and beacons carry the age  *)
(* their timestamp has on the clock of the node that reads it, in ticks.   *)
(* Of sequence numbers only differences matter: a number is kept relative  *)
(* to the last one its node used, so that a restart, which begins again    *)
(* from zero, makes every number of the past larger by what was reached.   *)
(***************************************************************************)
EXTENDS Integers, FiniteSets, FiniteSetsExt, Functions

CONSTANTS Nodes,
          Skew,                     \* of each node's clock, in ticks
          Transmitters,              \* the nodes whose duty cycle leaves airtime
          EnableBeaconSigning,
          BeaconInterval, NeighborTimeout, MaxNeighbors,
          AdaptiveBeaconInterval,   \* BOOLEAN
          MaxDelay,                 \* ticks a beacon may spend on the way
          MaxInFlight,              \* bound: beacons on the air at once
          MaxNumber                 \* bound: relative numbers saturate there

ASSUME DiscoveryAssumption ==
    /\ Skew \in [Nodes -> Int]
    /\ Transmitters \subseteq Nodes
    /\ {EnableBeaconSigning, AdaptiveBeaconInterval} \subseteq BOOLEAN
    /\ {BeaconInterval, NeighborTimeout, MaxNeighbors, MaxInFlight, MaxNumber}
           \subseteq Nat \ {0}
    /\ MaxDelay \in Nat

DiscoveryBeacon == [nodeId : Nodes, sequenceNumber : Int, age : 0 .. MaxDelay]

NeighborNode == [beaconSequence : Int, lastSeen : Int]

VARIABLES isActive,
          neighbors,        \* of each node: what it knows of each neighbour
          topology,         \* of each node: the age of each node on its map
          beaconIn, cleanupIn,  \* ticks to the next beacon and cleanup
          interval,         \* of the beacon timer, fixed when it is started
          sent,             \* beaconSequence, up to MaxNumber
          air               \* beacons on their way

discoveryVars == <<isActive, neighbors, topology, beaconIn, cleanupIn, interval, sent, air>>

(* min(neighborTimeout / 4, 30 s), but at least a tick.                    *)
CleanupInterval == Max({1, NeighborTimeout \div 4})

(* The age of a timestamp of n on the clock of m, a ticks after it.        *)
AgeAt(m, n, a) == a + Skew[m] - Skew[n]

Known(n) == DOMAIN neighbors[n]

(* The number as it is after `by` further ones, or before them (by < 0).   *)
Shifted(number, by) == Max({0 - MaxNumber, Min({MaxNumber, number - by})})

(* What everybody has of the beacons of n, their numbers shifted.          *)
AirShifted(n, by) ==
    {[b EXCEPT !.sequenceNumber = IF b.nodeId = n THEN Shifted(@, by) ELSE @] : b \in air}

EntryShifted(e, by) == [e EXCEPT !.beaconSequence = Shifted(@, by)]

NeighborsShifted(n, by) ==
    [m \in Nodes |-> [k \in Known(m) |->
        IF k = n THEN EntryShifted(neighbors[m][k], by) ELSE neighbors[m][k]]]

-----------------------------------------------------------------------------
(* Starting, stopping and restarting.                                      *)
DiscoveryInit ==
    /\ isActive = [n \in Nodes |-> FALSE]
    /\ neighbors = [n \in Nodes |-> [m \in {} |-> 0]]
    /\ topology = [n \in Nodes |-> [m \in {} |-> 0]]
    /\ beaconIn = [n \in Nodes |-> 0]
    /\ cleanupIn = [n \in Nodes |-> 0]
    /\ interval = [n \in Nodes |-> BeaconInterval]
    /\ sent = [n \in Nodes |-> 0]
    /\ air = {}

(* min(2, 1 + neighbours / maxNeighbors) times the interval, rounded down. *)
AdaptiveInterval(n) ==
    BeaconInterval
    + (BeaconInterval * Min({Cardinality(Known(n)), MaxNeighbors})) \div MaxNeighbors

BeaconTimer(n) == IF AdaptiveBeaconInterval THEN AdaptiveInterval(n) ELSE BeaconInterval

Beacon(n) == [nodeId |-> n, sequenceNumber |-> 0, age |-> 0]

(* The next number: every number n has used is one further behind.  A      *)
(* channel that is full loses a beacon.                                    *)
Counted(n) ==
    /\ neighbors' = NeighborsShifted(n, 1)
    /\ sent' = [sent EXCEPT ![n] = Min({@ + 1, MaxNumber})]
    /\ \E lost \in IF Cardinality(AirShifted(n, 1)) < MaxInFlight
                  THEN {{}} ELSE {{b} : b \in AirShifted(n, 1)} :
           air' = (AirShifted(n, 1) \ lost) \cup {Beacon(n)}

(* canTransmit is a matter of the duty cycle, and may refuse.              *)
SendDiscoveryBeacon(n) ==
    \/ n \in Transmitters /\ Counted(n)
    \/ UNCHANGED <<neighbors, sent, air>>

TimersCleared(n) ==
    /\ beaconIn' = [beaconIn EXCEPT ![n] = 0]
    /\ cleanupIn' = [cleanupIn EXCEPT ![n] = 0]
    /\ interval' = [interval EXCEPT ![n] = BeaconInterval]

StartNodeDiscovery(n) ==
    /\ ~ isActive[n]
    /\ isActive' = [isActive EXCEPT ![n] = TRUE]
    /\ interval' = [interval EXCEPT ![n] = BeaconTimer(n)]
    /\ beaconIn' = [beaconIn EXCEPT ![n] = BeaconTimer(n)]
    /\ cleanupIn' = [cleanupIn EXCEPT ![n] = CleanupInterval]
    /\ SendDiscoveryBeacon(n)
    /\ UNCHANGED topology

StopNodeDiscovery(n) ==
    /\ isActive[n]
    /\ isActive' = [isActive EXCEPT ![n] = FALSE]
    /\ TimersCleared(n)
    /\ UNCHANGED <<neighbors, topology, sent, air>>

(* The interval of a running timer is not adapted.                         *)
BeaconDue(n) ==
    /\ isActive[n]
    /\ beaconIn[n] = 0
    /\ beaconIn' = [beaconIn EXCEPT ![n] = interval[n]]
    /\ SendDiscoveryBeacon(n)
    /\ UNCHANGED <<isActive, topology, cleanupIn, interval>>

(* The process ends; a new one counts its beacons from zero.               *)
RestartNode(n) ==
    /\ isActive' = [isActive EXCEPT ![n] = FALSE]
    /\ topology' = [topology EXCEPT ![n] = [m \in {} |-> 0]]
    /\ neighbors' = [NeighborsShifted(n, 0 - sent[n]) EXCEPT ![n] = [m \in {} |-> 0]]
    /\ air' = AirShifted(n, 0 - sent[n])
    /\ sent' = [sent EXCEPT ![n] = 0]
    /\ TimersCleared(n)

-----------------------------------------------------------------------------
(* Receiving.  Signing uses a key pair made for the occasion, verification *)
(* takes the node id for the public key: no signed beacon is valid.        *)
ValidateBeaconSignature == ~ EnableBeaconSigning

NewerBeacon(m, b) ==
    b.nodeId \in Known(m) => b.sequenceNumber > neighbors[m][b.nodeId].beaconSequence

NeighborFromBeacon(m, b) ==
    [beaconSequence |-> b.sequenceNumber, lastSeen |-> AgeAt(m, b.nodeId, b.age)]

(* Fault: a node that is on the map already keeps its age.                 *)
TopologyKeepsFirst(m, b) ==
    topology' = [topology EXCEPT ![m] =
                    [k \in DOMAIN @ \cup {b.nodeId} |->
                        IF k \in DOMAIN @ THEN @[k] ELSE AgeAt(m, b.nodeId, b.age)]]

UpdateTopologyMap(m, b) ==
    topology' = [topology EXCEPT ![m] =
                    [k \in DOMAIN @ \cup {b.nodeId} |->
                        IF k = b.nodeId THEN AgeAt(m, b.nodeId, b.age) ELSE @[k]]]

(* Fault: the last place of the table is never given away.                 *)
HasRoomToSpare(m) == Cardinality(Known(m)) + 1 < MaxNeighbors

HasRoom(m) == Cardinality(Known(m)) < MaxNeighbors

ProcessDiscoveryBeacon(m, b) ==
    /\ m # b.nodeId
    /\ ValidateBeaconSignature
    /\ NewerBeacon(m, b)
    /\ b.nodeId \in Known(m) \/ HasRoom(m)
    /\ neighbors' = [neighbors EXCEPT ![m] =
                        [k \in Known(m) \cup {b.nodeId} |->
                            IF k = b.nodeId THEN NeighborFromBeacon(m, b) ELSE @[k]]]
    /\ UpdateTopologyMap(m, b)
    /\ UNCHANGED <<isActive, beaconIn, cleanupIn, interval, sent, air>>

-----------------------------------------------------------------------------
Stale(n) == {k \in Known(n) : neighbors[n][k].lastSeen > NeighborTimeout}

(* Fault: a neighbour is only marked stale, and kept with its place on the *)
(* map.                                                                    *)
CleanupMapOnly(n) ==
    /\ isActive[n]
    /\ cleanupIn[n] = 0
    /\ cleanupIn' = [cleanupIn EXCEPT ![n] = CleanupInterval]
    /\ topology' = [topology EXCEPT ![n] =
                        Restrict(@, {k \in DOMAIN @ : @[k] <= 2 * NeighborTimeout
                                                      \/ k \in Known(n)})]
    /\ UNCHANGED <<isActive, neighbors, beaconIn, interval, sent, air>>

CleanupStaleNeighbors(n) ==
    /\ isActive[n]
    /\ cleanupIn[n] = 0
    /\ cleanupIn' = [cleanupIn EXCEPT ![n] = CleanupInterval]
    /\ neighbors' = [neighbors EXCEPT ![n] = Restrict(@, Known(n) \ Stale(n))]
    /\ topology' = [topology EXCEPT ![n] =
                        Restrict(@, {k \in DOMAIN @ : @[k] <= 2 * NeighborTimeout})]
    /\ UNCHANGED <<isActive, beaconIn, interval, sent, air>>

(* A neighbour is a route of one hop; nobody learns of longer ones, since  *)
(* the routes of a neighbour are never filled in.                          *)
FindRoute(n, destination) ==
    {[destination |-> d, nextHop |-> d, hopCount |-> 1] : d \in Known(n) \cap {destination}}

ReachableNodes(n) == Known(n)

(* Time passes when no timer is due; clocks stop for ages that no          *)
(* comparison tells apart.                                                 *)
OldestAge == 2 * NeighborTimeout + CleanupInterval + 1

Aged(a) == Min({a + 1, OldestAge})

DiscoveryTick ==
    /\ \A n \in Nodes : isActive[n] => beaconIn[n] > 0 /\ cleanupIn[n] > 0
    /\ beaconIn' = [n \in Nodes |-> IF isActive[n] THEN beaconIn[n] - 1 ELSE beaconIn[n]]
    /\ cleanupIn' = [n \in Nodes |-> IF isActive[n] THEN cleanupIn[n] - 1 ELSE cleanupIn[n]]
    /\ neighbors' = [n \in Nodes |->
                        [k \in Known(n) |-> [neighbors[n][k] EXCEPT !.lastSeen = Aged(@)]]]
    /\ topology' = [n \in Nodes |-> [k \in DOMAIN topology[n] |-> Aged(topology[n][k])]]
    /\ air' = {[b EXCEPT !.age = @ + 1] : b \in {c \in air : c.age < MaxDelay}}
    /\ UNCHANGED <<isActive, interval, sent>>

DiscoveryNext ==
    \/ \E n \in Nodes : \/ StartNodeDiscovery(n)
                        \/ StopNodeDiscovery(n)
                        \/ BeaconDue(n)
                        \/ CleanupStaleNeighbors(n)
                        \/ RestartNode(n)
    \/ \E m \in Nodes, b \in air : ProcessDiscoveryBeacon(m, b)
    \/ DiscoveryTick

DiscoverySpec == DiscoveryInit /\ [][DiscoveryNext]_discoveryVars

(* Timers run and time passes; a beacon is not refused by the duty cycle   *)
(* for ever, and of those that could tell a node something new it does not *)
(* miss every one.                                                         *)
DiscoveryFairSpec ==
    /\ DiscoverySpec
    /\ WF_discoveryVars(DiscoveryTick)
    /\ \A n \in Nodes :
        /\ WF_discoveryVars(BeaconDue(n))
        /\ WF_discoveryVars(CleanupStaleNeighbors(n))
        /\ \A m \in Nodes : SF_discoveryVars(\E b \in air : b.nodeId = n /\ ProcessDiscoveryBeacon(m, b))
    /\ \A n \in Transmitters : SF_discoveryVars(BeaconDue(n) /\ Counted(n))

-----------------------------------------------------------------------------
DiscoveryTypeOK ==
    /\ isActive \in [Nodes -> BOOLEAN]
    /\ \A n \in Nodes :
        /\ Known(n) \subseteq Nodes \ {n}
        /\ Range(neighbors[n]) \subseteq NeighborNode
        /\ DOMAIN topology[n] \subseteq Nodes \ {n}
    /\ beaconIn \in [Nodes -> 0 .. 2 * BeaconInterval]
    /\ interval \in [Nodes -> BeaconInterval .. 2 * BeaconInterval]
    /\ cleanupIn \in [Nodes -> 0 .. CleanupInterval]
    /\ sent \in [Nodes -> 0 .. MaxNumber]
    /\ air \subseteq DiscoveryBeacon

(* What a node routes to is on its map, with the same age, over updates,   *)
(* refused and repeated beacons, cleanups, stops and restarts: the map     *)
(* forgets a node later than the neighbours do, never before.              *)
NeighborsOnMap ==
    \A n \in Nodes : \A k \in ReachableNodes(n) :
        k \in DOMAIN topology[n] /\ topology[n][k] = neighbors[n][k].lastSeen

(* ... and nobody is given a route to itself or to what is no node.        *)
DiscoverySound == DiscoveryTypeOK /\ NeighborsOnMap

(* A node that falls silent is forgotten although copies of its old        *)
(* beacons, which could make it a neighbour again, are still on the way.   *)
SilentForgotten ==
    \A m, n \in Nodes :
        <>[](isActive[m] /\ ~ isActive[n] /\ m # n) => <>[](FindRoute(m, n) = {})

(* Two nodes that stay active hear of each other again and again, after a  *)
(* restart too: a node that counts from zero is ignored at first, but its  *)
(* entry grows old meanwhile and the next beacon makes a new one.          *)
ActiveFound ==
    \A m \in Nodes, n \in Transmitters :
        <>[](isActive[m] /\ isActive[n] /\ m # n)
            => []<>(n \in Known(m) /\ neighbors[m][n].beaconSequence <= 0)
=============================================================================
