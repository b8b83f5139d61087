------------------------------ MODULE Routing ------------------------------
(***************************************************************************)
(* EnhancedMeshProtocol (enhanced-mesh-protocol.ts) with its               *)
(* UTXORouteManager and UTXOMessageForwarder (routing.ts) and the routing  *)
(* messages it exchanges (routing-messages.ts): one node, whose neighbours *)
(* run the same code behind a channel that loses, delays, repeats and      *)
(* reorders.  Its managers each keep to themselves, so that what they do   *)
(* meets only where the mesh protocol calls them.                          *)
(*                                                                         *)
(* Messages that are forwarded or wait for a route never meet each other,  *)
(* so the model follows one of each at a time, any one.                    *)
(*                                                                         *)
(* Nothing depends on absolute time: entries carry their age in ticks.     *)
(* A timer runs before the next tick when its interval is over.            *)
(***************************************************************************)
EXTENDS Ordering, FiniteSetsExt, SequencesExt, Functions

CONSTANTS Self, Others,             \* this node and the other nodes
          NodeType,                 \* of each other node
          Requests, Replies, RouteErrors, Hellos,   \* messages on the air
          MaxRoutesPerDestination, RouteExpiryTime, RouteCleanupInterval,
          RouteDiscoveryTimeout, AcknowledgmentTimeout, MaxForwardRetries,
          RetryInterval, HelloInterval,
          MaxHelloTimers            \* bound

NodeTypes == {"full", "light", "mining"}
MaxHopCount == 15
SequenceModulus == 65535

UTXORouteRequest ==
    [originator : Others, destination : Others \cup {Self}, hopCount : Int,
     sequenceNumber : Nat, path : Seq(Others \cup {Self}), signed : BOOLEAN]

UTXORouteReply ==
    [destination : Others, hopCount : Int, sequenceNumber : Nat,
     path : Seq(Others \cup {Self}), merit : Int, signed : BOOLEAN]

BlockchainRouteError ==
    [affectedDestinations : SUBSET Others, to : Others \cup {Self}, signed : BOOLEAN]

BlockchainHelloMessage ==
    [nodeId : Others, currentBlockchainHeight : Int, signed : BOOLEAN]

BlockchainRouteEntry ==
    [nextHop : Others \cup {Self}, hopCount : 0 .. MaxHopCount, sequenceNumber : Nat,
     age : Nat, merit : Int]

BlockchainForwardingEntry == [nextHop : Others \cup {Self}, age : Nat, retryCount : Nat]

ASSUME RoutingAssumption ==
    /\ Self \notin Others
    /\ NodeType \in [Others -> NodeTypes]
    /\ Requests \subseteq UTXORouteRequest
    /\ Replies \subseteq UTXORouteReply
    /\ RouteErrors \subseteq BlockchainRouteError
    /\ Hellos \subseteq BlockchainHelloMessage
    /\ {MaxRoutesPerDestination, RouteExpiryTime, RouteCleanupInterval,
        RouteDiscoveryTimeout, AcknowledgmentTimeout, RetryInterval,
        HelloInterval, MaxHelloTimers} \subseteq Nat \ {0}
    /\ MaxForwardRetries \in Nat

VARIABLES isConnected,
          neighbors,
          height,               \* currentBlockchainHeight
          routes,               \* of each destination, the best at its last sort first
          priorityNodes,
          pendingForwards,      \* the one entry of the map that is followed, if any
          discoveries,          \* the one sendRoutedMessage call that waits for a
                                \* route and is followed, if any
          hellos,               \* the ticks left of each hello timer
          cleanupIn, retryIn    \* the ticks left of the other timers

routeVars == <<routes, priorityNodes>>
forwardVars == <<pendingForwards, discoveries>>
timerVars == <<hellos, cleanupIn, retryIn>>
routingVars == <<isConnected, neighbors, height, routeVars, forwardVars, timerVars>>

-----------------------------------------------------------------------------
(* RoutingMessageFactory: the messages and what makes one acceptable.      *)
RouteRequest(originator, destination, now) ==
    [originator |-> originator, destination |-> destination, hopCount |-> 0,
     sequenceNumber |-> now % SequenceModulus, path |-> <<originator>>, signed |-> TRUE]

RouteReply(request, node, now, merit) ==
    [destination |-> node, hopCount |-> request.hopCount + 1,
     sequenceNumber |-> now % SequenceModulus, path |-> Append(request.path, node),
     merit |-> merit, signed |-> TRUE]

RouteError(to, affected) ==
    [affectedDestinations |-> affected, to |-> to, signed |-> TRUE]

Hello(node, h) == [nodeId |-> node, currentBlockchainHeight |-> h, signed |-> TRUE]

ValidRequest(r) == r.hopCount \in 0 .. MaxHopCount /\ r.path # <<>> /\ r.signed

ValidReply(r) == r.hopCount \in 0 .. MaxHopCount /\ r.signed

ValidError(e) == e.signed

ValidHello(h) == h.currentBlockchainHeight >= 0 /\ h.signed

-----------------------------------------------------------------------------
(* UTXORouteManager.                                                       *)
TypeScore(type) ==
    CASE type = "mining" -> 100 [] type = "full" -> 80 [] type = "light" -> 40

(* merit stands for completeness, freshness, link quality and height.      *)
RoutePriority(destination, route) ==
    TypeScore(NodeType[destination]) + route.merit - 5 * route.hopCount

Supersedes(entry, existing) ==
    \/ entry.sequenceNumber > existing.sequenceNumber
    \/ /\ entry.sequenceNumber = existing.sequenceNumber
       /\ entry.hopCount < existing.hopCount

(* A known next hop is updated where it stands; a new one enters in order. *)
WithRoute(list, destination, entry) ==
    LET known == {i \in DOMAIN list : list[i].nextHop = entry.nextHop}
        Key(r) == RoutePriority(destination, r)
    IN IF known # {}
       THEN [i \in DOMAIN list |->
                IF i \in known /\ Supersedes(entry, list[i]) THEN entry ELSE list[i]]
       ELSE Truncate(SortByFalling(Append(list, entry), Key), MaxRoutesPerDestination)

AddRoute(destination, entry) ==
    /\ routes' = [routes EXCEPT ![destination] = WithRoute(@, destination, entry)]
    /\ priorityNodes' = IF NodeType[destination] \in {"full", "mining"}
                        THEN priorityNodes \cup {destination}
                        ELSE priorityNodes

WithoutHop(list, nextHop) == Filtered(list, {i \in DOMAIN list : list[i].nextHop # nextHop})

(* The destinations in the table: a list that gets empty is deleted, with the *)
(* rank of its node.                                                       *)
Routed == {d \in Others : routes[d] # <<>>}

KeepRoutes(kept) ==
    /\ routes' = [d \in Others |-> IF d \in DOMAIN kept THEN kept[d] ELSE routes[d]]
    /\ priorityNodes' = priorityNodes \ {d \in Routed : routes'[d] = <<>>}

RemoveRoutes(destinations, nextHop) ==
    KeepRoutes([d \in Routed \cap destinations |-> WithoutHop(routes[d], nextHop)])

BestRouteForUTXO(destination) == Head(routes[destination])

(* Any of the full nodes' routes with the highest score.                   *)
FullNodeRoutes ==
    {p \in UNION {{d} \X Range(routes[d]) : d \in Others} : NodeType[p[1]] = "full"}

BestRoutesForFullNode ==
    {p \in FullNodeRoutes :
        \A q \in FullNodeRoutes :
            RoutePriority(q[1], q[2]) <= RoutePriority(p[1], p[2])}

(* Fault: a route is looked at again only when the whole list is stale.    *)
FreshRoutesAllOrNone(list) ==
    IF \E r \in Range(list) : r.age <= RouteExpiryTime THEN list ELSE <<>>

FreshRoutes(list) == Filtered(list, {i \in DOMAIN list : list[i].age <= RouteExpiryTime})

CleanupStaleRoutes ==
    /\ cleanupIn = 0
    /\ KeepRoutes([d \in Routed |-> FreshRoutes(routes[d])])
    /\ cleanupIn' = RouteCleanupInterval
    /\ UNCHANGED <<isConnected, neighbors, height, forwardVars, hellos, retryIn>>

ClearAllRoutes ==
    /\ routes' = [d \in Others |-> <<>>]
    /\ priorityNodes' = {}
    /\ UNCHANGED <<isConnected, neighbors, height, forwardVars, timerVars>>

-----------------------------------------------------------------------------
(* UTXOMessageForwarder.  The queue it keeps besides is read by nothing.   *)
ForwardEntry(nextHop) == [nextHop |-> nextHop, age |-> 0, retryCount |-> 0]

(* One entry for each hop; the model may begin to follow one of them.      *)
Forward(hops) ==
    \/ UNCHANGED pendingForwards
    \/ /\ pendingForwards = {}
       /\ \E h \in hops : pendingForwards' = {ForwardEntry(h)}

HandleAcknowledgment(entry) ==
    /\ entry \in pendingForwards
    /\ pendingForwards' = pendingForwards \ {entry}
    /\ UNCHANGED <<isConnected, neighbors, height, routeVars, discoveries, timerVars>>

(* Fault: only a retry that would be made gives up.                        *)
RetriedBeforeLast(entry) ==
    IF entry.age > AcknowledgmentTimeout /\ entry.retryCount < MaxForwardRetries
    THEN {[entry EXCEPT !.retryCount = @ + 1]}
    ELSE IF entry.retryCount > MaxForwardRetries THEN {} ELSE {entry}

Retried(entry) ==
    IF entry.age > AcknowledgmentTimeout /\ entry.retryCount < MaxForwardRetries
    THEN {[entry EXCEPT !.retryCount = @ + 1]}
    ELSE IF entry.retryCount >= MaxForwardRetries THEN {} ELSE {entry}

RetryFailedForwards ==
    /\ retryIn = 0
    /\ pendingForwards' = UNION {Retried(e) : e \in pendingForwards}
    /\ retryIn' = RetryInterval
    /\ UNCHANGED <<isConnected, neighbors, height, routeVars, discoveries, hellos, cleanupIn>>

ClearPendingForwards ==
    /\ pendingForwards # {}
    /\ pendingForwards' = {}
    /\ UNCHANGED <<isConnected, neighbors, height, routeVars, discoveries, timerVars>>

-----------------------------------------------------------------------------
(* EnhancedMeshProtocol: sending.                                          *)
Broadcast == Forward(neighbors)

Discover(destination) ==
    \/ UNCHANGED discoveries
    \/ /\ discoveries = {}
       /\ discoveries' = {[destination |-> destination, age |-> 0]}

(* With a route, forward; without one, ask the neighbours and wait.        *)
SendRouted(destination) ==
    IF routes[destination] # <<>>
    THEN Forward({BestRouteForUTXO(destination).nextHop}) /\ UNCHANGED discoveries
    ELSE Broadcast /\ Discover(destination)

SendRoutedMessage(destination) ==
    /\ SendRouted(destination)
    /\ UNCHANGED <<isConnected, neighbors, height, routeVars, timerVars>>

SendMessage(destinations) ==
    /\ isConnected
    /\ IF destinations = {}
       THEN Broadcast /\ UNCHANGED discoveries
       ELSE \E d \in destinations : SendRouted(d)
    /\ UNCHANGED <<isConnected, neighbors, height, routeVars, timerVars>>

(* Fault: the timeout of a discovery is cleared by any discovered route.   *)
GiveUpOthers(w) ==
    /\ w.age >= RouteDiscoveryTimeout
    /\ \A d \in Others \ {w.destination} : routes[d] = <<>>
    /\ discoveries' = discoveries \ {w}

GiveUp(w) ==
    /\ w.age >= RouteDiscoveryTimeout
    /\ discoveries' = discoveries \ {w}

DiscoveryTimeout ==
    /\ \E w \in discoveries : GiveUp(w)
    /\ UNCHANGED <<isConnected, neighbors, height, routeVars, pendingForwards, timerVars>>

-----------------------------------------------------------------------------
(* EnhancedMeshProtocol: receiving.                                        *)
(* A request for this node is answered, any other is left: nobody relays.  *)
OnRouteRequest(r) ==
    /\ r.destination = Self
    /\ SendRouted(r.originator)
    /\ UNCHANGED <<isConnected, neighbors, height, routeVars, timerVars>>

HandleRouteRequest(r) == ValidRequest(r) /\ OnRouteRequest(r)

(* The hop before the last of the path, or the destination itself.         *)
NextHopOf(reply) ==
    IF Len(reply.path) >= 2 THEN reply.path[Len(reply.path) - 1] ELSE reply.destination

EntryOf(reply) ==
    [nextHop |-> NextHopOf(reply), hopCount |-> reply.hopCount,
     sequenceNumber |-> reply.sequenceNumber, age |-> 0, merit |-> reply.merit]

(* Fault: an updated route is not announced, only one to a new next hop.   *)
ResumeForNewHop(destination) ==
    LET resumed == {w \in discoveries :
                        /\ w.destination = destination
                        /\ Len(routes'[destination]) > Len(routes[destination]) + 1}
    IN discoveries' = discoveries \ resumed /\ UNCHANGED pendingForwards

(* route_discovered resumes every call that waits for this destination.    *)
ResumeDiscoveries(destination) ==
    LET resumed == {w \in discoveries : w.destination = destination}
    IN /\ discoveries' = discoveries \ resumed
       /\ Forward({Head(routes'[destination]).nextHop : w \in resumed})

OnRouteReply(r) ==
    /\ AddRoute(r.destination, EntryOf(r))
    /\ ResumeDiscoveries(r.destination)
    /\ UNCHANGED <<isConnected, neighbors, height, timerVars>>

HandleRouteReply(r) == ValidReply(r) /\ OnRouteReply(r)

OnRouteError(e) ==
    /\ RemoveRoutes(e.affectedDestinations, e.to)
    /\ UNCHANGED <<isConnected, neighbors, height, forwardVars, timerVars>>

HandleRouteError(e) == ValidError(e) /\ OnRouteError(e)

OnHello(h) ==
    /\ neighbors' = neighbors \cup {h.nodeId}
    /\ height' = IF h.currentBlockchainHeight > height
                 THEN h.currentBlockchainHeight ELSE height
    /\ UNCHANGED <<isConnected, routeVars, forwardVars, timerVars>>

HandleHelloMessage(h) == ValidHello(h) /\ OnHello(h)

ProcessRoutingMessage ==
    \/ \E r \in Requests : HandleRouteRequest(r)
    \/ \E r \in Replies : HandleRouteReply(r)
    \/ \E e \in RouteErrors : HandleRouteError(e)
    \/ \E h \in Hellos : HandleHelloMessage(h)

(* neighborDiscovered and neighborLost of the discovery protocol.          *)
NeighborDiscovered(n) ==
    /\ neighbors' = neighbors \cup {n}
    /\ UNCHANGED <<isConnected, height, routeVars, forwardVars, timerVars>>

NeighborLost(n) ==
    /\ neighbors' = neighbors \ {n}
    /\ UNCHANGED <<isConnected, height, routeVars, forwardVars, timerVars>>

-----------------------------------------------------------------------------
(* Connection and timers.                                                  *)
RoutingInit ==
    /\ isConnected = FALSE
    /\ neighbors = {}
    /\ height = 0
    /\ routes = [d \in Others |-> <<>>]
    /\ priorityNodes = {}
    /\ pendingForwards = {}
    /\ discoveries = {}
    /\ hellos = <<>>
    /\ cleanupIn = RouteCleanupInterval
    /\ retryIn = RetryInterval

(* A hello at once, and a timer that nothing ever clears.                  *)
Connect ==
    /\ ~ isConnected
    /\ Len(hellos) < MaxHelloTimers
    /\ isConnected' = TRUE
    /\ Broadcast
    /\ hellos' = Append(hellos, HelloInterval)
    /\ UNCHANGED <<neighbors, height, routeVars, discoveries, cleanupIn, retryIn>>

Disconnect ==
    /\ isConnected
    /\ isConnected' = FALSE
    /\ neighbors' = {}
    /\ UNCHANGED <<height, routeVars, forwardVars, timerVars>>

SendHello(i) ==
    /\ hellos[i] = 0
    /\ hellos' = [hellos EXCEPT ![i] = HelloInterval]
    /\ IF isConnected THEN Broadcast ELSE UNCHANGED pendingForwards
    /\ UNCHANGED <<isConnected, neighbors, height, routeVars, discoveries, cleanupIn, retryIn>>

Older(set) == {[e EXCEPT !.age = @ + 1] : e \in set}

(* Time passes when no callback is due.                                    *)
Tick ==
    /\ cleanupIn > 0 /\ retryIn > 0 /\ 0 \notin Range(hellos)
    /\ \A w \in discoveries : w.age < RouteDiscoveryTimeout
    /\ cleanupIn' = cleanupIn - 1
    /\ retryIn' = retryIn - 1
    /\ hellos' = [i \in DOMAIN hellos |-> hellos[i] - 1]
    /\ routes' = [d \in Others |->
                    [i \in DOMAIN routes[d] |-> [routes[d][i] EXCEPT !.age = @ + 1]]]
    /\ pendingForwards' = Older(pendingForwards)
    /\ discoveries' = Older(discoveries)
    /\ UNCHANGED <<isConnected, neighbors, height, priorityNodes>>

RoutingNext ==
    \/ Connect \/ Disconnect
    \/ CleanupStaleRoutes \/ ClearAllRoutes
    \/ RetryFailedForwards \/ ClearPendingForwards \/ DiscoveryTimeout
    \/ \E e \in pendingForwards : HandleAcknowledgment(e)
    \/ \E d \in Others : SendRoutedMessage(d) \/ SendMessage({d})
    \/ SendMessage({})
    \/ ProcessRoutingMessage
    \/ \E n \in Others : NeighborDiscovered(n) \/ NeighborLost(n)
    \/ \E i \in DOMAIN hellos : SendHello(i)
    \/ Tick

RoutingSpec == RoutingInit /\ [][RoutingNext]_routingVars

(* Time goes on, and callbacks that are due run.                           *)
RoutingFairness ==
    /\ WF_routingVars(Tick)
    /\ WF_routingVars(CleanupStaleRoutes)
    /\ WF_routingVars(RetryFailedForwards)
    /\ WF_routingVars(DiscoveryTimeout)
    /\ WF_routingVars(\E i \in DOMAIN hellos : SendHello(i))

-----------------------------------------------------------------------------
RoutingTypeOK ==
    /\ isConnected \in BOOLEAN
    /\ neighbors \subseteq Others
    /\ height \in Nat
    /\ routes \in [Others -> Seq(BlockchainRouteEntry)]
    /\ priorityNodes \subseteq Others
    /\ pendingForwards \subseteq BlockchainForwardingEntry
    /\ discoveries \subseteq [destination : Others, age : 0 .. RouteDiscoveryTimeout]
    /\ hellos \in Seq(0 .. HelloInterval)
    /\ cleanupIn \in 0 .. RouteCleanupInterval
    /\ retryIn \in 0 .. RetryInterval

(* A route is used at most until the cleanup after its expiry, whatever    *)
(* other routes its destination has: stale routes leave lists that stay.   *)
RoutesExpire ==
    \A d \in Others : \A r \in Range(routes[d]) :
        r.age <= RouteExpiryTime + RouteCleanupInterval

(* The destinations that count as priority nodes are exactly the full and  *)
(* mining nodes that have a route, through additions, errors, cleanups and *)
(* lists that lose only some of their routes.                              *)
PriorityNodesRouted ==
    priorityNodes = {d \in Others : routes[d] # <<>> /\ NodeType[d] # "light"}

(* The two tables agree at every moment and hold nothing stale.            *)
RoutesSound == RoutingTypeOK /\ RoutesExpire /\ PriorityNodesRouted

(* A message nobody acknowledges is given up after its retries, one per    *)
(* run of the retry timer from the acknowledgment timeout on.              *)
ForwardsEnd ==
    \A e \in pendingForwards :
        e.age <= AcknowledgmentTimeout + (MaxForwardRetries + 1) * RetryInterval

(* Nobody waits for a route that is there: the reply that brings the route *)
(* resumes every send that waits for it, however they interleave.          *)
NobodyWaitsInVain == \A w \in discoveries : routes[w.destination] = <<>>

(* A send that waits for a route ends, with a route or with the timeout.   *)
DiscoveryEnds ==
    \A d \in Others :
           (\E w \in discoveries : w.destination = d)
        ~> (\A w \in discoveries : w.destination = d => w.age = 0)
=============================================================================
