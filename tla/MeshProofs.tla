------------------------------ MODULE MeshProofs ------------------------------
(***************************************************************************)
(* What a node that routes promises for any neighbours, messages and        *)
(* timeouts: its table leads to neighbours and does not outlive its time     *)
(* (RoutesSound), a message nobody acknowledges is given up in time          *)
(* (ForwardsEnd), no send waits for a route that is there                    *)
(* (NobodyWaitsInVain), floods and sequence numbers neither fill its tables  *)
(* nor are accepted again (FloodControlSound); and what reliable delivery    *)
(* above it promises for any messages, ids, retries and urgencies            *)
(* (DeliverySound).                                                          *)
(***************************************************************************)
EXTENDS Routing, FloodControl, ReliableDelivery, FiniteSetTheorems, SequenceTheorems,
        NaturalsInduction, WellFoundedInduction, TLAPS

-----------------------------------------------------------------------------
(* Forwarding.                                                             *)

(* An entry has been through one round of the retry timer more than it has  *)
(* been retried, the current round up to now.                               *)
GivenUpInTime(e, left) ==
    /\ e = [nextHop |-> e.nextHop, age |-> e.age, retryCount |-> e.retryCount]
    /\ e.age \in Nat
    /\ e.retryCount \in 0 .. MaxForwardRetries
    /\ e.age <= AcknowledgmentTimeout + (e.retryCount + 1) * RetryInterval - left

ForwardInv ==
    /\ retryIn \in 0 .. RetryInterval
    /\ \A e \in pendingForwards : GivenUpInTime(e, retryIn)

(* The constants that forwarding depends on.                               *)
LEMMA Intervals ==
    ASSUME RoutingAssumption
    PROVE  /\ AcknowledgmentTimeout \in Nat
           /\ RetryInterval \in Nat \ {0}
           /\ MaxForwardRetries \in Nat
  BY DEF RoutingAssumption

LEMMA MoreRounds ==
    ASSUME NEW c \in Nat, NEW m \in Nat, NEW r \in Nat, c <= m
    PROVE  /\ c * r \in Nat /\ (c + 1) * r = c * r + r /\ (c + 2) * r = c * r + 2 * r
           /\ (c + 1) * r <= (m + 1) * r
  <1>1. PICK d \in Nat : m = c + d
    BY SMT
  <1>2. c * r \in Nat /\ d * r \in Nat /\ (m + 1) * r = (c + 1) * r + d * r
    BY <1>1, SMT
  <1>. QED  BY <1>2, SMT

(* Who sends may add an entry for a hop.                                   *)
LEMMA ForwardKeeps ==
    ASSUME RoutingAssumption, ForwardInv, NEW hops, Forward(hops), retryIn' = retryIn
    PROVE  ForwardInv'
  <1>1. CASE UNCHANGED pendingForwards
    BY <1>1 DEF ForwardInv, GivenUpInTime
  <1>2. ASSUME NEW h \in hops, pendingForwards' = {ForwardEntry(h)}
        PROVE  ForwardInv'
    <2>1. GivenUpInTime(ForwardEntry(h), retryIn)
      <3>1. ForwardEntry(h) = [nextHop |-> h, age |-> 0, retryCount |-> 0]
        BY DEF ForwardEntry
      <3>2. 0 <= AcknowledgmentTimeout + (0 + 1) * RetryInterval - retryIn
        BY Intervals DEF ForwardInv
      <3>. QED  BY <3>1, <3>2, Intervals DEF GivenUpInTime
    <2>. QED  BY <1>2, <2>1 DEF ForwardInv
  <1>. QED  BY <1>1, <1>2 DEF Forward

(* Sending along a route, or to all neighbours while one is looked for.     *)
LEMMA SendKeeps ==
    ASSUME RoutingAssumption, ForwardInv, NEW destination, SendRouted(destination), retryIn' = retryIn
    PROVE  ForwardInv'
  BY ForwardKeeps DEF SendRouted, Broadcast

(* The retry timer: what is retried or not yet due begins another round.    *)
LEMMA RetryKeeps ==
    ASSUME RoutingAssumption, ForwardInv, RetryFailedForwards
    PROVE  ForwardInv'
  <1>1. ASSUME NEW e \in pendingForwards, NEW f \in Retried(e)
        PROVE  GivenUpInTime(f, RetryInterval)
    <2>. DEFINE c == e.retryCount
                bound == c * RetryInterval
    <2>1. /\ GivenUpInTime(e, 0)
          /\ c \in Nat /\ e.age \in Nat /\ c <= MaxForwardRetries
      BY Intervals DEF ForwardInv, RetryFailedForwards, GivenUpInTime
    <2>2. /\ bound \in Nat /\ (c + 1) * RetryInterval = bound + RetryInterval
          /\ (c + 2) * RetryInterval = bound + 2 * RetryInterval
      BY <2>1, MoreRounds, Intervals
    <2>3. e.age <= AcknowledgmentTimeout + bound + RetryInterval
      BY <2>1, <2>2, Intervals DEF GivenUpInTime
    <2>4. CASE e.age > AcknowledgmentTimeout /\ c < MaxForwardRetries
      <3>1. f = [e EXCEPT !.retryCount = c + 1]
        BY <2>4 DEF Retried
      <3>2. f = [nextHop |-> e.nextHop, age |-> e.age, retryCount |-> c + 1]
        BY <3>1, <2>1 DEF GivenUpInTime
      <3>3. /\ c + 1 \in 0 .. MaxForwardRetries
            /\ (c + 1) + 1 = c + 2
        BY <2>4, <2>1, Intervals
      <3>4. e.age <= AcknowledgmentTimeout + ((c + 1) + 1) * RetryInterval - RetryInterval
        <4>. HIDE DEF bound, c
        <4>. QED  BY <2>1, <2>2, <2>3, <3>3, Intervals
      <3>. QED  BY <3>2, <3>3, <3>4, <2>1 DEF GivenUpInTime
    <2>5. CASE ~ (e.age > AcknowledgmentTimeout /\ c < MaxForwardRetries)
      <3>1. f = e /\ c < MaxForwardRetries
        BY <2>5, <2>1, Intervals DEF Retried
      <3>2. e.age <= AcknowledgmentTimeout
        BY <3>1, <2>5, <2>1, Intervals
      <3>3. e.age <= AcknowledgmentTimeout + (c + 1) * RetryInterval - RetryInterval
        <4>. HIDE DEF bound, c
        <4>. QED  BY <3>2, <2>1, <2>2, Intervals
      <3>. QED  BY <3>1, <3>3, <2>1 DEF GivenUpInTime
    <2>. QED  BY <2>4, <2>5
  <1>. QED  BY <1>1, Intervals DEF ForwardInv, RetryFailedForwards

(* A tick adds to every age what it takes from the round.                  *)
LEMMA TickKeeps ==
    ASSUME RoutingAssumption, ForwardInv, Tick
    PROVE  ForwardInv'
  <1>1. ASSUME NEW e \in pendingForwards
        PROVE  GivenUpInTime([e EXCEPT !.age = @ + 1], retryIn - 1)
    <2>1. GivenUpInTime(e, retryIn)
      BY DEF ForwardInv
    <2>2. [e EXCEPT !.age = @ + 1] = [nextHop |-> e.nextHop, age |-> e.age + 1, retryCount |-> e.retryCount]
      BY <2>1 DEF GivenUpInTime
    <2>3. (e.retryCount + 1) * RetryInterval \in Nat /\ retryIn \in Nat
      BY <2>1, MoreRounds, Intervals DEF GivenUpInTime, ForwardInv
    <2>4. e.age + 1 <= AcknowledgmentTimeout + (e.retryCount + 1) * RetryInterval - (retryIn - 1)
      BY <2>1, <2>3, Intervals DEF GivenUpInTime
    <2>. QED  BY <2>1, <2>2, <2>4 DEF GivenUpInTime
  <1>2. retryIn' = retryIn - 1 /\ retryIn' \in 0 .. RetryInterval
    BY Intervals DEF Tick, ForwardInv
  <1>. QED  BY <1>1, <1>2 DEF ForwardInv, Tick, Older

LEMMA ForwardInvStep ==
    ASSUME RoutingAssumption, ForwardInv, [RoutingNext]_routingVars
    PROVE  ForwardInv'
  <1>. USE DEF forwardVars, timerVars
  <1>1. ASSUME UNCHANGED <<pendingForwards, retryIn>>
        PROVE  ForwardInv'
    BY <1>1 DEF ForwardInv, GivenUpInTime
  <1>2. CASE Connect
    BY <1>2, ForwardKeeps DEF Connect, Broadcast
  <1>3. CASE Disconnect \/ CleanupStaleRoutes \/ ClearAllRoutes \/ DiscoveryTimeout
    BY <1>1, <1>3 DEF Disconnect, CleanupStaleRoutes, ClearAllRoutes, DiscoveryTimeout
  <1>4. CASE RetryFailedForwards
    BY <1>4, RetryKeeps
  <1>5. CASE ClearPendingForwards \/ \E e \in pendingForwards : HandleAcknowledgment(e)
    <2>1. pendingForwards' \subseteq pendingForwards /\ retryIn' = retryIn
      BY <1>5 DEF ClearPendingForwards, HandleAcknowledgment
    <2>. QED  BY <2>1 DEF ForwardInv, GivenUpInTime
  <1>6. CASE \E d \in Others : SendRoutedMessage(d) \/ SendMessage({d})
    BY <1>6, SendKeeps DEF SendRoutedMessage, SendMessage
  <1>7. CASE SendMessage({})
    BY <1>7, ForwardKeeps DEF SendMessage, Broadcast
  <1>8. CASE ProcessRoutingMessage
    <2>1. ASSUME NEW r \in Requests, HandleRouteRequest(r)
          PROVE  ForwardInv'
      BY <2>1, SendKeeps DEF HandleRouteRequest, OnRouteRequest
    <2>2. ASSUME NEW r \in Replies, HandleRouteReply(r)
          PROVE  ForwardInv'
      BY <2>2, ForwardKeeps DEF HandleRouteReply, OnRouteReply, ResumeDiscoveries
    <2>3. ASSUME NEW e \in RouteErrors, HandleRouteError(e)
          PROVE  ForwardInv'
      BY <1>1, <2>3 DEF HandleRouteError, OnRouteError
    <2>4. ASSUME NEW h \in Hellos, HandleHelloMessage(h)
          PROVE  ForwardInv'
      BY <1>1, <2>4 DEF HandleHelloMessage, OnHello
    <2>. QED  BY <1>8, <2>1, <2>2, <2>3, <2>4 DEF ProcessRoutingMessage
  <1>9. CASE \E n \in Others : NeighborDiscovered(n) \/ NeighborLost(n)
    BY <1>1, <1>9 DEF NeighborDiscovered, NeighborLost
  <1>10. ASSUME NEW i \in DOMAIN hellos, SendHello(i)
         PROVE  ForwardInv'
    <2>1. retryIn' = retryIn
      BY <1>10 DEF SendHello
    <2>2. CASE isConnected
      BY <1>10, <2>1, <2>2, ForwardKeeps DEF SendHello, Broadcast
    <2>3. CASE ~ isConnected
      BY <1>1, <1>10, <2>1, <2>3 DEF SendHello
    <2>. QED  BY <2>2, <2>3
  <1>11. CASE Tick
    BY <1>11, TickKeeps
  <1>12. CASE UNCHANGED routingVars
    BY <1>1, <1>12 DEF routingVars
  <1>. QED
    BY <1>2, <1>3, <1>4, <1>5, <1>6, <1>7, <1>8, <1>9, <1>10, <1>11, <1>12 DEF RoutingNext

LEMMA ForwardInvEnds ==
    ASSUME RoutingAssumption, ForwardInv
    PROVE  ForwardsEnd
  <1>1. ASSUME NEW e \in pendingForwards
        PROVE  e.age <= AcknowledgmentTimeout + (MaxForwardRetries + 1) * RetryInterval
    <2>1. GivenUpInTime(e, retryIn) /\ retryIn \in Nat
      BY Intervals DEF ForwardInv
    <2>2. /\ (e.retryCount + 1) * RetryInterval \in Nat
          /\ (MaxForwardRetries + 1) * RetryInterval \in Nat
          /\ (e.retryCount + 1) * RetryInterval <= (MaxForwardRetries + 1) * RetryInterval
      BY <2>1, MoreRounds, Intervals DEF GivenUpInTime
    <2>. QED  BY <2>1, <2>2, Intervals DEF GivenUpInTime
  <1>. QED  BY <1>1 DEF ForwardsEnd

(* A forwarded message is given up within its retries, whenever it was       *)
(* forwarded between two runs of the retry timer (retryFailedForwards).      *)
THEOREM ForwardsEndTheorem == RoutingSpec => []ForwardsEnd
  <1>1. RoutingInit => ForwardInv
    BY RoutingAssumption, Intervals DEF RoutingInit, ForwardInv
  <1>2. ForwardInv /\ [RoutingNext]_routingVars => ForwardInv'
    BY RoutingAssumption, ForwardInvStep
  <1>3. ForwardInv => ForwardsEnd
    BY RoutingAssumption, ForwardInvEnds
  <1>. QED  BY <1>1, <1>2, <1>3, PTL DEF RoutingSpec

-----------------------------------------------------------------------------
(* Waiting for a route.                                                    *)

(* A wait names a destination of the table, which holds nothing for it.     *)
Waits(w, table) ==
    /\ w = [destination |-> w.destination, age |-> w.age]
    /\ w.destination \in Others
    /\ table[w.destination] = <<>>

WaitInv ==
    /\ DOMAIN routes = Others
    /\ \A w \in discoveries : Waits(w, routes)

(* A step that changes no list of a destination someone waits for.          *)
LEMMA WaitKeeps ==
    ASSUME WaitInv, DOMAIN routes' = Others, discoveries' \subseteq discoveries,
           \A w \in discoveries' : routes'[w.destination] = routes[w.destination]
    PROVE  WaitInv'
  BY DEF WaitInv, Waits

(* Errors, lost neighbours and the cleanup only shorten lists of the table.  *)
LEMMA RemovalKeeps ==
    ASSUME WaitInv, NEW kept, DOMAIN kept \subseteq Routed, KeepRoutes(kept),
           UNCHANGED discoveries
    PROVE  WaitInv'
  <1>1. DOMAIN routes' = Others
    BY DEF KeepRoutes
  <1>2. ASSUME NEW w \in discoveries
        PROVE  routes'[w.destination] = routes[w.destination]
    <2>1. w.destination \in Others \ Routed
      BY DEF WaitInv, Waits, Routed
    <2>. QED  BY <2>1 DEF KeepRoutes
  <1>. QED  BY <1>1, <1>2, WaitKeeps

(* A wait begins only without a route.                                     *)
LEMMA SendWaits ==
    ASSUME WaitInv, NEW destination \in Others, SendRouted(destination), UNCHANGED routes
    PROVE  WaitInv'
  <1>1. CASE UNCHANGED discoveries
    BY <1>1 DEF WaitInv, Waits
  <1>2. CASE /\ routes[destination] = <<>>
             /\ discoveries' = {[destination |-> destination, age |-> 0]}
    BY <1>2 DEF WaitInv, Waits
  <1>. QED  BY <1>1, <1>2 DEF SendRouted, Discover

(* A reply changes one list and resumes all who wait for it.                *)
LEMMA ReplyResumes ==
    ASSUME WaitInv, NEW r, OnRouteReply(r)
    PROVE  WaitInv'
  <1>1. DOMAIN routes' = Others
    BY DEF OnRouteReply, AddRoute, WaitInv
  <1>2. ASSUME NEW w \in discoveries'
        PROVE  w \in discoveries /\ w.destination # r.destination
    BY <1>2 DEF OnRouteReply, ResumeDiscoveries
  <1>3. ASSUME NEW w \in discoveries'
        PROVE  routes'[w.destination] = routes[w.destination]
    <2>1. w.destination \in DOMAIN routes
      BY <1>2 DEF WaitInv, Waits
    <2>. QED  BY <1>2, <2>1 DEF OnRouteReply, AddRoute
  <1>. QED  BY <1>1, <1>2, <1>3, WaitKeeps

LEMMA TickWaits ==
    ASSUME WaitInv, Tick
    PROVE  WaitInv'
  <1>1. DOMAIN routes' = Others
    BY DEF Tick
  <1>2. ASSUME NEW w \in discoveries
        PROVE  Waits([w EXCEPT !.age = @ + 1], routes')
    <2>1. Waits(w, routes)
      BY DEF WaitInv
    <2>2. [w EXCEPT !.age = @ + 1] = [destination |-> w.destination, age |-> w.age + 1]
      BY <2>1 DEF Waits
    <2>3. routes'[w.destination] = <<>>
      BY <2>1 DEF Waits, Tick
    <2>. QED  BY <2>1, <2>2, <2>3 DEF Waits
  <1>. QED  BY <1>1, <1>2 DEF WaitInv, Tick, Older

LEMMA WaitInvStep ==
    ASSUME RoutingAssumption, WaitInv, [RoutingNext]_routingVars
    PROVE  WaitInv'
  <1>. USE DEF forwardVars, routeVars
  <1>1. ASSUME UNCHANGED routes, discoveries' \subseteq discoveries
        PROVE  WaitInv'
    BY <1>1 DEF WaitInv, Waits
  <1>2. CASE Connect \/ Disconnect
    BY <1>1, <1>2 DEF Connect, Disconnect
  <1>3. CASE CleanupStaleRoutes
    BY <1>3, RemovalKeeps DEF CleanupStaleRoutes
  <1>4. CASE ClearAllRoutes
    BY <1>4 DEF ClearAllRoutes, WaitInv, Waits
  <1>5. CASE RetryFailedForwards \/ ClearPendingForwards \/ DiscoveryTimeout
    BY <1>1, <1>5 DEF RetryFailedForwards, ClearPendingForwards, DiscoveryTimeout, GiveUp
  <1>6. CASE \E e \in pendingForwards : HandleAcknowledgment(e)
    BY <1>1, <1>6 DEF HandleAcknowledgment
  <1>7. CASE \E d \in Others : SendRoutedMessage(d) \/ SendMessage({d})
    BY <1>7, SendWaits DEF SendRoutedMessage, SendMessage
  <1>8. CASE SendMessage({})
    BY <1>1, <1>8 DEF SendMessage
  <1>9. CASE ProcessRoutingMessage
    <2>1. ASSUME NEW r \in Requests, HandleRouteRequest(r)
          PROVE  WaitInv'
      <3>1. r.originator \in Others
        BY RoutingAssumption DEF RoutingAssumption, UTXORouteRequest
      <3>. QED  BY <2>1, <3>1, SendWaits DEF HandleRouteRequest, OnRouteRequest
    <2>2. ASSUME NEW r \in Replies, HandleRouteReply(r)
          PROVE  WaitInv'
      BY <2>2, ReplyResumes DEF HandleRouteReply
    <2>3. ASSUME NEW e \in RouteErrors, HandleRouteError(e)
          PROVE  WaitInv'
      BY <2>3, RemovalKeeps DEF HandleRouteError, OnRouteError, RemoveRoutes
    <2>4. ASSUME NEW h \in Hellos, HandleHelloMessage(h)
          PROVE  WaitInv'
      BY <1>1, <2>4 DEF HandleHelloMessage, OnHello
    <2>. QED  BY <1>9, <2>1, <2>2, <2>3, <2>4 DEF ProcessRoutingMessage
  <1>10. CASE \E n \in Others : NeighborDiscovered(n) \/ NeighborLost(n)
    BY <1>1, <1>10 DEF NeighborDiscovered, NeighborLost
  <1>11. CASE \E i \in DOMAIN hellos : SendHello(i)
    BY <1>1, <1>11 DEF SendHello
  <1>12. CASE Tick
    BY <1>12, TickWaits
  <1>13. CASE UNCHANGED routingVars
    BY <1>1, <1>13 DEF routingVars
  <1>. QED
    BY <1>2, <1>3, <1>4, <1>5, <1>6, <1>7, <1>8, <1>9, <1>10, <1>11, <1>12, <1>13 DEF RoutingNext

(* No send waits for a route while the table has one, whatever replies,       *)
(* errors, cleanups and timeouts come in between (discoverRoute).            *)
THEOREM NobodyWaitsInVainTheorem == RoutingSpec => []NobodyWaitsInVain
  <1>1. RoutingInit => WaitInv
    BY DEF RoutingInit, WaitInv
  <1>2. WaitInv /\ [RoutingNext]_routingVars => WaitInv'
    BY RoutingAssumption, WaitInvStep
  <1>3. WaitInv => NobodyWaitsInVain
    BY DEF WaitInv, Waits, NobodyWaitsInVain
  <1>. QED  BY <1>1, <1>2, <1>3, PTL DEF RoutingSpec

-----------------------------------------------------------------------------
(* Floods.                                                                 *)

(* The larger of the two is one of them, and at least either.              *)
LEMMA LargerOfTwo ==
    ASSUME NEW x \in Nat, NEW y \in Nat
    PROVE  Max({x, y}) = IF x >= y THEN x ELSE y
  BY DEF Max

(* Entries that came this instant.                                         *)
Newest == {k \in Cached : floodCache[k].age = 0}

Shaped(e) == e = [messageId |-> e.messageId, age |-> e.age, processed |-> e.processed]

(* Each was accepted since the last tick, and no entry outlives the cleanup  *)
(* after its expiry.                                                       *)
CacheInv ==
    /\ floodCleanupIn \in 0 .. CleanupInterval
    /\ accepted \in Nat /\ worstBurst \in Nat /\ accepted <= worstBurst
    /\ IsFiniteSet(Cached)
    /\ \A k \in Cached :
           /\ Shaped(floodCache[k])
           /\ floodCache[k].age \in Nat
           /\ floodCache[k].age + floodCleanupIn <= FloodExpiry + CleanupInterval
    /\ Cardinality(Newest) <= accepted
    /\ FloodCacheBounded

LEMMA FloodConstants ==
    ASSUME FloodAssumption
    PROVE  /\ FloodCacheSize \in Nat \ {0} /\ FloodExpiry \in Nat \ {0}
           /\ CleanupInterval \in Nat \ {0} /\ MaxSequenceNumberAge \in Nat \ {0}
           /\ SequenceNumbers \subseteq Nat
  BY DEF FloodAssumption

(* An older entry than this instant's means that there is an oldest one.    *)
LEMMA OldestExists ==
    ASSUME FloodAssumption, CacheInv, NEW k \in Cached, floodCache[k].age > 0
    PROVE  Oldest # {}
  <1>. DEFINE aboveAll == {n \in Nat : \A l \in Cached : floodCache[l].age <= n}
  <1>1. FloodExpiry + CleanupInterval \in aboveAll
    BY FloodConstants DEF CacheInv
  <1>2. PICK n \in aboveAll : \A m \in aboveAll : ~ (<<m, n>> \in OpToRel(<, Nat))
    BY <1>1, WFMin, NatLessThanWellFounded
  <1>3. \A m \in aboveAll : ~ (m < n)
    BY <1>2 DEF OpToRel
  <1>4. n \in Nat /\ n > 0 /\ \A l \in Cached : floodCache[l].age \in Nat
    BY DEF CacheInv
  <1>5. n - 1 \in Nat /\ n - 1 \notin aboveAll
    BY <1>3, <1>4
  <1>6. PICK l \in Cached : ~ (floodCache[l].age <= n - 1)
    BY <1>5
  <1>7. floodCache[l].age = n
    BY <1>4, <1>6
  <1>8. l \in Oldest
    BY <1>4, <1>7 DEF Oldest
  <1>. QED  BY <1>8

(* What is evicted makes room for one, unless all came this instant.        *)
LEMMA RoomEnough ==
    ASSUME FloodAssumption, CacheInv, NEW kept \in RoomMade
    PROVE  /\ kept \subseteq Cached
           /\ IsFiniteSet(kept)
           /\ \/ Cardinality(kept) + 1 <= FloodCacheSize
              \/ Cardinality(kept) + 1 <= Cardinality(Cached)
              \/ Cardinality(kept) <= accepted
  <1>. IsFiniteSet(Cached) /\ Cardinality(Cached) \in Nat
    BY FS_CardinalityType DEF CacheInv
  <1>1. CASE kept = Cached /\ Cardinality(Cached) < FloodCacheSize
    BY <1>1, FloodConstants
  <1>2. CASE kept = Cached /\ Oldest = {}
    <2>1. \A k \in Cached : floodCache[k].age = 0
      BY <1>2, OldestExists DEF CacheInv
    <2>2. Newest = Cached
      BY <2>1 DEF Newest
    <2>. QED  BY <1>2, <2>2 DEF CacheInv
  <1>3. ASSUME NEW k \in Oldest, kept = Cached \ {k}
        PROVE  kept \subseteq Cached /\ IsFiniteSet(kept) /\ Cardinality(kept) + 1 <= Cardinality(Cached)
    <2>1. k \in Cached
      BY DEF Oldest
    <2>2. IsFiniteSet(Cached \ {k}) /\ Cardinality(Cached \ {k}) = Cardinality(Cached) - 1
      BY <2>1, FS_RemoveElement
    <2>. QED  BY <1>3, <2>2
  <1>. QED  BY <1>1, <1>2, <1>3 DEF RoomMade

LEMMA FloodAccepted ==
    ASSUME FloodAssumption, CacheInv, NEW m, ShouldForwardFlood(m)
    PROVE  CacheInv'
  <1>1. PICK kept \in RoomMade :
            floodCache' = [k \in kept \cup {Key(m)} |->
                             IF k = Key(m) THEN FloodEntry(m) ELSE floodCache[k]]
    BY DEF ShouldForwardFlood
  <1>. DEFINE key == Key(m)
  <1>2. /\ kept \subseteq Cached /\ IsFiniteSet(kept) /\ Cardinality(kept) \in Nat
        /\ IsFiniteSet(kept \cup {key}) /\ Cardinality(kept \cup {key}) \in Nat
        /\ Cardinality(kept \cup {key}) <= Cardinality(kept) + 1
    BY RoomEnough, FS_AddElement, FS_CardinalityType
  <1>3. Cached' = kept \cup {key}
    BY <1>1 DEF Cached
  <1>4. /\ accepted \in Nat /\ accepted' = accepted + 1
        /\ worstBurst \in Nat /\ worstBurst' = Max({worstBurst, accepted + 1})
        /\ worstBurst' \in Nat /\ worstBurst' >= worstBurst /\ worstBurst' >= accepted'
        /\ floodCleanupIn' = floodCleanupIn
    BY LargerOfTwo DEF CacheInv, ShouldForwardFlood
  <1>5. ASSUME NEW k \in Cached'
        PROVE  /\ Shaped(floodCache'[k])
               /\ floodCache'[k].age \in Nat
               /\ floodCache'[k].age + floodCleanupIn <= FloodExpiry + CleanupInterval
    <2>1. CASE k = key
      <3>1. floodCache'[k] = [messageId |-> m.id, age |-> 0, processed |-> FALSE]
        BY <1>1, <2>1 DEF FloodEntry
      <3>. QED  BY <3>1, FloodConstants DEF CacheInv, Shaped
    <2>2. CASE k # key
      <3>1. k \in Cached /\ floodCache'[k] = floodCache[k]
        BY <1>1, <1>2, <1>3, <2>2
      <3>. QED  BY <3>1 DEF CacheInv
    <2>. QED  BY <2>1, <2>2
  <1>6. Cardinality(Newest') <= accepted'
    <2>1. Newest' \subseteq Newest \cup {key}
      BY <1>1, <1>2, <1>3 DEF Newest
    <2>2. IsFiniteSet(Newest) /\ Cardinality(Newest) <= accepted
      BY FS_Subset DEF Newest, CacheInv
    <2>3. /\ Cardinality(Newest) \in Nat
          /\ IsFiniteSet(Newest \cup {key}) /\ Cardinality(Newest \cup {key}) \in Nat
          /\ Cardinality(Newest \cup {key}) <= Cardinality(Newest) + 1
      <3>. DEFINE S == Newest
      <3>1. IsFiniteSet(S)
        BY <2>2
      <3>. HIDE DEF S, key
      <3>2. /\ IsFiniteSet(S \cup {key})
            /\ Cardinality(S \cup {key}) = IF key \in S THEN Cardinality(S) ELSE Cardinality(S) + 1
        BY <3>1, FS_AddElement
      <3>3. Cardinality(S) \in Nat
        BY <3>1, FS_CardinalityType
      <3>4. Cardinality(S \cup {key}) \in Nat /\ Cardinality(S \cup {key}) <= Cardinality(S) + 1
        BY <3>2, <3>3
      <3>. QED  BY <3>2, <3>3, <3>4 DEF S
    <2>4. Cardinality(Newest') <= Cardinality(Newest \cup {key}) /\ Cardinality(Newest') \in Nat
      BY <2>1, <2>3, FS_Subset, FS_CardinalityType
    <2>. QED  BY <1>4, <2>2, <2>3, <2>4
  <1>7. FloodCacheBounded'
    <2>1. Cardinality(Cached) \in Nat /\ Cardinality(Cached) <= Max({FloodCacheSize, worstBurst})
      BY FS_CardinalityType DEF CacheInv, FloodCacheBounded
    <2>2. /\ Max({FloodCacheSize, worstBurst}) = IF FloodCacheSize >= worstBurst THEN FloodCacheSize ELSE worstBurst
          /\ Max({FloodCacheSize, worstBurst'}) = IF FloodCacheSize >= worstBurst' THEN FloodCacheSize ELSE worstBurst'
      BY <1>4, LargerOfTwo, FloodConstants
    <2>3. \/ Cardinality(kept) + 1 <= FloodCacheSize
          \/ Cardinality(kept) + 1 <= Cardinality(Cached)
          \/ Cardinality(kept) <= accepted
      BY RoomEnough
    <2>4. Cardinality(Cached') <= Max({FloodCacheSize, worstBurst'})
      BY <1>2, <1>3, <1>4, <2>1, <2>2, <2>3, FloodConstants
    <2>. QED  BY <2>4 DEF FloodCacheBounded
  <1>. QED  BY <1>2, <1>3, <1>4, <1>5, <1>6, <1>7 DEF CacheInv

(* A step that only shortens the cache, or changes what no bound is about.   *)
LEMMA FewerFloods ==
    ASSUME FloodAssumption, CacheInv, Cached' \subseteq Cached,
           \A k \in Cached' : /\ floodCache'[k].age = floodCache[k].age
                              /\ Shaped(floodCache'[k]),
           UNCHANGED <<accepted, worstBurst, floodCleanupIn>>
    PROVE  CacheInv'
  <1>1. /\ IsFiniteSet(Cached') /\ Cardinality(Cached') \in Nat /\ Cardinality(Cached) \in Nat
        /\ Cardinality(Cached') <= Cardinality(Cached)
    BY FS_Subset, FS_CardinalityType DEF CacheInv
  <1>2. Newest' \subseteq Newest /\ IsFiniteSet(Newest)
    BY FS_Subset DEF Newest, CacheInv
  <1>3. Cardinality(Newest') <= Cardinality(Newest) /\ Cardinality(Newest') \in Nat /\ Cardinality(Newest) \in Nat
    BY <1>2, FS_Subset, FS_CardinalityType
  <1>4. Max({FloodCacheSize, worstBurst}) \in Nat
    BY LargerOfTwo, FloodConstants DEF CacheInv
  <1>. QED  BY <1>1, <1>3, <1>4 DEF CacheInv, FloodCacheBounded

LEMMA FloodsCleanedUp ==
    ASSUME FloodAssumption, CacheInv, CleanupFloods
    PROVE  CacheInv'
  <1>1. Cached' = FreshFloods /\ FreshFloods \subseteq Cached
    BY DEF CleanupFloods, Cached, FreshFloods, Restrict
  <1>2. \A k \in Cached' : floodCache'[k] = floodCache[k]
    BY <1>1 DEF CleanupFloods, Restrict
  <1>3. /\ IsFiniteSet(Cached') /\ Cardinality(Cached') \in Nat /\ Cardinality(Cached) \in Nat
        /\ Cardinality(Cached') <= Cardinality(Cached)
    BY <1>1, FS_Subset, FS_CardinalityType DEF CacheInv
  <1>4. Newest' \subseteq Newest /\ IsFiniteSet(Newest)
    BY <1>1, <1>2, FS_Subset DEF Newest, CacheInv
  <1>5. Cardinality(Newest') <= Cardinality(Newest) /\ Cardinality(Newest') \in Nat /\ Cardinality(Newest) \in Nat
    BY <1>4, FS_Subset, FS_CardinalityType
  <1>6. Max({FloodCacheSize, worstBurst}) \in Nat
    BY LargerOfTwo, FloodConstants DEF CacheInv
  <1>7. ASSUME NEW k \in Cached'
        PROVE  floodCache'[k].age + floodCleanupIn' <= FloodExpiry + CleanupInterval
    BY <1>1, <1>2, FloodConstants DEF FreshFloods, CacheInv, CleanupFloods
  <1>8. /\ floodCleanupIn' \in 0 .. CleanupInterval
        /\ accepted' = accepted /\ worstBurst' = worstBurst
    BY FloodConstants DEF CleanupFloods
  <1>. QED  BY <1>1, <1>2, <1>3, <1>5, <1>6, <1>7, <1>8 DEF CacheInv, FloodCacheBounded

LEMMA FloodsAge ==
    ASSUME FloodAssumption, CacheInv, FloodTick
    PROVE  CacheInv'
  <1>1. Cached' = Cached
    BY DEF FloodTick, Cached
  <1>2. ASSUME NEW k \in Cached
        PROVE  Shaped(floodCache'[k]) /\ floodCache'[k].age = floodCache[k].age + 1
    <2>1. Shaped(floodCache[k]) /\ floodCache'[k] = [floodCache[k] EXCEPT !.age = @ + 1]
      BY DEF FloodTick, CacheInv
    <2>2. floodCache'[k] = [messageId |-> floodCache[k].messageId, age |-> floodCache[k].age + 1,
                            processed |-> floodCache[k].processed]
      BY <2>1 DEF Shaped
    <2>. QED  BY <2>2 DEF Shaped
  <1>3. /\ floodCleanupIn' = floodCleanupIn - 1 /\ floodCleanupIn \in Nat \ {0}
        /\ floodCleanupIn' \in 0 .. CleanupInterval
        /\ accepted' = 0 /\ worstBurst' = worstBurst
    BY FloodConstants DEF FloodTick, CacheInv
  <1>4. Newest' = {}
    <2>1. ASSUME NEW k \in Cached
          PROVE  floodCache'[k].age # 0
      BY <1>2 DEF CacheInv
    <2>. QED  BY <1>1, <2>1 DEF Newest
  <1>5. Cardinality(Newest') = 0
    BY <1>4, FS_EmptySet
  <1>6. ASSUME NEW k \in Cached
        PROVE  /\ Shaped(floodCache'[k])
               /\ floodCache'[k].age \in Nat
               /\ floodCache'[k].age + floodCleanupIn' <= FloodExpiry + CleanupInterval
    <2>1. floodCache[k].age \in Nat /\ floodCache[k].age + floodCleanupIn <= FloodExpiry + CleanupInterval
      BY DEF CacheInv
    <2>. QED  BY <1>2, <1>3, <2>1, FloodConstants
  <1>. QED  BY <1>1, <1>3, <1>5, <1>6 DEF CacheInv, FloodCacheBounded

(* Sequence numbers.                                                       *)

(* What was learned of a node and is not too old is covered by the entry of  *)
(* that node, which is no older and has a number no smaller.                *)
Covered(l) ==
    /\ l.node \in Known
    /\ sequenceNumbers[l.node].age <= l.age
    /\ l.sequenceNumber <= sequenceNumbers[l.node].sequenceNumber

Numbered(e) ==
    /\ e = [sequenceNumber |-> e.sequenceNumber, age |-> e.age]
    /\ e.sequenceNumber \in Nat
    /\ e.age \in Nat

Lesson(l) ==
    /\ l = [node |-> l.node, sequenceNumber |-> l.sequenceNumber, age |-> l.age]
    /\ l.sequenceNumber \in Nat
    /\ l.age \in Nat

NumbersInv ==
    /\ \A n \in Known : Numbered(sequenceNumbers[n])
    /\ \A l \in learned : Lesson(l) /\ (l.age <= MaxSequenceNumberAge => Covered(l))

LEMMA NumberUpdated ==
    ASSUME FloodAssumption, NumbersInv, NEW n, NEW seq \in SequenceNumbers,
           UpdateSequenceNumber(n, seq)
    PROVE  NumbersInv'
  <1>. DEFINE new == [node |-> n, sequenceNumber |-> seq, age |-> 0]
  <1>1. seq \in Nat
    BY FloodConstants
  <1>2. /\ Known' = Known \cup {n}
        /\ sequenceNumbers'[n] = [sequenceNumber |-> seq, age |-> 0]
        /\ \A k \in Known \ {n} : sequenceNumbers'[k] = sequenceNumbers[k]
    BY DEF UpdateSequenceNumber, Known
  <1>3. ASSUME NEW k \in Known'
        PROVE  Numbered(sequenceNumbers'[k])
    <2>1. CASE k = n
      BY <1>1, <1>2, <2>1 DEF Numbered
    <2>2. CASE k # n
      BY <1>2, <2>2 DEF NumbersInv
    <2>. QED  BY <2>1, <2>2
  <1>4. ASSUME NEW l \in learned, l.age <= MaxSequenceNumberAge
        PROVE  Covered(l)'
    <2>1. Lesson(l) /\ Covered(l)
      BY <1>4 DEF NumbersInv
    <2>2. CASE l.node = n
      <3>1. n \in Known /\ seq > sequenceNumbers[n].sequenceNumber /\ sequenceNumbers[n].sequenceNumber \in Nat
        BY <2>1, <2>2 DEF Covered, UpdateSequenceNumber, NewerNumber, NumbersInv, Numbered
      <3>2. l.sequenceNumber <= seq /\ 0 <= l.age
        BY <1>1, <2>1, <2>2, <3>1 DEF Covered, Lesson
      <3>. QED  BY <1>2, <2>2, <3>2 DEF Covered
    <2>3. CASE l.node # n
      BY <1>2, <2>1, <2>3 DEF Covered
    <2>. QED  BY <2>2, <2>3
  <1>5. Lesson(new) /\ Covered(new)'
    <2>1. Lesson(new)
      BY <1>1 DEF Lesson
    <2>. QED  BY <1>1, <1>2, <2>1 DEF Covered
  <1>6. learned' = learned \cup {new}
    BY DEF UpdateSequenceNumber
  <1>. QED  BY <1>3, <1>4, <1>5, <1>6 DEF NumbersInv

(* A forgotten number is too old, and so is all that it covers.             *)
LEMMA NumbersForgotten ==
    ASSUME FloodAssumption, NumbersInv, UNCHANGED learned, Known' \subseteq Known,
           \A n \in Known' : sequenceNumbers'[n] = sequenceNumbers[n],
           \A n \in Known \ Known' : TooOld(n)
    PROVE  NumbersInv'
  <1>1. ASSUME NEW l \in learned, l.age <= MaxSequenceNumberAge
        PROVE  Covered(l)'
    <2>1. Lesson(l) /\ Covered(l) /\ Numbered(sequenceNumbers[l.node])
      BY <1>1 DEF NumbersInv, Covered
    <2>2. ~ TooOld(l.node)
      BY <1>1, <2>1, FloodConstants DEF TooOld, Covered, Lesson, Numbered
    <2>3. l.node \in Known'
      BY <2>1, <2>2 DEF Covered
    <2>. QED  BY <2>1, <2>3 DEF Covered
  <1>. QED  BY <1>1 DEF NumbersInv

LEMMA NumbersAge ==
    ASSUME FloodAssumption, NumbersInv, FloodTick
    PROVE  NumbersInv'
  <1>1. Known' = Known
    BY DEF FloodTick, Known
  <1>2. ASSUME NEW n \in Known
        PROVE  /\ Numbered(sequenceNumbers'[n])
               /\ sequenceNumbers'[n].age = sequenceNumbers[n].age + 1
               /\ sequenceNumbers'[n].sequenceNumber = sequenceNumbers[n].sequenceNumber
    <2>1. /\ Numbered(sequenceNumbers[n])
          /\ sequenceNumbers'[n] = [sequenceNumbers[n] EXCEPT !.age = @ + 1]
      BY DEF FloodTick, NumbersInv
    <2>2. sequenceNumbers'[n] = [sequenceNumber |-> sequenceNumbers[n].sequenceNumber,
                                 age |-> sequenceNumbers[n].age + 1]
      BY <2>1 DEF Numbered
    <2>. QED  BY <2>1, <2>2 DEF Numbered
  <1>3. ASSUME NEW x \in learned, x.age <= MaxSequenceNumberAge
        PROVE  LET l == [x EXCEPT !.age = @ + 1] IN Lesson(l) /\ Covered(l)'
    <2>. DEFINE l == [x EXCEPT !.age = @ + 1]
    <2>1. Lesson(x) /\ Covered(x)
      BY <1>3 DEF NumbersInv
    <2>2. l = [node |-> x.node, sequenceNumber |-> x.sequenceNumber, age |-> x.age + 1]
      BY <2>1 DEF Lesson
    <2>3. Lesson(l)
      BY <2>1, <2>2 DEF Lesson
    <2>4. /\ x.node \in Known /\ Numbered(sequenceNumbers[x.node])
          /\ sequenceNumbers[x.node].age <= x.age
          /\ x.sequenceNumber <= sequenceNumbers[x.node].sequenceNumber
      BY <2>1 DEF Covered, NumbersInv
    <2>5. /\ sequenceNumbers'[x.node].age <= x.age + 1
          /\ x.sequenceNumber <= sequenceNumbers'[x.node].sequenceNumber
      <3>. DEFINE n == x.node
      <3>1. /\ sequenceNumbers'[n].age = sequenceNumbers[n].age + 1
            /\ sequenceNumbers'[n].sequenceNumber = sequenceNumbers[n].sequenceNumber
        BY <1>2, <2>4
      <3>2. x.age \in Nat /\ sequenceNumbers[n].age \in Nat /\ sequenceNumbers[n].age <= x.age
        BY <2>1, <2>4 DEF Numbered, Lesson
      <3>. HIDE DEF n
      <3>3. /\ sequenceNumbers'[n].age <= x.age + 1
            /\ sequenceNumbers'[n].sequenceNumber = sequenceNumbers[n].sequenceNumber
        BY <3>1, <3>2
      <3>. QED  BY <2>4, <3>3 DEF n
    <2>6. l.node = x.node /\ l.sequenceNumber = x.sequenceNumber /\ l.age = x.age + 1
      BY <2>2
    <2>7. Covered(l)'
      <3>. HIDE DEF l
      <3>. QED  BY <1>1, <2>4, <2>5, <2>6 DEF Covered
    <2>. QED  BY <2>3, <2>7
  <1>4. \A l \in learned' : \E x \in learned :
            x.age <= MaxSequenceNumberAge /\ l = [x EXCEPT !.age = @ + 1]
    BY DEF FloodTick
  <1>. QED  BY <1>1, <1>2, <1>3, <1>4 DEF NumbersInv

-----------------------------------------------------------------------------
FloodInv == CacheInv /\ NumbersInv

LEMMA NumbersKept ==
    ASSUME NumbersInv, UNCHANGED <<sequenceNumbers, learned>>
    PROVE  NumbersInv'
  BY DEF NumbersInv, Known, Covered

LEMMA CacheKept ==
    ASSUME CacheInv, UNCHANGED <<floodCache, accepted, worstBurst, floodCleanupIn>>
    PROVE  CacheInv'
  BY DEF CacheInv, Cached, Newest, FloodCacheBounded

LEMMA FloodInvStep ==
    ASSUME FloodAssumption, FloodInv, [FloodCacheNext \/ SequenceNext \/ FloodTimerNext]_floodVars
    PROVE  FloodInv'
  <1>. USE DEF FloodInv
  <1>1. ASSUME NEW m, ShouldForwardFlood(m)
        PROVE  FloodInv'
    BY <1>1, FloodAccepted, NumbersKept DEF ShouldForwardFlood
  <1>2. ASSUME NEW k \in Cached, MarkFloodProcessed(k)
        PROVE  FloodInv'
    <2>1. Cached' = Cached
      BY <1>2 DEF MarkFloodProcessed, Cached
    <2>2. ASSUME NEW l \in Cached
          PROVE  Shaped(floodCache'[l]) /\ floodCache'[l].age = floodCache[l].age
      <3>1. Shaped(floodCache[l])
        BY DEF CacheInv
      <3>2. \/ floodCache'[l] = floodCache[l]
            \/ floodCache'[l] = [floodCache[l] EXCEPT !.processed = TRUE]
        BY <1>2 DEF MarkFloodProcessed, Cached
      <3>3. \/ floodCache'[l] = floodCache[l]
            \/ floodCache'[l] = [messageId |-> floodCache[l].messageId, age |-> floodCache[l].age,
                                 processed |-> TRUE]
        BY <3>1, <3>2 DEF Shaped
      <3>. QED  BY <3>1, <3>3 DEF Shaped
    <2>3. CacheInv'
      BY <1>2, <2>1, <2>2, FewerFloods DEF MarkFloodProcessed
    <2>. QED  BY <1>2, <2>3, NumbersKept DEF MarkFloodProcessed
  <1>3. CASE ClearFloodCache
    <2>1. Cached' = {}
      BY <1>3 DEF ClearFloodCache, Cached
    <2>2. CacheInv'
      BY <1>3, <2>1, FewerFloods DEF ClearFloodCache
    <2>. QED  BY <1>3, <2>2, NumbersKept DEF ClearFloodCache
  <1>4. ASSUME NEW n \in Originators, NEW seq \in SequenceNumbers, UpdateSequenceNumber(n, seq)
        PROVE  FloodInv'
    BY <1>4, NumberUpdated, CacheKept DEF UpdateSequenceNumber
  <1>5. ASSUME NEW n \in Originators, CheckSequenceNumber(n)
        PROVE  FloodInv'
    <2>1. /\ Known' = Known \ {n} /\ TooOld(n)
          /\ \A k \in Known' : sequenceNumbers'[k] = sequenceNumbers[k]
      BY <1>5 DEF CheckSequenceNumber, Known, Restrict
    <2>2. NumbersInv'
      BY <1>5, <2>1, NumbersForgotten DEF CheckSequenceNumber
    <2>. QED  BY <1>5, <2>2, CacheKept DEF CheckSequenceNumber
  <1>6. CASE CleanupFloods
    <2>1. /\ Known' = {n \in Known : ~ TooOld(n)}
          /\ \A k \in Known' : sequenceNumbers'[k] = sequenceNumbers[k]
      BY <1>6 DEF CleanupFloods, Known, Restrict
    <2>2. NumbersInv'
      BY <1>6, <2>1, NumbersForgotten DEF CleanupFloods
    <2>. QED  BY <1>6, <2>2, FloodsCleanedUp
  <1>7. CASE FloodTick
    BY <1>7, FloodsAge, NumbersAge
  <1>8. CASE UNCHANGED floodVars
    BY <1>8, CacheKept, NumbersKept DEF floodVars
  <1>. QED
    BY <1>1, <1>2, <1>3, <1>4, <1>5, <1>6, <1>7, <1>8
    DEF FloodCacheNext, SequenceNext, FloodTimerNext

LEMMA NumbersNotReplayed ==
    ASSUME FloodAssumption, NumbersInv
    PROVE  NoReplayWhileFresh
  <1>1. ASSUME NEW l \in learned, l.age <= MaxSequenceNumberAge
        PROVE  ~ IsValidSequenceNumber(l.node, l.sequenceNumber)
    <2>1. Lesson(l) /\ Covered(l) /\ Numbered(sequenceNumbers[l.node])
      BY <1>1 DEF NumbersInv, Covered
    <2>. QED
      BY <1>1, <2>1, FloodConstants DEF IsValidSequenceNumber, TooOld, Covered, Lesson, Numbered
  <1>. QED  BY <1>1 DEF NoReplayWhileFresh

(* The flood cache stays within its limit or the worst burst, and a sequence  *)
(* number is not accepted twice while it is remembered, for any messages,     *)
(* limits and intervals (shouldForwardFlood, updateSequenceNumber).           *)
THEOREM FloodControlSoundTheorem == FloodSpec => []FloodControlSound
  <1>1. FloodInit => FloodInv
    <2>. SUFFICES ASSUME FloodInit PROVE FloodInv
      OBVIOUS
    <2>1. Cached = {} /\ Known = {} /\ learned = {}
      BY DEF FloodInit, Cached, Known
    <2>2. Newest = {} /\ Cardinality({}) = 0 /\ IsFiniteSet({})
      BY <2>1, FS_EmptySet DEF Newest
    <2>3. Max({FloodCacheSize, worstBurst}) = FloodCacheSize
      BY LargerOfTwo, FloodAssumption, FloodConstants DEF FloodInit
    <2>4. CacheInv
      BY <2>1, <2>2, <2>3, FloodAssumption, FloodConstants DEF FloodInit, CacheInv, FloodCacheBounded
    <2>. QED  BY <2>1, <2>4 DEF FloodInv, NumbersInv
  <1>2. FloodInv /\ [FloodCacheNext \/ SequenceNext \/ FloodTimerNext]_floodVars => FloodInv'
    BY FloodAssumption, FloodInvStep
  <1>3. FloodInv => FloodControlSound
    BY FloodAssumption, NumbersNotReplayed DEF FloodInv, CacheInv, FloodControlSound
  <1>. QED  BY <1>1, <1>2, <1>3, PTL DEF FloodSpec


-----------------------------------------------------------------------------
(* The route table: its lists are filtered and sorted, and the sorted list  *)
(* holds what the list held. Places are given by counting: the element that *)
(* comes k-th is the one with k elements at or before it.                    *)

LEMMA Positions ==
    ASSUME NEW n \in Nat
    PROVE  IsFiniteSet(1 .. n) /\ Cardinality(1 .. n) = n
  <1>1. IsFiniteSet(1 .. n) /\ Cardinality(1 .. n) = IF 1 > n THEN 0 ELSE n - 1 + 1
    BY FS_Interval
  <1> QED
    BY <1>1

(* Where the sets of those at or before an element form a chain, every      *)
(* place is taken.                                                         *)
LEMMA EveryPlaceTaken ==
    ASSUME NEW I, IsFiniteSet(I), NEW before,
           \A j \in I : before[j] \subseteq I /\ j \in before[j],
           \A j, k \in I : j # k => \/ before[j] \subseteq before[k] /\ k \notin before[j]
                                    \/ before[k] \subseteq before[j] /\ j \notin before[k],
           NEW n \in 1 .. Cardinality(I)
    PROVE  \E j \in I : Cardinality(before[j]) = n
  <1> SUFFICES ASSUME \A j \in I : Cardinality(before[j]) # n
               PROVE  FALSE
    OBVIOUS
  <1>1. Cardinality(I) \in Nat
    BY FS_CardinalityType
  <1> DEFINE places == (1 .. Cardinality(I)) \ {n}
             place == [j \in I |-> Cardinality(before[j])]
  <1>2. ASSUME NEW j \in I
        PROVE  /\ IsFiniteSet(before[j])
               /\ Cardinality(before[j]) \in places
    <2>1. IsFiniteSet(before[j]) /\ Cardinality(before[j]) <= Cardinality(I)
      BY FS_Subset
    <2>2. Cardinality(before[j]) \in Nat /\ Cardinality(before[j]) # 0
      BY <2>1, FS_CardinalityType, FS_EmptySet
    <2> QED
      BY <1>1, <2>1, <2>2
  <1>3. IsFiniteSet(places) /\ Cardinality(places) < Cardinality(I)
    <2>1. IsFiniteSet(1 .. Cardinality(I)) /\ Cardinality(1 .. Cardinality(I)) = Cardinality(I)
      BY <1>1, Positions
    <2>2. IsFiniteSet(places) /\ Cardinality(places) = Cardinality(1 .. Cardinality(I)) - 1
      BY <2>1, FS_RemoveElement
    <2> QED
      BY <1>1, <2>1, <2>2
  <1>4. place \in [I -> places]
    BY <1>2
  <1> HIDE DEF places, place
  <1>5. PICK j, k \in I : j # k /\ place[j] = place[k]
    BY <1>3, <1>4, FS_PigeonHole
  <1>6. Cardinality(before[j]) = Cardinality(before[k])
    BY <1>5 DEF place
  <1>7. before[j] = before[k]
    <2>1. \/ before[j] \subseteq before[k]
          \/ before[k] \subseteq before[j]
      BY <1>5
    <2> QED
      BY <1>2, <1>6, <2>1, FS_Subset
  <1> QED
    BY <1>5, <1>7

(* filter: a list of elements of the list, at the positions given.          *)
LEMMA FilteredList ==
    ASSUME NEW T, NEW s \in Seq(T), NEW I, I \subseteq DOMAIN s
    PROVE  /\ Filtered(s, I) \in Seq(T)
           /\ \A r \in Range(Filtered(s, I)) : \E i \in I : r = s[i]
  <1> DEFINE before == [i \in I |-> {j \in I : j <= i}]
             Nth(k) == CHOOSE i \in I : Cardinality({j \in I : j <= i}) = k
  <1>1. IsFiniteSet(I)
    <2>1. DOMAIN s = 1 .. Len(s) /\ Len(s) \in Nat
      OBVIOUS
    <2>2. IsFiniteSet(DOMAIN s)
      BY <2>1, Positions
    <2> QED
      BY <2>2, FS_Subset
  <1>2. ASSUME NEW k \in 1 .. Cardinality(I)
        PROVE  Nth(k) \in I
    <2>1. \A j \in I : before[j] \subseteq I /\ j \in before[j]
      OBVIOUS
    <2>2. \A j, m \in I : j # m => \/ before[j] \subseteq before[m] /\ m \notin before[j]
                                   \/ before[m] \subseteq before[j] /\ j \notin before[m]
      OBVIOUS
    <2> HIDE DEF before
    <2>3. PICK j \in I : Cardinality(before[j]) = k
      BY <1>1, <2>1, <2>2, EveryPlaceTaken
    <2>4. Cardinality({m \in I : m <= j}) = k
      BY <2>3 DEF before
    <2> QED
      BY <2>4
  <1>3. Filtered(s, I) = [k \in 1 .. Cardinality(I) |-> s[Nth(k)]]
    BY DEF Filtered
  <1>4. Cardinality(I) \in Nat
    BY <1>1, FS_CardinalityType
  <1> HIDE DEF Nth
  <1>5. PICK f : f = Filtered(s, I)
    OBVIOUS
  <1>6. f \in Seq(T)
    BY <1>2, <1>3, <1>4, <1>5
  <1>7. \A r \in Range(f) : \E i \in I : r = s[i]
    BY <1>2, <1>3, <1>5 DEF Range
  <1> QED
    BY <1>5, <1>6, <1>7

(* sort: a list of the elements of the list, as long as it.                 *)
RouteSorted(s, d) ==
    LET Priority(r) == RoutePriority(d, r)
    IN SortByFalling(s, Priority)

LEMMA RoutePriorityInt ==
    ASSUME RoutingAssumption, NEW d \in Others, NEW r \in BlockchainRouteEntry
    PROVE  RoutePriority(d, r) \in Int
  <1>1. NodeType[d] \in NodeTypes
    BY DEF RoutingAssumption
  <1>2. TypeScore(NodeType[d]) \in Int
    BY <1>1 DEF NodeTypes, TypeScore
  <1>3. r.merit \in Int /\ r.hopCount \in Int
    BY DEF BlockchainRouteEntry, MaxHopCount
  <1> QED
    BY <1>2, <1>3 DEF RoutePriority

LEMMA SortedList ==
    ASSUME RoutingAssumption, NEW d \in Others, NEW s \in Seq(BlockchainRouteEntry)
    PROVE  /\ RouteSorted(s, d) \in Seq(BlockchainRouteEntry)
           /\ Len(RouteSorted(s, d)) = Len(s)
           /\ Range(RouteSorted(s, d)) \subseteq Range(s)
  <1>1. PICK key : key = [i \in DOMAIN s |-> RoutePriority(d, s[i])]
    OBVIOUS
  <1>2. key \in [DOMAIN s -> Int]
    BY <1>1, RoutePriorityInt
  <1> DEFINE First(j) == {k \in DOMAIN s : \/ RoutePriority(d, s[k]) > RoutePriority(d, s[j])
                                           \/ RoutePriority(d, s[k]) = RoutePriority(d, s[j]) /\ k <= j}
             before == [j \in DOMAIN s |-> First(j)]
             At(i) == CHOOSE j \in DOMAIN s : Cardinality(First(j)) = i
  <1>3. RouteSorted(s, d) = [i \in DOMAIN s |-> s[At(i)]]
    BY Zenon DEF RouteSorted, SortByFalling
  <1>4. DOMAIN s = 1 .. Len(s) /\ Len(s) \in Nat
    OBVIOUS
  <1>5. IsFiniteSet(DOMAIN s) /\ Cardinality(DOMAIN s) = Len(s)
    <2>1. IsFiniteSet(1 .. Len(s)) /\ Cardinality(1 .. Len(s)) = Len(s)
      BY <1>4, Positions
    <2> QED
      BY <1>4, <2>1
  <1>6. ASSUME NEW i \in DOMAIN s
        PROVE  At(i) \in DOMAIN s
    <2>1. ASSUME NEW j \in DOMAIN s, NEW k \in DOMAIN s
          PROVE  k \in before[j] <=> key[k] > key[j] \/ (key[k] = key[j] /\ k <= j)
      BY <1>1
    <2>2. \A j \in DOMAIN s : before[j] \subseteq DOMAIN s
      OBVIOUS
    <2>3. \A j \in DOMAIN s : before[j] = First(j)
      OBVIOUS
    <2>0. At(i) = CHOOSE j \in DOMAIN s : Cardinality(First(j)) = i
      OBVIOUS
    <2> HIDE DEF before, First, At
    <2>4. \A j \in DOMAIN s : key[j] \in Int /\ j \in Int
      BY <1>2, <1>4
    <2>5. \A j \in DOMAIN s : before[j] \subseteq DOMAIN s /\ j \in before[j]
      BY <2>1, <2>2, <2>4
    <2>6. ASSUME NEW j \in DOMAIN s, NEW m \in DOMAIN s, j # m
          PROVE  \/ before[j] \subseteq before[m] /\ m \notin before[j]
                 \/ before[m] \subseteq before[j] /\ j \notin before[m]
      <3>1. ASSUME NEW a \in DOMAIN s, NEW b \in DOMAIN s,
                   key[a] > key[b] \/ (key[a] = key[b] /\ a < b)
            PROVE  before[a] \subseteq before[b] /\ b \notin before[a]
        <4>1. ASSUME NEW k \in before[a]
              PROVE  k \in before[b]
          <5>1. k \in DOMAIN s
            BY <2>2, <4>1
          <5>2. key[k] > key[a] \/ (key[k] = key[a] /\ k <= a)
            BY <2>1, <4>1, <5>1
          <5>3. /\ key[a] \in Int /\ key[b] \in Int /\ key[k] \in Int
                /\ a \in Int /\ b \in Int /\ k \in Int
            BY <2>4, <5>1
          <5>4. PICK x \in Int, y \in Int, z \in Int : x = key[a] /\ y = key[b] /\ z = key[k]
            BY <5>3
          <5>5. /\ z > x \/ (z = x /\ k <= a)
                /\ x > y \/ (x = y /\ a < b)
            BY <3>1, <5>2, <5>4
          <5>6. z > y \/ (z = y /\ k <= b)
            BY SMTT(30), <5>3, <5>5
          <5> QED
            BY <2>1, <5>1, <5>4, <5>6
        <4>2. ~(key[b] > key[a] \/ (key[b] = key[a] /\ b <= a))
          <5>1. key[a] \in Int /\ key[b] \in Int /\ a \in Int /\ b \in Int
            BY <2>4
          <5> QED
            BY SMTT(30), <3>1, <5>1
        <4> QED
          BY <2>1, <4>1, <4>2
      <3>2. \/ key[j] > key[m] \/ (key[j] = key[m] /\ j < m)
            \/ key[m] > key[j] \/ (key[m] = key[j] /\ m < j)
        BY SMTT(30), <2>4, <2>6
      <3> QED
        BY <3>1, <3>2
    <2>7. i \in 1 .. Cardinality(DOMAIN s)
      BY <1>4, <1>5
    <2>8. PICK j \in DOMAIN s : Cardinality(before[j]) = i
      BY <1>5, <2>5, <2>6, <2>7, EveryPlaceTaken
    <2> QED
      BY <2>0, <2>3, <2>8
  <1> HIDE DEF At
  <1>7. PICK f : f = RouteSorted(s, d)
    OBVIOUS
  <1>8. f \in Seq(BlockchainRouteEntry) /\ Len(f) = Len(s)
    BY <1>3, <1>4, <1>6, <1>7
  <1>9. Range(f) \subseteq Range(s)
    BY <1>3, <1>6, <1>7 DEF Range
  <1> QED
    BY <1>7, <1>8, <1>9


-----------------------------------------------------------------------------
(* What the table holds after each change.                                 *)

(* A route is old enough to go at the cleanup at the latest: its age grows  *)
(* as the time to the cleanup shrinks.                                     *)
InTime(r, left) == r.age + left <= RouteExpiryTime + RouteCleanupInterval

TableInv(table, nodes, left) ==
    /\ table \in [Others -> Seq(BlockchainRouteEntry)]
    /\ \A d \in Others : \A r \in Range(table[d]) : InTime(r, left)
    /\ nodes = {d \in Others : table[d] # <<>> /\ NodeType[d] # "light"}

LEMMA RouteConstants ==
    ASSUME RoutingAssumption
    PROVE  /\ RouteExpiryTime \in Nat /\ RouteCleanupInterval \in Nat \ {0}
           /\ MaxRoutesPerDestination \in Nat \ {0}
           /\ \A d \in Others : NodeType[d] \in NodeTypes
  BY DEF RoutingAssumption

LEMMA TruncatedList ==
    ASSUME NEW T, NEW s \in Seq(T), s # <<>>, NEW n \in Nat \ {0}
    PROVE  /\ Truncate(s, n) \in Seq(T)
           /\ Truncate(s, n) # <<>>
           /\ Range(Truncate(s, n)) \subseteq Range(s)
  <1>1. CASE Len(s) > n
    <2>1. PICK t : t = SubSeq(s, 1, n)
      OBVIOUS
    <2>2. t \in Seq(T) /\ Len(t) = n /\ \A i \in 1 .. n : t[i] = s[i]
      BY <1>1, <2>1
    <2>3. Truncate(s, n) = t
      BY <1>1, <2>1 DEF Truncate
    <2> QED
      BY <1>1, <2>2, <2>3 DEF Range
  <1>2. CASE ~(Len(s) > n)
    BY <1>2 DEF Truncate
  <1> QED
    BY <1>1, <1>2

LEMMA WithRouteList ==
    ASSUME RoutingAssumption, NEW d \in Others, NEW list \in Seq(BlockchainRouteEntry),
           NEW entry \in BlockchainRouteEntry
    PROVE  /\ WithRoute(list, d, entry) \in Seq(BlockchainRouteEntry)
           /\ WithRoute(list, d, entry) # <<>>
           /\ Range(WithRoute(list, d, entry)) \subseteq Range(list) \cup {entry}
  <1> DEFINE known == {i \in DOMAIN list : list[i].nextHop = entry.nextHop}
             updated == [i \in DOMAIN list |->
                            IF i \in known /\ Supersedes(entry, list[i]) THEN entry ELSE list[i]]
  <1>1. PICK s : s = Append(list, entry)
    OBVIOUS
  <1>2. /\ s \in Seq(BlockchainRouteEntry) /\ Len(s) = Len(list) + 1
        /\ Range(s) \subseteq Range(list) \cup {entry}
    BY <1>1 DEF Range
  <1>3. PICK t : t = RouteSorted(s, d)
    OBVIOUS
  <1>4. /\ t \in Seq(BlockchainRouteEntry) /\ Len(t) = Len(s)
        /\ Range(t) \subseteq Range(s)
    BY <1>2, <1>3, SortedList
  <1>5. t # <<>>
    BY <1>2, <1>4
  <1>6. PICK u : u = Truncate(t, MaxRoutesPerDestination)
    OBVIOUS
  <1>7. /\ u \in Seq(BlockchainRouteEntry) /\ u # <<>>
        /\ Range(u) \subseteq Range(t)
    BY <1>4, <1>5, <1>6, RouteConstants, TruncatedList
  <1>8. WithRoute(list, d, entry) = IF known # {} THEN updated ELSE u
    BY Zenon, <1>1, <1>3, <1>6 DEF WithRoute, RouteSorted
  <1>9. CASE known # {}
    <2>1. DOMAIN list = 1 .. Len(list) /\ Len(list) \in Nat
      OBVIOUS
    <2>2. \A i \in DOMAIN list : updated[i] \in {list[i], entry} /\ updated[i] \in BlockchainRouteEntry
      BY <2>1
    <2>3. DOMAIN updated = 1 .. Len(list)
      BY <2>1
    <2>4. known \subseteq DOMAIN list
      OBVIOUS
    <2>5. WithRoute(list, d, entry) = updated
      BY <1>8, <1>9
    <2> HIDE DEF updated, known
    <2>6. PICK f : f = updated
      OBVIOUS
    <2>7. Range(f) \subseteq Range(list) \cup {entry} /\ DOMAIN f # {}
      BY <1>9, <2>1, <2>2, <2>3, <2>4, <2>6 DEF Range
    <2>8. f = [i \in 1 .. Len(list) |-> f[i]]
      BY <2>3, <2>6 DEF updated
    <2>9. f \in Seq(BlockchainRouteEntry)
      BY <2>1, <2>2, <2>6, <2>8
    <2> QED
      BY <2>5, <2>6, <2>7, <2>9
  <1>10. CASE known = {}
    BY <1>2, <1>4, <1>7, <1>8, <1>10
  <1> QED
    BY <1>9, <1>10

LEMMA EntryTyped ==
    ASSUME RoutingAssumption, NEW r \in Replies, ValidReply(r)
    PROVE  EntryOf(r) \in BlockchainRouteEntry
  <1>1. r \in UTXORouteReply
    BY DEF RoutingAssumption
  <1>2. /\ r.path \in Seq(Others \cup {Self}) /\ r.destination \in Others
        /\ r.sequenceNumber \in Nat /\ r.merit \in Int /\ r.hopCount \in 0 .. MaxHopCount
    BY <1>1 DEF UTXORouteReply, ValidReply
  <1>3. NextHopOf(r) \in Others \cup {Self}
    <2>1. PICK path \in Seq(Others \cup {Self}) : path = r.path
      BY <1>2
    <2>2. ASSUME Len(path) >= 2
          PROVE  path[Len(path) - 1] \in Others \cup {Self}
      BY <2>2
    <2> QED
      BY <1>2, <2>1, <2>2 DEF NextHopOf
  <1> QED
    BY <1>2, <1>3 DEF EntryOf, BlockchainRouteEntry

LEMMA ReplyTable ==
    ASSUME RoutingAssumption, TableInv(routes, priorityNodes, cleanupIn),
           cleanupIn \in 0 .. RouteCleanupInterval,
           NEW d \in Others, NEW entry \in BlockchainRouteEntry, entry.age = 0,
           AddRoute(d, entry)
    PROVE  TableInv(routes', priorityNodes', cleanupIn)
  <1>1. PICK list : list = WithRoute(routes[d], d, entry)
    OBVIOUS
  <1>2. /\ list \in Seq(BlockchainRouteEntry) /\ list # <<>>
        /\ Range(list) \subseteq Range(routes[d]) \cup {entry}
    <2>1. routes[d] \in Seq(BlockchainRouteEntry)
      BY DEF TableInv
    <2> QED
      BY <1>1, <2>1, WithRouteList
  <1>3. routes' = [routes EXCEPT ![d] = list]
    BY <1>1 DEF AddRoute
  <1>4. routes' \in [Others -> Seq(BlockchainRouteEntry)]
    BY <1>2, <1>3 DEF TableInv
  <1>5. /\ routes'[d] = list
        /\ \A x \in Others : x # d => routes'[x] = routes[x]
    BY <1>3 DEF TableInv
  <1>6. InTime(entry, cleanupIn)
    BY RouteConstants DEF InTime
  <1>7. \A x \in Others : \A r \in Range(routes'[x]) : InTime(r, cleanupIn)
    BY <1>2, <1>5, <1>6 DEF TableInv
  <1>8. priorityNodes' = {x \in Others : routes'[x] # <<>> /\ NodeType[x] # "light"}
    <2>1. NodeType[d] \in {"full", "mining"} <=> NodeType[d] # "light"
      BY RouteConstants DEF NodeTypes
    <2> QED
      BY <1>2, <1>5, <2>1 DEF AddRoute, TableInv
  <1> QED
    BY <1>4, <1>7, <1>8 DEF TableInv

(* Lists of the table are replaced by lists of what is in them.            *)
LEMMA KeptTable ==
    ASSUME TableInv(routes, priorityNodes, cleanupIn), NEW left, NEW kept,
           KeepRoutes(kept), DOMAIN kept \subseteq Routed,
           \A d \in DOMAIN kept :
               /\ kept[d] \in Seq(BlockchainRouteEntry)
               /\ \A r \in Range(kept[d]) : InTime(r, left),
           \A d \in Others \ DOMAIN kept : \A r \in Range(routes[d]) : InTime(r, left)
    PROVE  TableInv(routes', priorityNodes', left)
  <1>1. routes' = [d \in Others |-> IF d \in DOMAIN kept THEN kept[d] ELSE routes[d]]
    BY DEF KeepRoutes
  <1>2. routes' \in [Others -> Seq(BlockchainRouteEntry)]
    BY <1>1 DEF TableInv
  <1>3. \A d \in Others : \A r \in Range(routes'[d]) : InTime(r, left)
    BY <1>1
  <1>4. \A d \in Others : d \in DOMAIN kept => d \in Routed
    OBVIOUS
  <1>5. \A d \in Others : d \notin Routed => routes'[d] = <<>> /\ routes[d] = <<>>
    BY <1>1, <1>4 DEF Routed
  <1>6. priorityNodes' = priorityNodes \ {d \in Routed : routes'[d] = <<>>}
    BY DEF KeepRoutes
  <1>7. Routed \subseteq Others /\ \A d \in Routed : routes[d] # <<>>
    BY DEF Routed
  <1>8. priorityNodes' = {d \in Others : routes'[d] # <<>> /\ NodeType[d] # "light"}
    BY <1>5, <1>6, <1>7 DEF TableInv
  <1> QED
    BY <1>2, <1>3, <1>8 DEF TableInv


RouteInv == RoutingTypeOK /\ TableInv(routes, priorityNodes, cleanupIn)

DiscoveriesTyped(set) == set \subseteq [destination : Others, age : 0 .. RouteDiscoveryTimeout]

LEMMA TimerConstants ==
    ASSUME RoutingAssumption
    PROVE  /\ {RouteDiscoveryTimeout, AcknowledgmentTimeout, RetryInterval, HelloInterval,
               MaxHelloTimers} \subseteq Nat \ {0}
           /\ MaxForwardRetries \in Nat
  BY DEF RoutingAssumption

LEMMA ForwardTyped ==
    ASSUME pendingForwards \subseteq BlockchainForwardingEntry,
           NEW hops, hops \subseteq Others \cup {Self}, Forward(hops)
    PROVE  pendingForwards' \subseteq BlockchainForwardingEntry
  <1>1. \A h \in hops : ForwardEntry(h) \in BlockchainForwardingEntry
    BY DEF ForwardEntry, BlockchainForwardingEntry
  <1> QED
    BY <1>1 DEF Forward

LEMMA BroadcastTyped ==
    ASSUME RoutingTypeOK, Broadcast
    PROVE  pendingForwards' \subseteq BlockchainForwardingEntry
  BY ForwardTyped DEF Broadcast, RoutingTypeOK

LEMMA SendTyped ==
    ASSUME RoutingAssumption, RoutingTypeOK, NEW d \in Others, SendRouted(d)
    PROVE  pendingForwards' \subseteq BlockchainForwardingEntry /\ DiscoveriesTyped(discoveries')
  <1>1. CASE routes[d] # <<>>
    <2>1. PICK list \in Seq(BlockchainRouteEntry) : list = routes[d]
      BY DEF RoutingTypeOK
    <2>2. Head(list) \in BlockchainRouteEntry
      BY <1>1, <2>1
    <2>3. PICK hop : hop = BestRouteForUTXO(d).nextHop
      OBVIOUS
    <2>4. {hop} \subseteq Others \cup {Self}
      BY <2>1, <2>2, <2>3 DEF BestRouteForUTXO, BlockchainRouteEntry
    <2>5. Forward({hop}) /\ UNCHANGED discoveries
      BY <1>1, <2>3 DEF SendRouted
    <2> QED
      BY <2>4, <2>5, ForwardTyped DEF RoutingTypeOK, DiscoveriesTyped
  <1>2. CASE routes[d] = <<>>
    <2>1. Broadcast /\ Discover(d)
      BY <1>2 DEF SendRouted
    <2>2. [destination |-> d, age |-> 0] \in [destination : Others, age : 0 .. RouteDiscoveryTimeout]
      BY TimerConstants
    <2>3. DiscoveriesTyped(discoveries')
      BY <2>1, <2>2 DEF Discover, DiscoveriesTyped, RoutingTypeOK
    <2> QED
      BY <2>1, <2>3, BroadcastTyped
  <1> QED
    BY <1>1, <1>2

(* A step that leaves the table, the connection and the timers alone.      *)
LEMMA SendKeepsRoutes ==
    ASSUME RouteInv, pendingForwards' \subseteq BlockchainForwardingEntry,
           DiscoveriesTyped(discoveries'),
           UNCHANGED <<isConnected, neighbors, height, routes, priorityNodes, hellos, cleanupIn, retryIn>>
    PROVE  RouteInv'
  BY DEF RouteInv, RoutingTypeOK, DiscoveriesTyped

(* A step that changes the table alone.                                    *)
LEMMA TableKeepsRoutes ==
    ASSUME RouteInv, TableInv(routes', priorityNodes', cleanupIn),
           UNCHANGED <<isConnected, neighbors, height, pendingForwards, discoveries, hellos, cleanupIn, retryIn>>
    PROVE  RouteInv'
  BY DEF RouteInv, RoutingTypeOK, TableInv

LEMMA CleanupKeepsRoutes ==
    ASSUME RoutingAssumption, RouteInv, CleanupStaleRoutes
    PROVE  RouteInv'
  <1> DEFINE kept == [d \in Routed |-> FreshRoutes(routes[d])]
  <1>1. KeepRoutes(kept) /\ cleanupIn' = RouteCleanupInterval
    BY DEF CleanupStaleRoutes
  <1>2. ASSUME NEW d \in Routed
        PROVE  /\ kept[d] \in Seq(BlockchainRouteEntry)
               /\ \A r \in Range(kept[d]) : InTime(r, RouteCleanupInterval)
    <2>1. d \in Others
      BY DEF Routed
    <2>2. PICK list \in Seq(BlockchainRouteEntry) : list = routes[d]
      BY <2>1 DEF RouteInv, TableInv
    <2>3. PICK I : I = {i \in DOMAIN list : list[i].age <= RouteExpiryTime}
      OBVIOUS
    <2>4. kept[d] = Filtered(list, I)
      BY <2>2, <2>3 DEF FreshRoutes
    <2>5. /\ Filtered(list, I) \in Seq(BlockchainRouteEntry)
          /\ \A r \in Range(Filtered(list, I)) : \E i \in I : r = list[i]
      BY <2>3, FilteredList
    <2>6. ASSUME NEW i \in I
          PROVE  InTime(list[i], RouteCleanupInterval)
      <3>1. list[i] \in BlockchainRouteEntry /\ list[i].age <= RouteExpiryTime
        BY <2>3
      <3>2. list[i].age \in Nat
        BY <3>1 DEF BlockchainRouteEntry
      <3> QED
        BY <3>1, <3>2, RouteConstants DEF InTime
    <2> HIDE DEF kept
    <2> QED
      BY <2>4, <2>5, <2>6
  <1>3. \A d \in Others \ Routed : Range(routes[d]) = {}
    BY DEF Routed, Range
  <1>4. DOMAIN kept = Routed
    OBVIOUS
  <1> HIDE DEF kept
  <1>5. TableInv(routes', priorityNodes', RouteCleanupInterval)
    BY <1>1, <1>2, <1>3, <1>4, KeptTable DEF RouteInv
  <1>6. RouteCleanupInterval \in 0 .. RouteCleanupInterval
    BY RouteConstants
  <1> QED
    BY <1>1, <1>5, <1>6 DEF CleanupStaleRoutes, RouteInv, RoutingTypeOK, TableInv, forwardVars

LEMMA ErrorKeepsRoutes ==
    ASSUME RouteInv, NEW e, OnRouteError(e)
    PROVE  RouteInv'
  <1>1. PICK to, destinations : to = e.to /\ destinations = Routed \cap e.affectedDestinations
    OBVIOUS
  <1> DEFINE kept == [d \in destinations |-> WithoutHop(routes[d], to)]
  <1>2. KeepRoutes(kept)
    BY <1>1 DEF OnRouteError, RemoveRoutes
  <1>3. ASSUME NEW d \in destinations
        PROVE  /\ kept[d] \in Seq(BlockchainRouteEntry)
               /\ \A r \in Range(kept[d]) : InTime(r, cleanupIn)
    <2>1. d \in Others
      BY <1>1 DEF Routed
    <2>2. PICK list \in Seq(BlockchainRouteEntry) : list = routes[d]
      BY <2>1 DEF RouteInv, TableInv
    <2>3. PICK I : I = {i \in DOMAIN list : list[i].nextHop # to}
      OBVIOUS
    <2>4. kept[d] = Filtered(list, I)
      BY <2>2, <2>3 DEF WithoutHop
    <2>5. /\ Filtered(list, I) \in Seq(BlockchainRouteEntry)
          /\ \A r \in Range(Filtered(list, I)) : \E i \in I : r = list[i]
      BY <2>3, FilteredList
    <2>6. \A i \in I : InTime(list[i], cleanupIn)
      BY <2>1, <2>2, <2>3 DEF RouteInv, TableInv, Range
    <2> HIDE DEF kept
    <2> QED
      BY <2>4, <2>5, <2>6
  <1>4. DOMAIN kept = destinations
    OBVIOUS
  <1> HIDE DEF kept
  <1>5. \A d \in Others \ destinations : \A r \in Range(routes[d]) : InTime(r, cleanupIn)
    BY DEF RouteInv, TableInv
  <1>6. destinations \subseteq Routed
    BY <1>1
  <1>7. TableInv(routes', priorityNodes', cleanupIn)
    BY <1>2, <1>3, <1>4, <1>5, <1>6, KeptTable DEF RouteInv
  <1> QED
    BY <1>7, TableKeepsRoutes DEF OnRouteError, forwardVars, timerVars

LEMMA ReplyKeepsRoutes ==
    ASSUME RoutingAssumption, RouteInv, NEW r \in Replies, HandleRouteReply(r)
    PROVE  RouteInv'
  <1>1. PICK entry \in BlockchainRouteEntry : entry = EntryOf(r)
    BY EntryTyped DEF HandleRouteReply
  <1>2. PICK d \in Others : d = r.destination
    BY DEF RoutingAssumption, UTXORouteReply
  <1>3. AddRoute(d, entry) /\ entry.age = 0
    BY <1>1, <1>2 DEF HandleRouteReply, OnRouteReply, EntryOf
  <1>4. cleanupIn \in 0 .. RouteCleanupInterval
    BY DEF RouteInv, RoutingTypeOK
  <1>5. TableInv(routes', priorityNodes', cleanupIn)
    BY <1>3, <1>4, ReplyTable DEF RouteInv
  <1>6. PICK list \in Seq(BlockchainRouteEntry) : list = routes'[d]
    BY <1>5 DEF TableInv
  <1>7. list # <<>>
    <2>1. PICK known \in Seq(BlockchainRouteEntry) : known = routes[d]
      BY DEF RouteInv, TableInv
    <2>2. list = WithRoute(known, d, entry)
      BY <1>3, <1>6, <2>1 DEF AddRoute, RouteInv, TableInv
    <2>3. WithRoute(known, d, entry) # <<>>
      BY <2>1, WithRouteList
    <2> QED
      BY <2>2, <2>3
  <1>8. Head(list).nextHop \in Others \cup {Self}
    <2>1. Head(list) \in BlockchainRouteEntry
      BY <1>6, <1>7
    <2> QED
      BY <2>1 DEF BlockchainRouteEntry
  <1>9. PICK resumed : resumed = {w \in discoveries : w.destination = d}
    OBVIOUS
  <1>10. PICK hops : hops = {Head(routes'[d]).nextHop : w \in resumed}
    OBVIOUS
  <1>11. hops \subseteq Others \cup {Self}
    BY <1>6, <1>8, <1>10
  <1>12. discoveries' = discoveries \ resumed /\ Forward(hops)
    BY <1>2, <1>9, <1>10 DEF HandleRouteReply, OnRouteReply, ResumeDiscoveries
  <1>13. pendingForwards' \subseteq BlockchainForwardingEntry
    BY <1>11, <1>12, ForwardTyped DEF RouteInv, RoutingTypeOK
  <1> QED
    BY <1>5, <1>12, <1>13 DEF HandleRouteReply, OnRouteReply, timerVars, RouteInv, RoutingTypeOK, TableInv


LEMMA RetryKeepsRoutes ==
    ASSUME RoutingAssumption, RouteInv, RetryFailedForwards
    PROVE  RouteInv'
  <1>1. ASSUME NEW e \in pendingForwards
        PROVE  Retried(e) \subseteq BlockchainForwardingEntry
    <2>1. e \in BlockchainForwardingEntry
      BY DEF RouteInv, RoutingTypeOK
    <2>2. [e EXCEPT !.retryCount = @ + 1] \in BlockchainForwardingEntry
      BY <2>1 DEF BlockchainForwardingEntry
    <2> QED
      BY <2>1, <2>2 DEF Retried
  <1>2. pendingForwards' \subseteq BlockchainForwardingEntry
    BY <1>1 DEF RetryFailedForwards
  <1>3. RetryInterval \in 0 .. RetryInterval
    BY TimerConstants
  <1> QED
    BY <1>2, <1>3 DEF RetryFailedForwards, RouteInv, RoutingTypeOK, TableInv, routeVars

LEMMA ConnectionKeepsRoutes ==
    ASSUME RoutingAssumption, RouteInv, Connect \/ Disconnect
    PROVE  RouteInv'
  <1>1. HelloInterval \in 0 .. HelloInterval
    BY TimerConstants
  <1>2. CASE Connect
    <2>1. pendingForwards' \subseteq BlockchainForwardingEntry
      BY <1>2, BroadcastTyped DEF Connect, RouteInv
    <2>2. hellos' \in Seq(0 .. HelloInterval)
      BY <1>1, <1>2 DEF Connect, RouteInv, RoutingTypeOK
    <2> QED
      BY <1>2, <2>1, <2>2 DEF Connect, RouteInv, RoutingTypeOK, TableInv, routeVars
  <1>3. CASE Disconnect
    BY <1>3 DEF Disconnect, RouteInv, RoutingTypeOK, TableInv, routeVars, forwardVars, timerVars
  <1> QED
    BY <1>2, <1>3

LEMMA HelloTimerKeepsRoutes ==
    ASSUME RoutingAssumption, RouteInv, NEW i \in DOMAIN hellos, SendHello(i)
    PROVE  RouteInv'
  <1>1. HelloInterval \in 0 .. HelloInterval
    BY TimerConstants
  <1>2. hellos' \in Seq(0 .. HelloInterval)
    BY <1>1 DEF SendHello, RouteInv, RoutingTypeOK
  <1>3. pendingForwards' \subseteq BlockchainForwardingEntry
    BY BroadcastTyped DEF SendHello, RouteInv, RoutingTypeOK
  <1> QED
    BY <1>2, <1>3 DEF SendHello, RouteInv, RoutingTypeOK, TableInv, routeVars

LEMMA NeighborsKeepRoutes ==
    ASSUME RoutingAssumption, RouteInv,
           \/ \E h \in Hellos : HandleHelloMessage(h)
           \/ \E n \in Others : NeighborDiscovered(n) \/ NeighborLost(n)
    PROVE  RouteInv'
  <1>1. CASE \E h \in Hellos : HandleHelloMessage(h)
    <2>1. PICK h \in Hellos : HandleHelloMessage(h)
      BY <1>1
    <2>2. h.nodeId \in Others /\ h.currentBlockchainHeight \in Nat
      <3>1. h \in BlockchainHelloMessage
        BY DEF RoutingAssumption
      <3> QED
        BY <2>1, <3>1 DEF BlockchainHelloMessage, HandleHelloMessage, ValidHello
    <2>3. neighbors' \subseteq Others /\ height' \in Nat
      BY <2>1, <2>2 DEF HandleHelloMessage, OnHello, RouteInv, RoutingTypeOK
    <2> QED
      BY <2>1, <2>3 DEF HandleHelloMessage, OnHello, RouteInv, RoutingTypeOK, TableInv,
                        routeVars, forwardVars, timerVars
  <1>2. CASE \E n \in Others : NeighborDiscovered(n) \/ NeighborLost(n)
    BY <1>2 DEF NeighborDiscovered, NeighborLost, RouteInv, RoutingTypeOK, TableInv,
                routeVars, forwardVars, timerVars
  <1> QED
    BY <1>1, <1>2

LEMMA TickKeepsRoutes ==
    ASSUME RoutingAssumption, RouteInv, Tick
    PROVE  RouteInv'
  <1>1. cleanupIn' \in 0 .. RouteCleanupInterval /\ retryIn' \in 0 .. RetryInterval
    BY SMTT(30), RouteConstants, TimerConstants DEF Tick, RouteInv, RoutingTypeOK
  <1>2. hellos' \in Seq(0 .. HelloInterval)
    <2>1. \A i \in DOMAIN hellos : hellos[i] \in 0 .. HelloInterval /\ hellos[i] # 0
      BY SMTT(30) DEF Tick, Range, RouteInv, RoutingTypeOK
    <2>2. \A i \in DOMAIN hellos : hellos[i] - 1 \in 0 .. HelloInterval
      BY <2>1, TimerConstants
    <2>3. DOMAIN hellos = 1 .. Len(hellos) /\ Len(hellos) \in Nat
      BY DEF RouteInv, RoutingTypeOK
    <2> QED
      BY <2>2, <2>3 DEF Tick
  <1>3. ASSUME NEW d \in Others
        PROVE  /\ routes'[d] \in Seq(BlockchainRouteEntry)
               /\ \A r \in Range(routes'[d]) : InTime(r, cleanupIn')
               /\ routes'[d] = <<>> <=> routes[d] = <<>>
    <2>1. PICK list \in Seq(BlockchainRouteEntry) : list = routes[d]
      BY DEF RouteInv, TableInv
    <2>2. DOMAIN list = 1 .. Len(list) /\ Len(list) \in Nat
      OBVIOUS
    <2>3. PICK older : older = [i \in DOMAIN list |-> [list[i] EXCEPT !.age = @ + 1]]
      OBVIOUS
    <2>4. routes'[d] = older
      BY <2>1, <2>3 DEF Tick
    <2>5. ASSUME NEW i \in DOMAIN list
          PROVE  /\ older[i] \in BlockchainRouteEntry
                 /\ InTime(older[i], cleanupIn')
      <3>1. list[i] \in BlockchainRouteEntry /\ InTime(list[i], cleanupIn)
        BY <2>1, <2>2 DEF RouteInv, TableInv, Range
      <3>2. older[i] = [list[i] EXCEPT !.age = @ + 1]
        BY <2>3
      <3>3. /\ older[i] \in BlockchainRouteEntry
            /\ older[i].age = list[i].age + 1 /\ list[i].age \in Nat
        <4>1. PICK r \in BlockchainRouteEntry : r = list[i]
          BY <3>1
        <4>2. r = [f \in {"nextHop", "hopCount", "sequenceNumber", "age", "merit"} |-> r[f]]
          BY <4>1 DEF BlockchainRouteEntry
        <4>3. r.age \in Nat /\ r.age + 1 \in Nat
          <5>1. r.age \in Nat
            BY <4>1 DEF BlockchainRouteEntry
          <5> QED
            BY <5>1
        <4>4. PICK next : next = r.age + 1
          OBVIOUS
        <4>5. older[i] = [r EXCEPT !.age = next]
          BY <3>2, <4>1, <4>4
        <4>6. [r EXCEPT !.age = next] \in BlockchainRouteEntry
          BY <4>3, <4>4 DEF BlockchainRouteEntry
        <4>7. [r EXCEPT !.age = next].age = next
          BY <4>2
        <4> QED
          BY <4>1, <4>3, <4>4, <4>5, <4>6, <4>7
      <3>4. cleanupIn' = cleanupIn - 1 /\ cleanupIn \in Nat
        BY DEF Tick, RouteInv, RoutingTypeOK
      <3> QED
        BY SMTT(30), <3>1, <3>3, <3>4, RouteConstants DEF InTime
    <2>6. older \in Seq(BlockchainRouteEntry)
      <3>1. DOMAIN older = 1 .. Len(list) /\ older = [i \in 1 .. Len(list) |-> older[i]]
        BY <2>2, <2>3
      <3> QED
        BY <2>2, <2>5, <3>1
    <2>7. DOMAIN older = DOMAIN list
      BY <2>3
    <2>8. \A r \in Range(older) : InTime(r, cleanupIn')
      BY <2>5, <2>7 DEF Range
    <2>9. older = <<>> <=> list = <<>>
      BY <2>6, <2>7
    <2> QED
      BY <2>1, <2>4, <2>6, <2>8, <2>9
  <1>4. TableInv(routes', priorityNodes', cleanupIn')
    <2>1. routes' = [d \in Others |-> routes'[d]]
      BY DEF Tick
    <2>2. routes' \in [Others -> Seq(BlockchainRouteEntry)]
      BY <1>3, <2>1
    <2>3. priorityNodes' = {d \in Others : routes'[d] # <<>> /\ NodeType[d] # "light"}
      BY <1>3 DEF Tick, RouteInv, TableInv
    <2> QED
      BY <1>3, <2>2, <2>3 DEF TableInv
  <1>5. pendingForwards' \subseteq BlockchainForwardingEntry
    <2>1. ASSUME NEW e \in pendingForwards
          PROVE  [e EXCEPT !.age = @ + 1] \in BlockchainForwardingEntry
      <3>1. e \in BlockchainForwardingEntry
        BY DEF RouteInv, RoutingTypeOK
      <3> QED
        BY <3>1 DEF BlockchainForwardingEntry
    <2> QED
      BY <2>1 DEF Tick, Older
  <1>6. DiscoveriesTyped(discoveries')
    <2>1. ASSUME NEW w \in discoveries
          PROVE  [w EXCEPT !.age = @ + 1] \in [destination : Others, age : 0 .. RouteDiscoveryTimeout]
      <3>1. w \in [destination : Others, age : 0 .. RouteDiscoveryTimeout] /\ w.age < RouteDiscoveryTimeout
        BY DEF Tick, RouteInv, RoutingTypeOK
      <3> QED
        BY <3>1, TimerConstants
    <2> QED
      BY <2>1 DEF Tick, Older, DiscoveriesTyped
  <1> QED
    BY <1>1, <1>2, <1>4, <1>5, <1>6 DEF Tick, RouteInv, RoutingTypeOK, TableInv, DiscoveriesTyped

LEMMA RouteInvInit ==
    ASSUME RoutingAssumption, RoutingInit
    PROVE  RouteInv
  <1>1. RoutingTypeOK
    <2>1. /\ <<>> \in Seq(BlockchainRouteEntry)
          /\ <<>> \in Seq(0 .. HelloInterval)
      OBVIOUS
    <2>2. /\ cleanupIn \in 0 .. RouteCleanupInterval
          /\ retryIn \in 0 .. RetryInterval
      BY RouteConstants, TimerConstants DEF RoutingInit
    <2>3. routes \in [Others -> Seq(BlockchainRouteEntry)] /\ hellos \in Seq(0 .. HelloInterval)
      BY <2>1 DEF RoutingInit
    <2> QED
      BY <2>2, <2>3 DEF RoutingInit, RoutingTypeOK
  <1>2. TableInv(routes, priorityNodes, cleanupIn)
    BY DEF RoutingInit, TableInv, Range
  <1> QED
    BY <1>1, <1>2 DEF RouteInv

LEMMA RouteInvStep ==
    ASSUME RoutingAssumption, RouteInv, [RoutingNext]_routingVars
    PROVE  RouteInv'
  <1>1. CASE CleanupStaleRoutes
    BY <1>1, CleanupKeepsRoutes
  <1>2. CASE ClearAllRoutes
    <2>1. TableInv(routes', priorityNodes', cleanupIn)
      BY <1>2 DEF ClearAllRoutes, TableInv, Range
    <2> QED
      BY <1>2, <2>1, TableKeepsRoutes DEF ClearAllRoutes, forwardVars, timerVars
  <1>3. CASE RetryFailedForwards
    BY <1>3, RetryKeepsRoutes
  <1>4. CASE \/ ClearPendingForwards \/ DiscoveryTimeout
             \/ \E e \in pendingForwards : HandleAcknowledgment(e)
    <2>1. pendingForwards' \subseteq pendingForwards /\ discoveries' \subseteq discoveries
      BY <1>4 DEF ClearPendingForwards, DiscoveryTimeout, GiveUp, HandleAcknowledgment
    <2>2. UNCHANGED <<isConnected, neighbors, height, routes, priorityNodes, hellos, cleanupIn, retryIn>>
      BY <1>4 DEF ClearPendingForwards, DiscoveryTimeout, HandleAcknowledgment, routeVars, timerVars
    <2> QED
      BY <2>1, <2>2, SendKeepsRoutes DEF DiscoveriesTyped, RouteInv, RoutingTypeOK
  <1>5. CASE \E d \in Others : SendRoutedMessage(d) \/ SendMessage({d})
    BY <1>5, SendTyped, SendKeepsRoutes
       DEF SendRoutedMessage, SendMessage, routeVars, timerVars, RouteInv
  <1>6. CASE SendMessage({})
    <2>1. pendingForwards' \subseteq BlockchainForwardingEntry /\ DiscoveriesTyped(discoveries')
      BY <1>6, BroadcastTyped DEF SendMessage, RouteInv, RoutingTypeOK, DiscoveriesTyped
    <2> QED
      BY <1>6, <2>1, SendKeepsRoutes DEF SendMessage, routeVars, timerVars
  <1>7. CASE ProcessRoutingMessage
    <2>1. ASSUME NEW r \in Requests, HandleRouteRequest(r)
          PROVE  RouteInv'
      <3>1. r.originator \in Others
        BY DEF RoutingAssumption, UTXORouteRequest
      <3> QED
        BY <2>1, <3>1, SendTyped, SendKeepsRoutes
           DEF HandleRouteRequest, OnRouteRequest, routeVars, timerVars, RouteInv
    <2>2. ASSUME NEW e \in RouteErrors, HandleRouteError(e)
          PROVE  RouteInv'
      BY <2>2, ErrorKeepsRoutes DEF HandleRouteError
    <2> QED
      BY <1>7, <2>1, <2>2, ReplyKeepsRoutes, NeighborsKeepRoutes DEF ProcessRoutingMessage
  <1>8. CASE \E i \in DOMAIN hellos : SendHello(i)
    BY <1>8, HelloTimerKeepsRoutes
  <1>9. CASE UNCHANGED routingVars
    BY <1>9 DEF routingVars, routeVars, forwardVars, timerVars, RouteInv, RoutingTypeOK, TableInv
  <1> QED
    BY <1>1, <1>2, <1>3, <1>4, <1>5, <1>6, <1>7, <1>8, <1>9,
       ConnectionKeepsRoutes, NeighborsKeepRoutes, TickKeepsRoutes DEF RoutingNext

(* For any nodes, messages, intervals and limits: no route is used longer   *)
(* than until the cleanup after its expiry, whatever other routes its        *)
(* destination has, and the priority nodes are exactly the full and mining   *)
(* nodes with a route (UTXORouteManager).                                  *)
THEOREM RoutesSoundTheorem == RoutingSpec => []RoutesSound
  <1>1. RoutingInit => RouteInv
    BY RoutingAssumption, RouteInvInit
  <1>2. RouteInv /\ [RoutingNext]_routingVars => RouteInv'
    BY RoutingAssumption, RouteInvStep
  <1>3. RouteInv => RoutesSound
    <2> SUFFICES ASSUME RouteInv
                 PROVE  RoutesSound
      OBVIOUS
    <2>1. RoutesExpire
      <3>1. ASSUME NEW d \in Others, NEW r \in Range(routes[d])
            PROVE  r.age <= RouteExpiryTime + RouteCleanupInterval
        <4>1. r \in BlockchainRouteEntry /\ InTime(r, cleanupIn)
          BY DEF RouteInv, TableInv, Range
        <4>2. r.age \in Nat /\ cleanupIn \in Nat
          BY <4>1 DEF BlockchainRouteEntry, RouteInv, RoutingTypeOK
        <4> QED
          BY <4>1, <4>2, RoutingAssumption, RouteConstants DEF InTime
      <3> QED
        BY <3>1 DEF RoutesExpire
    <2> QED
      BY <2>1 DEF RouteInv, RoutesSound, TableInv, PriorityNodesRouted
  <1> QED
    BY <1>1, <1>2, <1>3, PTL DEF RoutingSpec

-----------------------------------------------------------------------------
(* Reliable delivery: the invariant.                                       *)

(* The messages of queue entries and of transmissions.                     *)
Members(queue) == {queue[i].msg : i \in DOMAIN queue}

InFlight(flight) == {t.msg : t \in flight}

(* The queue is ordered, and its entries are of different messages.        *)
QueueInv(queue) ==
    /\ queue \in Seq(QueueEntries)
    /\ \A i \in DOMAIN queue : queue[i].attempt < MaxRetries[queue[i].msg]
    /\ \A i, j \in DOMAIN queue :
          i < j => /\ Urgency[queue[i].msg] <= Urgency[queue[j].msg]
                   /\ queue[i].msg # queue[j].msg

(* At most one transmission of a message awaits the mesh, and one of all    *)
(* retries, which is the one of the current round.                         *)
Separate(flight) ==
    /\ flight \subseteq Transmissions
    /\ \A t, u \in flight : t.msg = u.msg => t = u

FlightInv ==
    /\ Separate(inFlight)
    /\ \A t, u \in inFlight : t.kind = "retry" /\ u.kind = "retry" => t = u
    /\ \A t \in inFlight : t.kind = "retry" => processed # Idle
    /\ processed \in {Idle} \cup 1 .. BatchSize

(* A message that is queued or in flight, never both, was accepted and is *)
(* not over: it has no timer, was not transmitted, and is no dead letter.   *)
Fresh(queued, flying, taken, over) ==
    /\ queued \cap flying = {}
    /\ queued \cup flying \subseteq taken \ over

FreshInv ==
    /\ Fresh(Members(retryQueue), InFlight(inFlight), sent,
             armed \cup handedOver \cup deadLetters)
    /\ deadLetters \cap handedOver = {}

(* The transmissions that c retries, and r beginnings of the count, allow.  *)
Allowed(m, c, r) ==
    1 + MaxRetries[m] * (r - 1) + (IF c < MaxRetries[m] THEN c ELSE MaxRetries[m])

(* A queued message has used one of these already.                          *)
Counted(queued, taken, begun, count, reset) ==
    \A m \in Messages :
        IF m \in taken
        THEN /\ reset[idOf[m]] >= 1
             /\ begun[m] + (IF m \in queued THEN 1 ELSE 0)
                   <= Allowed(m, count[idOf[m]], reset[idOf[m]])
        ELSE begun[m] = 0

CountInv == Counted(Members(retryQueue), sent, attempts, retryCount, resets)

(* What NothingForgotten says.                                              *)
Remembered(queued, flying, taken, transmitted, waiting) ==
    UniqueIds =>
        \A m \in taken \ transmitted :
            idOf[m] \in waiting => m \in queued \cup flying

MemoryInv ==
    Remembered(Members(retryQueue), InFlight(inFlight), sent, handedOver, pending)

(* The variables that nothing else depends on, and the types.               *)
ShapeInv ==
    /\ idOf \in IdMaps /\ running \in BOOLEAN
    /\ sent \subseteq Messages /\ deadLetters \subseteq sent
    /\ pending \subseteq Ids
    /\ retryCount \in [Ids -> Nat] /\ resets \in [Ids -> Nat]
    /\ completed \in [Ids -> {"none", "acknowledged", "failed"}]
    /\ armed \subseteq sent /\ ackTimeout \in [Ids -> SUBSET sent]
    /\ tasks \in Seq(Tasks)
    /\ {delivered, acks, manual} \subseteq Nat
    /\ handedOver \subseteq sent
    /\ attempts \in [Messages -> Nat]

DeliveryInv ==
    /\ ShapeInv
    /\ QueueInv(retryQueue)
    /\ FlightInv
    /\ FreshInv
    /\ CountInv
    /\ MemoryInv

-----------------------------------------------------------------------------
(* Numbers and sequences.                                                  *)

LEMMA LeastNat ==
    ASSUME NEW T, T \subseteq Nat, T # {}
    PROVE  \E k \in T : \A j \in T : k <= j
  <1>1. PICK k \in T : \A j \in T : ~ (<<j, k>> \in OpToRel(<, Nat))
    BY WFMin, NatLessThanWellFounded
  <1>2. \A j \in T : ~ (j < k)
    BY <1>1 DEF OpToRel
  <1> QED
    BY <1>2

LEMMA GreatestNat ==
    ASSUME NEW n \in Nat, NEW T, T \subseteq 0 .. n, T # {}
    PROVE  \E k \in T : \A j \in T : j <= k
  <1> DEFINE above == {b \in Nat : \A j \in T : j <= b}
  <1>1. n \in above
    OBVIOUS
  <1>2. PICK b \in above : \A c \in above : b <= c
    <2> above \subseteq Nat
      OBVIOUS
    <2> HIDE DEF above
    <2> QED
      BY <1>1, LeastNat
  <1>3. CASE b \in T
    BY <1>3
  <1>4. CASE b \notin T
    <2>1. b \in Nat /\ \A j \in T : j \in Nat /\ j <= b
      OBVIOUS
    <2>2. \A j \in T : j \in Nat /\ j < b
      BY <1>4, <2>1
    <2>3. PICK i \in T : TRUE
      OBVIOUS
    <2>4. b - 1 \in Nat
      BY <2>1, <2>2, <2>3
    <2>5. b - 1 \in above
      BY <2>1, <2>2, <2>4
    <2> QED
      BY <1>2, <2>1, <2>5
  <1> QED
    BY <1>3, <1>4

LEMMA ConcatParts ==
    ASSUME NEW S, NEW s \in Seq(S), NEW t \in Seq(S)
    PROVE  /\ s \o t \in Seq(S) /\ Len(s \o t) = Len(s) + Len(t)
           /\ \A i \in 1 .. Len(s) : (s \o t)[i] = s[i]
           /\ \A i \in 1 .. Len(t) : (s \o t)[Len(s) + i] = t[i]
  <1> DEFINE m == Len(s)
             n == Len(t)
  <1>1. /\ s \o t \in Seq(S) /\ Len(s \o t) = m + n
        /\ \A i \in 1 .. m + n : (s \o t)[i] = IF i <= m THEN s[i] ELSE t[i - m]
    BY ConcatProperties
  <1>2. m \in Nat /\ n \in Nat
    OBVIOUS
  <1> HIDE DEF m, n
  <1>3. ASSUME NEW i \in 1 .. m
        PROVE  (s \o t)[i] = s[i]
    <2>1. i \in 1 .. m + n /\ i <= m
      BY <1>2
    <2> QED
      BY <1>1, <2>1
  <1>4. ASSUME NEW i \in 1 .. n
        PROVE  (s \o t)[m + i] = t[i]
    <2>1. m + i \in 1 .. m + n /\ ~ (m + i <= m) /\ (m + i) - m = i
      BY <1>2
    <2> QED
      BY <1>1, <2>1
  <1> QED
    BY <1>1, <1>3, <1>4 DEF m, n

(* What InsertAt and RemoveAt leave alone, move, and enter.                *)
Inserted(out, q, k, e, S) ==
    /\ out \in Seq(S) /\ Len(out) = Len(q) + 1
    /\ \A i \in 1 .. k : out[i] = q[i]
    /\ out[k + 1] = e
    /\ \A i \in k + 1 .. Len(q) : out[i + 1] = q[i]

Removed(out, q, k, S) ==
    /\ out \in Seq(S) /\ Len(out) = Len(q) - 1
    /\ \A i \in 1 .. k - 1 : out[i] = q[i]
    /\ \A i \in k .. Len(q) - 1 : out[i] = q[i + 1]

LEMMA InsertProperties ==
    ASSUME NEW S, NEW q \in Seq(S), NEW k \in 0 .. Len(q), NEW e \in S
    PROVE  Inserted(InsertAt(q, k + 1, e), q, k, e, S)
  <1> DEFINE a == SubSeq(q, 1, k)
             b == <<e>>
             c == SubSeq(q, k + 1, Len(q))
  <1>0. k \in Nat /\ Len(q) \in Nat /\ k <= Len(q)
    OBVIOUS
  <1>1. /\ a \in Seq(S) /\ Len(a) = k
        /\ \A i \in 1 .. k : a[i] = q[i]
    BY SubSeqProperties
  <1>2. b \in Seq(S) /\ Len(b) = 1 /\ b[1] = e
    OBVIOUS
  <1>3. /\ c \in Seq(S) /\ Len(c) = Len(q) - k
        /\ \A i \in 1 .. Len(q) - k : c[i] = q[k + i]
    BY SubSeqProperties
  <1> HIDE DEF a, b, c
  <1>4. /\ a \o b \in Seq(S) /\ Len(a \o b) = k + 1
        /\ \A i \in 1 .. k : (a \o b)[i] = a[i]
        /\ (a \o b)[k + 1] = b[1]
    <2>0. a \in Seq(S) /\ b \in Seq(S)
      BY <1>1, <1>2
    <2>1. /\ a \o b \in Seq(S) /\ Len(a \o b) = Len(a) + Len(b)
          /\ \A i \in 1 .. Len(a) : (a \o b)[i] = a[i]
          /\ \A i \in 1 .. Len(b) : (a \o b)[Len(a) + i] = b[i]
      BY <2>0, ConcatParts
    <2> QED
      BY <1>0, <1>1, <1>2, <2>1
  <1> DEFINE r == (a \o b) \o c
  <1>5. /\ r \in Seq(S) /\ Len(r) = (k + 1) + (Len(q) - k)
        /\ \A i \in 1 .. k + 1 : r[i] = (a \o b)[i]
        /\ \A i \in 1 .. Len(q) - k : r[(k + 1) + i] = c[i]
    <2>0. a \o b \in Seq(S) /\ c \in Seq(S)
      BY <1>3, <1>4
    <2>1. /\ r \in Seq(S) /\ Len(r) = Len(a \o b) + Len(c)
          /\ \A i \in 1 .. Len(a \o b) : r[i] = (a \o b)[i]
          /\ \A i \in 1 .. Len(c) : r[Len(a \o b) + i] = c[i]
      BY <2>0, ConcatParts
    <2> HIDE DEF r
    <2> QED
      BY <1>0, <1>3, <1>4, <2>1
  <1>6. InsertAt(q, k + 1, e) = r
    <2>1. (k + 1) - 1 = k
      BY <1>0
    <2> QED
      BY <2>1 DEF InsertAt, a, b, c
  <1> HIDE DEF r
  <1>7. ASSUME NEW i \in k + 1 .. Len(q)
        PROVE  r[i + 1] = q[i]
    <2>1. /\ i - k \in 1 .. Len(q) - k
          /\ (k + 1) + (i - k) = i + 1
          /\ k + (i - k) = i
      BY <1>0
    <2>2. r[(k + 1) + (i - k)] = c[i - k]
      BY <1>5, <2>1
    <2>3. c[i - k] = q[k + (i - k)]
      BY <1>3, <2>1
    <2> QED
      BY <2>1, <2>2, <2>3
  <1>8. Len(r) = Len(q) + 1 /\ k + 1 \in 1 .. k + 1
    BY <1>0, <1>5
  <1>9. \A i \in 1 .. k : r[i] = q[i]
    BY <1>0, <1>1, <1>4, <1>5
  <1> QED
    BY <1>2, <1>4, <1>5, <1>6, <1>7, <1>8, <1>9 DEF Inserted

LEMMA RemoveProperties ==
    ASSUME NEW S, NEW q \in Seq(S), NEW k \in 1 .. Len(q)
    PROVE  Removed(RemoveAt(q, k), q, k, S)
  <1> DEFINE a == SubSeq(q, 1, k - 1)
             c == SubSeq(q, k + 1, Len(q))
             r == a \o c
  <1>0. /\ Len(q) \in Nat /\ k \in Nat /\ k <= Len(q)
        /\ k - 1 \in Nat /\ Len(q) - k \in Nat
    OBVIOUS
  <1>1. /\ a \in Seq(S) /\ Len(a) = k - 1
        /\ \A i \in 1 .. k - 1 : a[i] = q[i]
    BY SubSeqProperties
  <1>2. /\ c \in Seq(S) /\ Len(c) = Len(q) - k
        /\ \A i \in 1 .. Len(q) - k : c[i] = q[k + i]
    BY SubSeqProperties
  <1>3. RemoveAt(q, k) = r
    BY DEF RemoveAt
  <1> HIDE DEF a, c
  <1>4. /\ r \in Seq(S) /\ Len(r) = (k - 1) + (Len(q) - k)
        /\ \A i \in 1 .. k - 1 : r[i] = a[i]
        /\ \A i \in 1 .. Len(q) - k : r[(k - 1) + i] = c[i]
    <2>0. a \in Seq(S) /\ c \in Seq(S)
      BY <1>1, <1>2
    <2>1. /\ r \in Seq(S) /\ Len(r) = Len(a) + Len(c)
          /\ \A i \in 1 .. Len(a) : r[i] = a[i]
          /\ \A i \in 1 .. Len(c) : r[Len(a) + i] = c[i]
      BY <2>0, ConcatParts
    <2> HIDE DEF r
    <2> QED
      BY <1>0, <1>1, <1>2, <2>1
  <1> HIDE DEF r
  <1>5. ASSUME NEW i \in k .. Len(q) - 1
        PROVE  r[i] = q[i + 1]
    <2>1. /\ i - (k - 1) \in 1 .. Len(q) - k
          /\ (k - 1) + (i - (k - 1)) = i
          /\ k + (i - (k - 1)) = i + 1
      BY <1>0
    <2>2. r[(k - 1) + (i - (k - 1))] = c[i - (k - 1)]
      BY <1>4, <2>1
    <2>3. c[i - (k - 1)] = q[k + (i - (k - 1))]
      BY <1>2, <2>1
    <2> QED
      BY <2>1, <2>2, <2>3
  <1>6. Len(r) = Len(q) - 1
    BY <1>0, <1>4
  <1>7. \A i \in 1 .. k - 1 : r[i] = q[i]
    BY <1>1, <1>4
  <1> QED
    BY <1>3, <1>4, <1>5, <1>6, <1>7 DEF Removed

-----------------------------------------------------------------------------
(* The queue.                                                              *)

LEMMA QueueTypes ==
    ASSUME NEW queue, QueueInv(queue)
    PROVE  /\ queue \in Seq(QueueEntries) /\ Len(queue) \in Nat
           /\ DOMAIN queue = 1 .. Len(queue)
           /\ \A i \in 1 .. Len(queue) : queue[i] \in QueueEntries /\ queue[i].msg \in Messages
  <1>1. queue \in Seq(QueueEntries)
    BY DEF QueueInv
  <1>2. /\ Len(queue) \in Nat /\ DOMAIN queue = 1 .. Len(queue)
        /\ \A i \in 1 .. Len(queue) : queue[i] \in QueueEntries
    BY <1>1
  <1>3. \A e \in QueueEntries : e.msg \in Messages
    BY DEF QueueEntries
  <1> QED
    BY <1>1, <1>2, <1>3

(* What is as urgent as the entry is a prefix of the queue.                *)
LEMMA UrgentPrefix ==
    ASSUME NEW queue, QueueInv(queue), NEW m \in Messages
    PROVE  LET before == {i \in DOMAIN queue : Urgency[queue[i].msg] <= Urgency[m]} IN
           \E k \in 0 .. Len(queue) : before = 1 .. k /\ Cardinality(before) = k
  <1> DEFINE before == {i \in DOMAIN queue : Urgency[queue[i].msg] <= Urgency[m]}
             n == Len(queue)
  <1>1. /\ queue \in Seq(QueueEntries) /\ n \in Nat /\ DOMAIN queue = 1 .. n
        /\ \A i \in 1 .. n : queue[i].msg \in Messages
    BY QueueTypes
  <1>2. \A x \in Messages : Urgency[x] \in Nat
    BY DeliveryAssumption
  <1>3. \A i, j \in 1 .. n : i < j => Urgency[queue[i].msg] <= Urgency[queue[j].msg]
    BY <1>1 DEF QueueInv
  <1>4. before \subseteq 1 .. n /\ \A j \in before, i \in 1 .. n : i < j => i \in before
    BY <1>1, <1>2, <1>3
  <1> HIDE DEF before, n
  <1>5. PICK k \in 0 .. n : before = 1 .. k
    <2>1. CASE before = {}
      <3>1. 0 \in 0 .. n /\ before = 1 .. 0
        BY <1>1, <2>1
      <3> QED
        BY <3>1
    <2>2. CASE before # {}
      <3>1. PICK k \in before : \A j \in before : j <= k
        <4>1. before \subseteq 0 .. n
          BY <1>1, <1>4
        <4> QED
          BY <1>1, <2>2, <4>1, GreatestNat
      <3>2. k \in 1 .. n /\ before \subseteq 1 .. k
        BY <1>1, <1>4, <3>1
      <3>3. ASSUME NEW i \in 1 .. k
            PROVE  i \in before
        <4>1. i \in 1 .. n /\ (i < k \/ i = k)
          BY <1>1, <3>2
        <4> QED
          BY <1>4, <3>1, <4>1
      <3>4. before = 1 .. k
        BY <3>2, <3>3
      <3>5. k \in 0 .. n
        BY <1>1, <3>2
      <3> QED
        BY <3>4, <3>5
    <2> QED
      BY <2>1, <2>2
  <1>6. Cardinality(before) = k
    BY <1>1, <1>5, FS_Interval
  <1> QED
    BY <1>5, <1>6 DEF before, n

LEMMA EnqueueLemma ==
    ASSUME NEW queue, QueueInv(queue), NEW entry \in QueueEntries,
           entry.attempt < MaxRetries[entry.msg], entry.msg \notin Members(queue)
    PROVE  /\ QueueInv(Enqueue(queue, entry))
           /\ Members(Enqueue(queue, entry)) = Members(queue) \cup {entry.msg}
  <1> DEFINE before == {i \in DOMAIN queue : Urgency[queue[i].msg] <= Urgency[entry.msg]}
             n == Len(queue)
             r == Enqueue(queue, entry)
  <1>1. /\ queue \in Seq(QueueEntries) /\ n \in Nat /\ DOMAIN queue = 1 .. n
        /\ \A i \in 1 .. n : queue[i] \in QueueEntries
        /\ \A i \in 1 .. n : queue[i].msg \in Messages
        /\ entry.msg \in Messages
    <2>1. entry.msg \in Messages
      BY DEF QueueEntries
    <2> QED
      BY <2>1, QueueTypes
  <1>2. \A x \in Messages : Urgency[x] \in Nat
    BY DeliveryAssumption
  <1>3. PICK k \in 0 .. n : before = 1 .. k /\ Cardinality(before) = k
    BY <1>1, UrgentPrefix
  <1>4. r = InsertAt(queue, k + 1, entry)
    BY <1>3 DEF Enqueue
  <1>5. /\ r \in Seq(QueueEntries) /\ Len(r) = n + 1
        /\ \A i \in 1 .. k : r[i] = queue[i]
        /\ r[k + 1] = entry
        /\ \A i \in k + 1 .. n : r[i + 1] = queue[i]
    <2>1. queue \in Seq(QueueEntries) /\ k \in 0 .. Len(queue)
      BY <1>1
    <2>2. Inserted(r, queue, k, entry, QueueEntries)
      BY <1>4, <2>1, InsertProperties
    <2> HIDE DEF r
    <2> QED
      BY <2>2 DEF Inserted
  <1>6. /\ \A i \in 1 .. k : Urgency[queue[i].msg] <= Urgency[entry.msg]
        /\ \A i \in k + 1 .. n : Urgency[entry.msg] < Urgency[queue[i].msg]
    <2>1. \A i \in 1 .. k : Urgency[queue[i].msg] <= Urgency[entry.msg]
      BY <1>3
    <2>2. ASSUME NEW i \in k + 1 .. n
          PROVE  Urgency[entry.msg] < Urgency[queue[i].msg]
      <3>1. i \in 1 .. n /\ i \notin before
        BY <1>1, <1>3
      <3>2. ~ (Urgency[queue[i].msg] <= Urgency[entry.msg])
        BY <1>1, <3>1
      <3> QED
        BY <1>1, <1>2, <3>1, <3>2
    <2> QED
      BY <2>1, <2>2
  <1>7. \A i, j \in 1 .. n :
            i < j => Urgency[queue[i].msg] <= Urgency[queue[j].msg] /\ queue[i].msg # queue[j].msg
    BY <1>1 DEF QueueInv
  <1>8. \A i \in 1 .. n : queue[i].attempt < MaxRetries[queue[i].msg] /\ queue[i].msg # entry.msg
    BY <1>1 DEF QueueInv, Members
  <1> HIDE DEF r, before, n
  <1>9. DOMAIN r = 1 .. n + 1
    BY <1>1, <1>5
  <1>10. ASSUME NEW i \in 1 .. n + 1
         PROVE  \/ i \in 1 .. k /\ r[i] = queue[i]
                \/ i = k + 1 /\ r[i] = entry
                \/ i - 1 \in k + 1 .. n /\ r[i] = queue[i - 1]
    <2>1. i \in 1 .. k \/ i = k + 1 \/ (i - 1 \in k + 1 .. n /\ (i - 1) + 1 = i)
      BY <1>1
    <2> QED
      BY <1>5, <2>1
  <1>11. \A i \in 1 .. n + 1 : r[i].attempt < MaxRetries[r[i].msg]
    BY <1>1, <1>8, <1>10
  <1>12. ASSUME NEW i \in 1 .. n + 1, NEW j \in 1 .. n + 1, i < j
         PROVE  Urgency[r[i].msg] <= Urgency[r[j].msg] /\ r[i].msg # r[j].msg
    <2>1. CASE i \in 1 .. k /\ r[i] = queue[i]
      <3>1. CASE j \in 1 .. k /\ r[j] = queue[j]
        BY <1>1, <1>7, <1>12, <2>1, <3>1
      <3>2. CASE j = k + 1 /\ r[j] = entry
        BY <1>1, <1>6, <1>8, <1>12, <2>1, <3>2
      <3>3. CASE j - 1 \in k + 1 .. n /\ r[j] = queue[j - 1]
        <4>1. i \in 1 .. n /\ j - 1 \in 1 .. n /\ i < j - 1
          BY <1>1, <2>1, <3>3
        <4> QED
          BY <1>7, <2>1, <3>3, <4>1
      <3> QED
        BY <1>10, <3>1, <3>2, <3>3
    <2>2. CASE i = k + 1 /\ r[i] = entry
      <3>1. j - 1 \in k + 1 .. n /\ r[j] = queue[j - 1]
        BY <1>1, <1>10, <1>12, <2>2
      <3>2. j - 1 \in 1 .. n
        BY <1>1, <3>1
      <3> QED
        BY <1>1, <1>2, <1>6, <1>8, <2>2, <3>1, <3>2
    <2>3. CASE i - 1 \in k + 1 .. n /\ r[i] = queue[i - 1]
      <3>1. j - 1 \in k + 1 .. n /\ r[j] = queue[j - 1]
        BY <1>1, <1>10, <1>12, <2>3
      <3>2. i - 1 \in 1 .. n /\ j - 1 \in 1 .. n /\ i - 1 < j - 1
        BY <1>1, <1>12, <2>3, <3>1
      <3> QED
        BY <1>7, <2>3, <3>1, <3>2
    <2> QED
      BY <1>10, <2>1, <2>2, <2>3
  <1>13. QueueInv(r)
    BY <1>5, <1>9, <1>11, <1>12 DEF QueueInv
  <1>14. Members(r) \subseteq Members(queue) \cup {entry.msg}
    <2>1. ASSUME NEW i \in 1 .. n + 1
          PROVE  r[i].msg \in Members(queue) \cup {entry.msg}
      <3>1. CASE i \in 1 .. k /\ r[i] = queue[i]
        BY <1>1, <3>1 DEF Members
      <3>2. CASE i = k + 1 /\ r[i] = entry
        BY <3>2
      <3>3. CASE i - 1 \in k + 1 .. n /\ r[i] = queue[i - 1]
        <4>1. i - 1 \in DOMAIN queue
          BY <1>1, <3>3
        <4> QED
          BY <3>3, <4>1 DEF Members
      <3> QED
        BY <1>10, <3>1, <3>2, <3>3
    <2> QED
      BY <1>9, <2>1 DEF Members
  <1>15. Members(queue) \cup {entry.msg} \subseteq Members(r)
    <2>1. ASSUME NEW i \in 1 .. n
          PROVE  queue[i].msg \in Members(r)
      <3>1. CASE i \in 1 .. k
        <4>1. i \in DOMAIN r /\ r[i] = queue[i]
          BY <1>1, <1>5, <1>9, <3>1
        <4> QED
          BY <4>1 DEF Members
      <3>2. CASE i \in k + 1 .. n
        <4>1. i + 1 \in DOMAIN r /\ r[i + 1] = queue[i]
          BY <1>1, <1>5, <1>9, <3>2
        <4> QED
          BY <4>1 DEF Members
      <3> QED
        BY <1>1, <3>1, <3>2
    <2>2. k + 1 \in DOMAIN r
      BY <1>1, <1>9
    <2>3. entry.msg \in Members(r)
      BY <1>5, <2>2 DEF Members
    <2> QED
      BY <1>1, <2>1, <2>3 DEF Members
  <1> QED
    BY <1>13, <1>14, <1>15 DEF r

(* Entry i of r is entry f[i] of the queue.                                *)
Embeds(f, r, queue) ==
    /\ r \in Seq(QueueEntries)
    /\ f \in [1 .. Len(r) -> 1 .. Len(queue)]
    /\ \A i, j \in 1 .. Len(r) : i < j => f[i] < f[j]
    /\ \A i \in 1 .. Len(r) : r[i] = queue[f[i]]

(* Leaving entries out keeps the rest in order.                            *)
LEMMA SubQueue ==
    ASSUME NEW queue, QueueInv(queue), NEW r, NEW f, Embeds(f, r, queue)
    PROVE  QueueInv(r) /\ Members(r) = {queue[f[i]].msg : i \in 1 .. Len(r)}
  <1>0. /\ r \in Seq(QueueEntries)
        /\ \A i, j \in 1 .. Len(r) : i < j => f[i] < f[j]
        /\ \A i \in 1 .. Len(r) : r[i] = queue[f[i]]
    BY DEF Embeds
  <1>1. DOMAIN r = 1 .. Len(r) /\ DOMAIN queue = 1 .. Len(queue)
    BY <1>0, QueueTypes
  <1>2. \A i \in 1 .. Len(r) : f[i] \in 1 .. Len(queue)
    BY DEF Embeds
  <1>3. \A i \in 1 .. Len(r) : r[i].attempt < MaxRetries[r[i].msg]
    BY <1>0, <1>1, <1>2 DEF QueueInv
  <1>4. ASSUME NEW i \in 1 .. Len(r), NEW j \in 1 .. Len(r), i < j
        PROVE  Urgency[r[i].msg] <= Urgency[r[j].msg] /\ r[i].msg # r[j].msg
    <2>1. f[i] \in DOMAIN queue /\ f[j] \in DOMAIN queue /\ f[i] < f[j]
      BY <1>0, <1>1, <1>2, <1>4
    <2>2. r[i] = queue[f[i]] /\ r[j] = queue[f[j]]
      BY <1>0
    <2> QED
      BY <2>1, <2>2 DEF QueueInv
  <1>5. QueueInv(r)
    BY <1>0, <1>1, <1>3, <1>4 DEF QueueInv
  <1>6. Members(r) = {queue[f[i]].msg : i \in 1 .. Len(r)}
    BY <1>0, <1>1 DEF Members
  <1> QED
    BY <1>5, <1>6

LEMMA RemovedQueue ==
    ASSUME NEW queue, QueueInv(queue), NEW k \in 1 .. Len(queue)
    PROVE  /\ QueueInv(RemoveAt(queue, k))
           /\ Members(RemoveAt(queue, k)) = Members(queue) \ {queue[k].msg}
  <1> DEFINE r == RemoveAt(queue, k)
             n == Len(queue)
  <1>1. queue \in Seq(QueueEntries) /\ n \in Nat /\ DOMAIN queue = 1 .. n
    BY QueueTypes
  <1>2. Removed(r, queue, k, QueueEntries)
    BY <1>1, RemoveProperties
  <1> HIDE DEF r
  <1>3. /\ r \in Seq(QueueEntries) /\ Len(r) = n - 1
        /\ \A i \in 1 .. k - 1 : r[i] = queue[i]
        /\ \A i \in k .. n - 1 : r[i] = queue[i + 1]
    BY <1>2 DEF Removed
  <1> HIDE DEF n
  <1>4. k \in 1 .. n
    BY DEF n
  <1> DEFINE f == [i \in 1 .. Len(r) |-> IF i < k THEN i ELSE i + 1]
  <1>5. f \in [1 .. Len(r) -> 1 .. Len(queue)]
    <2>1. \A i \in 1 .. n - 1 : i \in 1 .. n /\ i + 1 \in 1 .. n
      BY <1>1
    <2> QED
      BY <1>3, <2>1 DEF n
  <1>6. \A i, j \in 1 .. Len(r) : i < j => f[i] < f[j]
    BY <1>1, <1>3, <1>4
  <1>7. ASSUME NEW i \in 1 .. Len(r)
        PROVE  r[i] = queue[f[i]]
    <2>1. CASE i < k
      <3>1. i \in 1 .. k - 1
        BY <1>1, <1>3, <1>4, <2>1
      <3> QED
        BY <1>3, <2>1, <3>1
    <2>2. CASE ~ (i < k)
      <3>1. i \in k .. n - 1
        BY <1>1, <1>3, <1>4, <2>2
      <3> QED
        BY <1>3, <2>2, <3>1
    <2> QED
      BY <2>1, <2>2
  <1>8. \A i \in 1 .. Len(r) : f[i] # k
    BY <1>1, <1>3, <1>4
  <1>9. ASSUME NEW j \in 1 .. n, j # k
        PROVE  \E i \in 1 .. Len(r) : f[i] = j
    <2>1. CASE j < k
      <3>1. j \in 1 .. Len(r) /\ f[j] = j
        BY <1>1, <1>3, <1>4, <2>1
      <3> QED
        BY <3>1
    <2>2. CASE j > k
      <3>1. j - 1 \in 1 .. Len(r) /\ ~ (j - 1 < k) /\ (j - 1) + 1 = j
        BY <1>1, <1>3, <1>4, <2>2
      <3>2. f[j - 1] = j
        BY <3>1
      <3> QED
        BY <3>1, <3>2
    <2> QED
      BY <1>1, <1>4, <1>9, <2>1, <2>2
  <1> HIDE DEF f
  <1>10. QueueInv(r) /\ Members(r) = {queue[f[i]].msg : i \in 1 .. Len(r)}
    <2>1. Embeds(f, r, queue)
      BY <1>3, <1>5, <1>6, <1>7 DEF Embeds
    <2> QED
      BY <2>1, SubQueue
  <1>11. \A i, j \in 1 .. n : i # j => queue[i].msg # queue[j].msg
    BY <1>1 DEF QueueInv
  <1>12. \A i \in 1 .. Len(r) : f[i] \in 1 .. n
    BY <1>5 DEF n
  <1>13. Members(r) = Members(queue) \ {queue[k].msg}
    <2>1. ASSUME NEW i \in 1 .. Len(r)
          PROVE  queue[f[i]].msg \in Members(queue) \ {queue[k].msg}
      BY <1>1, <1>4, <1>8, <1>11, <1>12 DEF Members
    <2>2. ASSUME NEW j \in 1 .. n, queue[j].msg # queue[k].msg
          PROVE  queue[j].msg \in Members(r)
      BY <1>9, <1>10, <2>2
    <2> QED
      BY <1>1, <1>10, <2>1, <2>2 DEF Members
  <1> QED
    BY <1>10, <1>13 DEF r

(* Removing by id keeps the messages of other ids.                         *)
LEMMA RemoveEntryLemma ==
    ASSUME NEW queue, QueueInv(queue), NEW id
    PROVE  /\ QueueInv(RemoveEntry(queue, id))
           /\ Members(RemoveEntry(queue, id)) \subseteq Members(queue)
           /\ \A m \in Members(queue) : idOf[m] # id => m \in Members(RemoveEntry(queue, id))
  <1> DEFINE found == {i \in 1 .. Len(queue) : idOf[queue[i].msg] = id}
  <1>1. CASE found = {}
    <2>1. RemoveEntry(queue, id) = queue
      BY <1>1 DEF RemoveEntry, RemoveFirstMatch
    <2> QED
      BY <2>1
  <1>2. CASE found # {}
    <2>1. Min(found) \in found
      <3>1. \E k \in found : \A j \in found : k <= j
        <4>1. found \subseteq Nat
          BY QueueTypes
        <4> HIDE DEF found
        <4> QED
          BY <1>2, <4>1, LeastNat
      <3> HIDE DEF found
      <3> QED
        BY <3>1 DEF Min
    <2>2. RemoveEntry(queue, id) = RemoveAt(queue, Min(found))
      BY <1>2 DEF RemoveEntry, RemoveFirstMatch, SelectInSeq
    <2> DEFINE k == Min(found)
    <2>3. k \in 1 .. Len(queue) /\ idOf[queue[k].msg] = id
      BY <2>1
    <2>4. RemoveEntry(queue, id) = RemoveAt(queue, k)
      BY <2>2
    <2> HIDE DEF k
    <2> QED
      BY <2>3, <2>4, RemovedQueue
  <1> QED
    BY <1>1, <1>2

LEMMA SuffixQueue ==
    ASSUME NEW queue, QueueInv(queue), NEW n \in 0 .. Len(queue)
    PROVE  LET rest == SubSeq(queue, n + 1, Len(queue)) IN
           /\ QueueInv(rest)
           /\ Members(rest) = {queue[i].msg : i \in n + 1 .. Len(queue)}
  <1> DEFINE rest == SubSeq(queue, n + 1, Len(queue))
             len == Len(queue)
             f == [i \in 1 .. Len(rest) |-> n + i]
  <1>1. /\ len \in Nat /\ n \in 0 .. len
        /\ \A i \in n + 1 .. len : queue[i] \in QueueEntries
    BY QueueTypes
  <1>2. /\ rest \in Seq(QueueEntries) /\ Len(rest) = len - n
        /\ \A i \in 1 .. len - n : rest[i] = queue[n + i]
    BY <1>1, SubSeqProperties
  <1> HIDE DEF rest
  <1>3. Embeds(f, rest, queue)
    BY <1>1, <1>2 DEF Embeds
  <1>4. QueueInv(rest) /\ Members(rest) = {queue[f[i]].msg : i \in 1 .. Len(rest)}
    BY <1>3, SubQueue
  <1>5. \A i \in 1 .. Len(rest) : f[i] \in n + 1 .. len
    BY <1>1, <1>2
  <1>6. ASSUME NEW j \in n + 1 .. len
        PROVE  \E i \in 1 .. Len(rest) : f[i] = j
    <2>1. j - n \in 1 .. Len(rest) /\ n + (j - n) = j
      BY <1>1, <1>2
    <2> QED
      BY <2>1
  <1> HIDE DEF f, len
  <1>7. Members(rest) = {queue[i].msg : i \in n + 1 .. len}
    BY <1>4, <1>5, <1>6
  <1> QED
    BY <1>4, <1>7 DEF rest, len

(* A round of the retry timer stops at a transmission of a queued message, *)
(* or ends; only what is not pending any more is dropped.                  *)
Served(queue) ==
    /\ QueueInv(retryQueue')
    /\ Members(retryQueue') \subseteq Members(queue)

Begins(queue, others, stillPending, m) ==
    /\ Served(queue)
    /\ m \in Members(queue) \ Members(retryQueue')
    /\ \A k \in Members(queue) \ Members(retryQueue') :
          k # m => idOf[k] \notin stillPending
    /\ processed' \in 1 .. BatchSize
    /\ \E a \in Nat : inFlight' = others \cup {Transmission(m, "retry", a)}
    /\ attempts' = [attempts EXCEPT ![m] = @ + 1]

Ends(queue, others, stillPending) ==
    /\ Served(queue)
    /\ \A k \in Members(queue) \ Members(retryQueue') : idOf[k] \notin stillPending
    /\ processed' = Idle
    /\ inFlight' = others
    /\ attempts' = attempts

LEMMA RoundLemma ==
    ASSUME NEW queue, QueueInv(queue), NEW others, NEW done \in 0 .. BatchSize,
           NEW stillPending, ContinueRound(queue, others, done, stillPending)
    PROVE  \/ \E m \in Messages : Begins(queue, others, stillPending, m)
           \/ Ends(queue, others, stillPending)
  <1> DEFINE served(i) == queue[i].due /\ i <= BatchSize - done
             stale == {n \in 0 .. Len(queue) : \A i \in 1 .. n :
                          served(i) /\ idOf[queue[i].msg] \notin stillPending}
             n == CHOOSE k \in stale : \A j \in stale : j <= k
             rest == SubSeq(queue, n + 1, Len(queue))
  <1>1. /\ queue \in Seq(QueueEntries) /\ Len(queue) \in Nat /\ DOMAIN queue = 1 .. Len(queue)
        /\ \A i \in 1 .. Len(queue) : queue[i] \in QueueEntries /\ queue[i].msg \in Messages
    BY QueueTypes
  <1>2. n \in stale
    <2>1. stale \subseteq 0 .. Len(queue)
      OBVIOUS
    <2>2. 0 \in stale
      BY <1>1
    <2> HIDE DEF stale
    <2>3. \E k \in stale : \A j \in stale : j <= k
      BY <1>1, <2>1, <2>2, GreatestNat
    <2> QED
      BY <2>3
  <1>3. /\ n \in 0 .. Len(queue)
        /\ \A i \in 1 .. n : idOf[queue[i].msg] \notin stillPending
    BY <1>2
  <1>4. IF rest # <<>> /\ served(n + 1)
        THEN /\ retryQueue' = Tail(rest)
             /\ processed' = done + n + 1
             /\ inFlight' = others \cup {Transmission(Head(rest).msg, "retry",
                                                      Head(rest).attempt)}
             /\ attempts' = [attempts EXCEPT ![Head(rest).msg] = @ + 1]
        ELSE /\ retryQueue' = rest
             /\ processed' = Idle
             /\ inFlight' = others
             /\ UNCHANGED attempts
    BY DEF ContinueRound
  <1> HIDE DEF n, stale
  <1>5. \A i, j \in 1 .. Len(queue) : i # j => queue[i].msg # queue[j].msg
    BY <1>1 DEF QueueInv
  <1>6. Members(queue) = {queue[i].msg : i \in 1 .. Len(queue)}
    BY <1>1 DEF Members
  <1>7. CASE rest # <<>> /\ served(n + 1)
    <2>1. n + 1 \in 1 .. Len(queue) /\ Len(queue) \in n + 1 .. Len(queue)
      <3>1. n # Len(queue)
        BY <1>1, <1>7, SubSeqEmpty
      <3>2. Len(queue) \in Nat /\ n \in 0 .. Len(queue)
        BY <1>1, <1>3
      <3> QED
        BY <3>1, <3>2
    <2>2. Head(rest) = queue[n + 1] /\ Tail(rest) = SubSeq(queue, (n + 1) + 1, Len(queue))
      BY <1>1, <2>1, HeadTailOfSubSeq
    <2> DEFINE e == queue[n + 1]
               m == e.msg
    <2>3. m \in Messages /\ e.attempt \in Nat
      BY <1>1, <2>1 DEF QueueEntries
    <2>4. /\ QueueInv(retryQueue')
          /\ Members(retryQueue') = {queue[i].msg : i \in (n + 1) + 1 .. Len(queue)}
      <3> DEFINE p == n + 1
      <3>1. p \in 0 .. Len(queue)
        BY <2>1
      <3>2. retryQueue' = SubSeq(queue, p + 1, Len(queue))
        BY <1>4, <1>7, <2>2
      <3> HIDE DEF p
      <3>3. /\ QueueInv(retryQueue')
            /\ Members(retryQueue') = {queue[i].msg : i \in p + 1 .. Len(queue)}
        BY <3>1, <3>2, SuffixQueue
      <3> QED
        BY <3>3 DEF p
    <2>5. m \in Members(queue) /\ m \notin Members(retryQueue')
      <3>1. \A i \in (n + 1) + 1 .. Len(queue) : i \in 1 .. Len(queue) /\ i # n + 1
        BY <1>1, <1>3
      <3> QED
        BY <1>5, <1>6, <2>1, <2>4, <3>1
    <2>6. Members(retryQueue') \subseteq Members(queue)
      <3>1. \A i \in (n + 1) + 1 .. Len(queue) : i \in 1 .. Len(queue)
        BY <1>1, <1>3
      <3> QED
        BY <1>6, <2>4, <3>1
    <2>7. ASSUME NEW k \in Members(queue), k \notin Members(retryQueue'), k # m
          PROVE  idOf[k] \notin stillPending
      <3>1. PICK i \in 1 .. Len(queue) : k = queue[i].msg
        BY <1>6
      <3>2. i \notin (n + 1) + 1 .. Len(queue) /\ i # n + 1
        BY <2>4, <2>7, <3>1
      <3>3. i \in 1 .. n
        BY <1>1, <1>3, <3>2
      <3> QED
        BY <1>3, <3>1, <3>3
    <2>8. processed' \in 1 .. BatchSize
      BY <1>3, <1>4, <1>7, DeliveryAssumption
    <2>9. /\ inFlight' = others \cup {Transmission(m, "retry", e.attempt)}
          /\ attempts' = [attempts EXCEPT ![m] = @ + 1]
      BY <1>4, <1>7, <2>2
    <2> HIDE DEF m, e
    <2>10. Begins(queue, others, stillPending, m)
      BY <2>3, <2>4, <2>5, <2>6, <2>7, <2>8, <2>9 DEF Begins, Served
    <2> QED
      BY <2>3, <2>10
  <1>8. CASE ~ (rest # <<>> /\ served(n + 1))
    <2>1. /\ QueueInv(retryQueue')
          /\ Members(retryQueue') = {queue[i].msg : i \in n + 1 .. Len(queue)}
      BY <1>3, <1>4, <1>8, SuffixQueue
    <2>2. Members(retryQueue') \subseteq Members(queue)
      <3>1. \A i \in n + 1 .. Len(queue) : i \in 1 .. Len(queue)
        BY <1>1, <1>3
      <3> QED
        BY <1>6, <2>1, <3>1
    <2>3. ASSUME NEW k \in Members(queue), k \notin Members(retryQueue')
          PROVE  idOf[k] \notin stillPending
      <3>1. PICK i \in 1 .. Len(queue) : k = queue[i].msg
        BY <1>6
      <3>2. i \notin n + 1 .. Len(queue)
        BY <2>1, <2>3, <3>1
      <3>3. i \in 1 .. n
        BY <1>1, <1>3, <3>2
      <3> QED
        BY <1>3, <3>1, <3>3
    <2> QED
      BY <1>4, <1>8, <2>1, <2>2, <2>3 DEF Ends, Served
  <1> QED
    BY <1>7, <1>8

-----------------------------------------------------------------------------
(* Counting.                                                               *)

LEMMA ConstantTypes ==
    /\ \A m \in Messages : MaxRetries[m] \in Nat
    /\ BatchSize \in Nat
    /\ idOf \in IdMaps => \A m \in Messages : idOf[m] \in Ids
  BY DeliveryAssumption

LEMMA AllowedGrows ==
    ASSUME NEW m \in Messages, NEW c \in Nat, NEW r \in Nat
    PROVE  /\ Allowed(m, c, r) \in Int
           /\ \A d \in Nat : d >= c => Allowed(m, c, r) <= Allowed(m, d, r)
           /\ Allowed(m, c, r) <= Allowed(m, 0, r + 1)
           /\ 1 <= Allowed(m, 0, r + 1)
           /\ c < MaxRetries[m] => Allowed(m, c + 1, r) = Allowed(m, c, r) + 1
           /\ Allowed(m, c, r) <= 1 + MaxRetries[m] * r
  <1> DEFINE max == MaxRetries[m]
             x == max * (r - 1)
  <1>1. max \in Nat
    BY ConstantTypes
  <1> HIDE DEF max
  <1>2. x \in Int /\ max * r = x + max /\ max * r \in Nat /\ max * ((r + 1) - 1) = max * r
    BY <1>1
  <1> HIDE DEF x
  <1>3. /\ \A d \in Nat : Allowed(m, d, r) = 1 + x + (IF d < max THEN d ELSE max)
        /\ Allowed(m, 0, r + 1) = 1 + max * r + (IF 0 < max THEN 0 ELSE max)
    BY <1>2 DEF Allowed, max, x
  <1>4. Allowed(m, 0, r + 1) = 1 + max * r
    BY <1>1, <1>2, <1>3
  <1>5. c < max => Allowed(m, c + 1, r) = Allowed(m, c, r) + 1
    BY <1>1, <1>2, <1>3
  <1>6. Allowed(m, c, r) \in Int /\ Allowed(m, c, r) <= 1 + max * r
    BY <1>1, <1>2, <1>3
  <1>7. \A d \in Nat : d >= c => Allowed(m, c, r) <= Allowed(m, d, r)
    BY <1>1, <1>2, <1>3
  <1> QED
    BY <1>2, <1>4, <1>5, <1>6, <1>7 DEF max

(* The count of an id goes up, or starts again.                            *)
Grows(count, reset, count2, reset2) ==
    /\ {count, reset, count2, reset2} \subseteq [Ids -> Nat]
    /\ \A i \in Ids :
          \/ reset2[i] = reset[i] /\ count2[i] >= count[i]
          \/ reset2[i] = reset[i] + 1 /\ count2[i] = 0

LEMMA CountedGrows ==
    ASSUME ShapeInv, NEW queued, NEW taken, NEW count, NEW reset, NEW count2, NEW reset2,
           Counted(queued, taken, attempts, count, reset),
           Grows(count, reset, count2, reset2), NEW fewer, fewer \subseteq queued
    PROVE  Counted(fewer, taken, attempts, count2, reset2)
  <1>1. ASSUME NEW m \in Messages, m \in taken
        PROVE  /\ reset2[idOf[m]] >= 1
               /\ attempts[m] + (IF m \in fewer THEN 1 ELSE 0)
                     <= Allowed(m, count2[idOf[m]], reset2[idOf[m]])
    <2> DEFINE i == idOf[m]
               n == attempts[m] + (IF m \in queued THEN 1 ELSE 0)
               l == attempts[m] + (IF m \in fewer THEN 1 ELSE 0)
    <2>1. i \in Ids /\ attempts[m] \in Nat
      BY ConstantTypes DEF ShapeInv
    <2>2. count[i] \in Nat /\ reset[i] \in Nat /\ count2[i] \in Nat /\ reset2[i] \in Nat
      BY <2>1 DEF Grows
    <2>3. reset[i] >= 1 /\ n <= Allowed(m, count[i], reset[i])
      BY <1>1 DEF Counted
    <2>4. l <= n /\ l \in Int /\ n \in Int
      BY <2>1
    <2> HIDE DEF i, n, l
    <2> DEFINE a == Allowed(m, count[i], reset[i])
               b == Allowed(m, count2[i], reset2[i])
    <2>5. a \in Int /\ b \in Int
      BY <2>2, AllowedGrows
    <2>6. reset2[i] >= 1 /\ a <= b
      <3>1. CASE reset2[i] = reset[i] /\ count2[i] >= count[i]
        <4>1. Allowed(m, count[i], reset[i]) <= Allowed(m, count2[i], reset[i])
          BY <2>2, <3>1, AllowedGrows
        <4> QED
          BY <2>3, <3>1, <4>1
      <3>2. CASE reset2[i] = reset[i] + 1 /\ count2[i] = 0
        <4>1. Allowed(m, count[i], reset[i]) <= Allowed(m, 0, reset[i] + 1)
          BY <2>2, AllowedGrows
        <4> QED
          BY <2>2, <3>2, <4>1
      <3> QED
        BY <2>1, <3>1, <3>2 DEF Grows
    <2>7. n <= a
      BY <2>3
    <2> HIDE DEF a, b
    <2>8. l <= b
      BY <2>4, <2>5, <2>6, <2>7
    <2> QED
      BY <2>6, <2>8 DEF i, l, b
  <1> QED
    BY <1>1 DEF Counted

-----------------------------------------------------------------------------
(* Rounds of the retry timer.                                              *)

(* A queue and a set of transmissions, in between the values of retryQueue *)
(* and inFlight, as the invariant wants them.                              *)
Staged(queue, flight, begun, over, transmitted, waiting, count) ==
    /\ QueueInv(queue) /\ Separate(flight)
    /\ Fresh(Members(queue), InFlight(flight), sent, over)
    /\ Counted(Members(queue), sent, begun, count, resets)
    /\ Remembered(Members(queue), InFlight(flight), sent, transmitted, waiting)

LEMMA RoundStep ==
    ASSUME ShapeInv, NEW queue, NEW others, NEW over, NEW transmitted, NEW waiting, NEW count,
           Staged(queue, others, attempts, over, transmitted, waiting, count),
           \A t \in others : t.kind # "retry",
           NEW done \in 0 .. BatchSize, ContinueRound(queue, others, done, waiting),
           count \in [Ids -> Nat]
    PROVE  /\ Staged(retryQueue', inFlight', attempts', over, transmitted, waiting, count)
           /\ FlightInv'
           /\ attempts' \in [Messages -> Nat]
  <1>1. /\ QueueInv(queue) /\ Separate(others)
        /\ Fresh(Members(queue), InFlight(others), sent, over)
        /\ Counted(Members(queue), sent, attempts, count, resets)
        /\ Remembered(Members(queue), InFlight(others), sent, transmitted, waiting)
    BY DEF Staged
  <1>2. attempts \in [Messages -> Nat]
    BY DEF ShapeInv
  <1>3. ASSUME NEW m \in Messages, Begins(queue, others, waiting, m)
        PROVE  /\ Staged(retryQueue', inFlight', attempts', over, transmitted, waiting, count)
               /\ FlightInv'
               /\ attempts' \in [Messages -> Nat]
    <2>1. /\ QueueInv(retryQueue')
          /\ Members(retryQueue') \subseteq Members(queue)
          /\ m \in Members(queue) \ Members(retryQueue')
          /\ \A k \in Members(queue) \ Members(retryQueue') :
                k # m => idOf[k] \notin waiting
          /\ processed' \in 1 .. BatchSize
          /\ attempts' = [attempts EXCEPT ![m] = @ + 1]
      BY <1>3 DEF Begins, Served
    <2>2. PICK a \in Nat : inFlight' = others \cup {Transmission(m, "retry", a)}
      BY <1>3 DEF Begins
    <2> DEFINE u == Transmission(m, "retry", a)
    <2>3. u \in Transmissions /\ u.msg = m /\ u.kind = "retry"
      BY DEF Transmission, Transmissions
    <2>4. inFlight' = others \cup {u}
      BY <2>2
    <2> HIDE DEF u
    <2>5. m \notin InFlight(others) /\ m \in sent
      BY <1>1, <2>1 DEF Fresh
    <2>6. InFlight(inFlight') = InFlight(others) \cup {m}
      BY <2>3, <2>4 DEF InFlight
    <2>7. \A t \in others : t.msg # m
      BY <2>5 DEF InFlight
    <2>8. Separate(inFlight')
      BY <1>1, <2>3, <2>4, <2>7 DEF Separate
    <2>9. FlightInv'
      <3>1. \A t, v \in inFlight' : t.kind = "retry" /\ v.kind = "retry" => t = v
        BY <2>3, <2>4
      <3>2. processed' # Idle /\ processed' \in {Idle} \cup 1 .. BatchSize
        BY <2>1, ConstantTypes DEF Idle
      <3> QED
        BY <2>8, <3>1, <3>2 DEF FlightInv, Separate
    <2>10. Fresh(Members(retryQueue'), InFlight(inFlight'), sent, over)
      BY <1>1, <2>1, <2>6 DEF Fresh
    <2>11. attempts' \in [Messages -> Nat]
      BY <1>2, <2>1
    <2>12. ASSUME NEW k \in Messages
           PROVE  IF k \in sent
                  THEN /\ resets[idOf[k]] >= 1
                       /\ attempts'[k] + (IF k \in Members(retryQueue') THEN 1 ELSE 0)
                             <= Allowed(k, count[idOf[k]], resets[idOf[k]])
                  ELSE attempts'[k] = 0
      <3>1. IF k \in sent
            THEN /\ resets[idOf[k]] >= 1
                 /\ attempts[k] + (IF k \in Members(queue) THEN 1 ELSE 0)
                       <= Allowed(k, count[idOf[k]], resets[idOf[k]])
            ELSE attempts[k] = 0
        BY <1>1 DEF Counted
      <3>2. CASE k = m
        <4>1. attempts'[k] + (IF k \in Members(retryQueue') THEN 1 ELSE 0)
                = attempts[k] + (IF k \in Members(queue) THEN 1 ELSE 0)
          BY <1>2, <2>1, <3>2
        <4> QED
          BY <2>5, <3>1, <3>2, <4>1
      <3>3. CASE k # m
        <4> DEFINE l == Allowed(k, count[idOf[k]], resets[idOf[k]])
        <4>1. l \in Int
          BY ConstantTypes, AllowedGrows DEF ShapeInv
        <4>2. attempts'[k] = attempts[k] /\ attempts[k] \in Nat
          BY <1>2, <2>1, <3>3
        <4> HIDE DEF l
        <4>3. k \in sent => attempts[k] + (IF k \in Members(queue) THEN 1 ELSE 0) <= l
          BY <3>1 DEF l
        <4>4. k \in sent => attempts'[k] + (IF k \in Members(retryQueue') THEN 1 ELSE 0) <= l
          BY <2>1, <4>1, <4>2, <4>3
        <4> QED
          BY <3>1, <4>2, <4>4 DEF l
      <3> QED
        BY <3>2, <3>3
    <2>13. Counted(Members(retryQueue'), sent, attempts', count, resets)
      BY <2>12 DEF Counted
    <2>14. Remembered(Members(retryQueue'), InFlight(inFlight'), sent, transmitted, waiting)
      BY <1>1, <2>1, <2>6 DEF Remembered
    <2> QED
      BY <2>1, <2>8, <2>9, <2>10, <2>11, <2>13, <2>14 DEF Staged
  <1>4. ASSUME Ends(queue, others, waiting)
        PROVE  /\ Staged(retryQueue', inFlight', attempts', over, transmitted, waiting, count)
               /\ FlightInv'
               /\ attempts' \in [Messages -> Nat]
    <2>1. /\ QueueInv(retryQueue')
          /\ Members(retryQueue') \subseteq Members(queue)
          /\ \A k \in Members(queue) \ Members(retryQueue') : idOf[k] \notin waiting
          /\ processed' = Idle /\ inFlight' = others /\ attempts' = attempts
      BY <1>4 DEF Ends, Served
    <2>2. FlightInv'
      BY <1>1, <2>1 DEF FlightInv, Separate
    <2>3. Fresh(Members(retryQueue'), InFlight(others), sent, over)
      BY <1>1, <2>1 DEF Fresh
    <2>4. Counted(Members(retryQueue'), sent, attempts, count, resets)
      <3>1. Grows(count, resets, count, resets)
        BY DEF Grows, ShapeInv
      <3> QED
        BY <1>1, <2>1, <3>1, CountedGrows
    <2>5. Remembered(Members(retryQueue'), InFlight(others), sent, transmitted, waiting)
      BY <1>1, <2>1 DEF Remembered
    <2> QED
      BY <1>1, <1>2, <2>1, <2>2, <2>3, <2>4, <2>5 DEF Staged
  <1> QED
    BY <1>1, <1>3, <1>4, RoundLemma

-----------------------------------------------------------------------------
(* Steps that transmit nothing and queue nothing.                          *)

Quiet ==
    /\ UNCHANGED <<idOf, sent, inFlight, processed, attempts, handedOver>>
    /\ QueueInv(retryQueue')
    /\ Members(retryQueue') \subseteq Members(retryQueue)
    /\ \A m \in Members(retryQueue) \ Members(retryQueue') : idOf[m] \notin pending'
    /\ pending' \subseteq pending
    /\ armed' \subseteq armed /\ deadLetters' \subseteq deadLetters
    /\ Grows(retryCount, resets, retryCount', resets')

LEMMA QuietStep ==
    ASSUME DeliveryInv, ShapeInv', Quiet
    PROVE  DeliveryInv'
  <1>1. QueueInv(retryQueue') /\ QueueInv(retryQueue)'
    BY DEF Quiet, QueueInv
  <1>2. FlightInv'
    BY DEF DeliveryInv, Quiet, FlightInv, Separate
  <1>3. FreshInv'
    BY DEF DeliveryInv, Quiet, FreshInv, Fresh, Members, InFlight
  <1>4. CountInv'
    <2>1. Counted(Members(retryQueue'), sent, attempts, retryCount', resets')
      BY CountedGrows DEF DeliveryInv, Quiet, CountInv
    <2> QED
      BY <2>1 DEF Quiet, CountInv, Counted, Members
  <1>5. MemoryInv'
    <2>1. Remembered(Members(retryQueue), InFlight(inFlight), sent, handedOver, pending)
      BY DEF DeliveryInv, MemoryInv
    <2>2. Remembered(Members(retryQueue'), InFlight(inFlight), sent, handedOver, pending')
      BY <2>1 DEF Quiet, Remembered
    <2> QED
      BY <2>2 DEF Quiet, MemoryInv, Remembered, Members, InFlight, UniqueIds
  <1> QED
    BY <1>1, <1>2, <1>3, <1>4, <1>5 DEF DeliveryInv

(* What a step that only removes or only counts leaves as it is.            *)
LEMMA SameCounts ==
    ASSUME ShapeInv
    PROVE  Grows(retryCount, resets, retryCount, resets)
  BY DEF ShapeInv, Grows

LEMMA BecomeDueStep ==
    ASSUME DeliveryInv, NEW i \in DOMAIN retryQueue, BecomeDue(i)
    PROVE  DeliveryInv'
  <1>1. ShapeInv'
    BY DEF DeliveryInv, ShapeInv, BecomeDue, delivery, timers, history, bounds
  <1>2. QueueInv(retryQueue') /\ Members(retryQueue') = Members(retryQueue)
    <2>1. /\ retryQueue \in Seq(QueueEntries)
          /\ retryQueue' = [retryQueue EXCEPT ![i].due = TRUE]
      BY DEF DeliveryInv, QueueInv, BecomeDue
    <2>2. retryQueue[i] \in QueueEntries
      BY <2>1
    <2> DEFINE e == [retryQueue[i] EXCEPT !.due = TRUE]
    <2>3. e \in QueueEntries /\ e.msg = retryQueue[i].msg /\ e.attempt = retryQueue[i].attempt
      BY <2>2 DEF QueueEntries
    <2>4. retryQueue' = [retryQueue EXCEPT ![i] = e]
      BY <2>1
    <2> HIDE DEF e
    <2>5. retryQueue' \in Seq(QueueEntries) /\ DOMAIN retryQueue' = DOMAIN retryQueue
      <3>1. PICK n \in Nat : retryQueue \in [1 .. n -> QueueEntries]
        BY <2>1, SeqDef
      <3>2. retryQueue' \in [1 .. n -> QueueEntries]
        BY <2>3, <2>4, <3>1
      <3> QED
        BY <3>1, <3>2, SeqDef
    <2>6. \A j \in DOMAIN retryQueue :
              retryQueue'[j].msg = retryQueue[j].msg /\ retryQueue'[j].attempt = retryQueue[j].attempt
      BY <2>1, <2>3, <2>4
    <2>7. QueueInv(retryQueue')
      BY <2>5, <2>6 DEF DeliveryInv, QueueInv
    <2> QED
      BY <2>5, <2>6, <2>7 DEF Members
  <1>3. Grows(retryCount, resets, retryCount, resets)
    BY SameCounts DEF DeliveryInv
  <1>4. Quiet
    BY <1>2, <1>3 DEF Quiet, BecomeDue, delivery, timers, history
  <1> QED
    BY <1>1, <1>4, QuietStep

(* The queue of a step that does not touch it.                              *)
LEMMA SameQueue ==
    ASSUME DeliveryInv, UNCHANGED retryQueue
    PROVE  QueueInv(retryQueue') /\ Members(retryQueue') = Members(retryQueue)
  BY DEF DeliveryInv

LEMMA HandleType ==
    ASSUME NEW id \in Ids, NEW type \in {"ack", "nack"}, NEW echo \in Nat
    PROVE  /\ Handle(id, type, echo) \in Seq(Tasks)
           /\ <<Task("update", id, type, echo)>> \in Seq(Tasks)
  <1>1. Task("verify", id, type, echo) \in Tasks /\ Task("update", id, type, echo) \in Tasks
    BY DEF Task, Tasks
  <1>2. /\ <<Task("verify", id, type, echo)>> \in Seq(Tasks)
        /\ <<Task("update", id, type, echo)>> \in Seq(Tasks)
        /\ <<>> \in Seq(Tasks)
    BY <1>1
  <1> QED
    BY <1>2 DEF Handle

LEMMA IncomingAckStep ==
    ASSUME DeliveryInv, NEW id \in Ids, NEW type \in {"ack", "nack"}, IncomingAck(id, type)
    PROVE  DeliveryInv'
  <1>1. Handle(id, type, 1) \in Seq(Tasks)
    BY HandleType
  <1>2. tasks' \in Seq(Tasks)
    BY <1>1 DEF DeliveryInv, ShapeInv, IncomingAck
  <1>3. acks' \in Nat
    BY DEF DeliveryInv, ShapeInv, IncomingAck
  <1>4. ShapeInv'
    BY <1>2, <1>3 DEF DeliveryInv, ShapeInv, IncomingAck, delivery, timers, history
  <1>5. Quiet
    BY SameCounts, SameQueue DEF DeliveryInv, Quiet, IncomingAck, delivery, retry, timers, history
  <1> QED
    BY <1>4, <1>5, QuietStep

LEMMA VerifyAckStep ==
    ASSUME DeliveryInv, VerifyAck \/ RejectOldAck
    PROVE  DeliveryInv'
  <1>1. tasks \in Seq(Tasks) /\ tasks # <<>>
    BY DEF DeliveryInv, ShapeInv, VerifyAck, RejectOldAck
  <1> DEFINE task == Head(tasks)
  <1>2. task \in Tasks /\ Tail(tasks) \in Seq(Tasks)
    BY <1>1, HeadTailProperties
  <1> HIDE DEF task
  <1>3. task.id \in Ids /\ task.type \in {"ack", "nack"} /\ task.echo \in Nat
    BY <1>2 DEF Tasks
  <1> DEFINE h == Handle(task.id, task.type, task.echo + 1)
             u == <<Task("update", task.id, task.type, task.echo)>>
             rest == Tail(tasks)
  <1>4. h \in Seq(Tasks) /\ u \in Seq(Tasks) /\ rest \in Seq(Tasks)
    <2>1. task.echo + 1 \in Nat
      BY <1>3
    <2>2. h \in Seq(Tasks)
      BY <1>3, <2>1, HandleType
    <2>3. u \in Seq(Tasks)
      BY <1>3, HandleType
    <2> QED
      BY <1>2, <2>2, <2>3
  <1>5. tasks' = rest \/ tasks' = rest \o h \o u
    BY DEF VerifyAck, RejectOldAck, task
  <1> HIDE DEF h, u, rest
  <1>6. tasks' \in Seq(Tasks)
    <2>1. rest \o h \in Seq(Tasks)
      BY <1>4, ConcatProperties
    <2>2. rest \o h \o u \in Seq(Tasks)
      BY <1>4, <2>1, ConcatProperties
    <2> QED
      BY <1>4, <1>5, <2>2
  <1>7. ShapeInv'
    BY <1>6 DEF DeliveryInv, ShapeInv, VerifyAck, RejectOldAck, delivery, timers, history, bounds
  <1>8. Quiet
    BY SameCounts, SameQueue
    DEF DeliveryInv, Quiet, VerifyAck, RejectOldAck, delivery, retry, timers, history
  <1> QED
    BY <1>7, <1>8, QuietStep

LEMMA TaskTypes ==
    ASSUME DeliveryInv, tasks # <<>>
    PROVE  Head(tasks).id \in Ids /\ Tail(tasks) \in Seq(Tasks)
  <1>1. tasks \in Seq(Tasks)
    BY DEF DeliveryInv, ShapeInv
  <1>2. Head(tasks) \in Tasks /\ Tail(tasks) \in Seq(Tasks)
    BY <1>1, HeadTailProperties
  <1>3. \A t \in Tasks : t.id \in Ids
    BY DEF Tasks
  <1> QED
    BY <1>2, <1>3

LEMMA RemoveStep ==
    ASSUME DeliveryInv, NEW id \in Ids, retryQueue' = RemoveEntry(retryQueue, id),
           pending' = pending \ {id}
    PROVE  /\ QueueInv(retryQueue')
           /\ Members(retryQueue') \subseteq Members(retryQueue)
           /\ \A m \in Members(retryQueue) \ Members(retryQueue') : idOf[m] \notin pending'
  <1>1. QueueInv(retryQueue)
    BY DEF DeliveryInv
  <1> QED
    BY <1>1, RemoveEntryLemma

LEMMA UpdateDeliveredStep ==
    ASSUME DeliveryInv, UpdateDelivered
    PROVE  DeliveryInv'
  <1> DEFINE id == Head(tasks).id
  <1>1. id \in Ids /\ tasks' \in Seq(Tasks)
    BY TaskTypes DEF UpdateDelivered
  <1>2. /\ delivered' = delivered + 1
        /\ armed' = armed \ ackTimeout[id]
        /\ ackTimeout' = [ackTimeout EXCEPT ![id] = {}]
        /\ retryQueue' = RemoveEntry(retryQueue, id)
        /\ completed' = [completed EXCEPT ![id] = "acknowledged"]
        /\ pending' = pending \ {id}
        /\ UNCHANGED <<idOf, running, sent, retryCount, deadLetters, inFlight,
                       processed, history, bounds>>
    BY DEF UpdateDelivered
  <1> HIDE DEF id
  <1>3. ShapeInv'
    BY <1>1, <1>2 DEF DeliveryInv, ShapeInv, history, bounds
  <1>4. Quiet
    BY <1>1, <1>2, RemoveStep, SameCounts DEF DeliveryInv, Quiet, history
  <1> QED
    BY <1>3, <1>4, QuietStep

LEMMA CancelMessageStep ==
    ASSUME DeliveryInv, NEW id \in Ids, CancelMessage(id)
    PROVE  DeliveryInv'
  <1>1. /\ completed' = [completed EXCEPT ![id] = "failed"]
        /\ pending' = pending \ {id}
        /\ armed' = armed \ ackTimeout[id]
        /\ ackTimeout' = [ackTimeout EXCEPT ![id] = {}]
        /\ retryQueue' = RemoveEntry(retryQueue, id)
        /\ UNCHANGED <<idOf, running, sent, retryCount, deadLetters, delivered, inFlight,
                       processed, tasks, history, bounds>>
    BY DEF CancelMessage
  <1>2. ShapeInv'
    BY <1>1 DEF DeliveryInv, ShapeInv, history, bounds
  <1>3. Quiet
    BY <1>1, RemoveStep, SameCounts DEF DeliveryInv, Quiet, history
  <1> QED
    BY <1>2, <1>3, QuietStep

(* scheduleRetryForExisting only counts.                                    *)
LEMMA ExistingCounts ==
    ASSUME ShapeInv, NEW id \in Ids, ScheduleRetryForExisting(id)
    PROVE  retryCount' \in [Ids -> Nat] /\ Grows(retryCount, resets, retryCount', resets)
  BY DEF ShapeInv, ScheduleRetryForExisting, Grows

LEMMA UpdateRefusedStep ==
    ASSUME DeliveryInv, UpdateRefused
    PROVE  DeliveryInv'
  <1>1. Head(tasks).id \in Ids /\ tasks' \in Seq(Tasks)
    BY TaskTypes DEF UpdateRefused
  <1>2. retryCount' \in [Ids -> Nat] /\ Grows(retryCount, resets, retryCount', resets)
    BY <1>1, ExistingCounts DEF DeliveryInv, UpdateRefused
  <1>3. ShapeInv'
    BY <1>1, <1>2 DEF DeliveryInv, ShapeInv, UpdateRefused, timers, history, bounds
  <1>4. Quiet
    BY <1>2, SameQueue DEF DeliveryInv, Quiet, UpdateRefused, retry, timers, history
  <1> QED
    BY <1>3, <1>4, QuietStep

LEMMA AckTimeoutStep ==
    ASSUME DeliveryInv, NEW m \in armed, AckTimeout(m)
    PROVE  DeliveryInv'
  <1>1. idOf[m] \in Ids
    BY ConstantTypes DEF DeliveryInv, ShapeInv
  <1>2. retryCount' \in [Ids -> Nat] /\ Grows(retryCount, resets, retryCount', resets)
    BY <1>1, ExistingCounts DEF DeliveryInv, AckTimeout
  <1>3. ShapeInv'
    BY <1>2 DEF DeliveryInv, ShapeInv, AckTimeout, history, bounds
  <1>4. Quiet
    BY <1>2, SameQueue DEF DeliveryInv, Quiet, AckTimeout, retry, history
  <1> QED
    BY <1>3, <1>4, QuietStep

LEMMA RetryMessageStep ==
    ASSUME DeliveryInv, NEW id \in Ids, RetryMessage(id)
    PROVE  DeliveryInv'
  <1>1. /\ retryCount \in [Ids -> Nat] /\ resets \in [Ids -> Nat] /\ manual \in Nat
        /\ retryCount' = [retryCount EXCEPT ![id] = 0]
        /\ resets' = [resets EXCEPT ![id] = @ + 1]
        /\ manual' = manual + 1
    BY DEF DeliveryInv, ShapeInv, RetryMessage
  <1>2. /\ retryCount' \in [Ids -> Nat] /\ resets' \in [Ids -> Nat] /\ manual' \in Nat
        /\ Grows(retryCount, resets, retryCount', resets')
    BY <1>1 DEF Grows
  <1>3. ShapeInv'
    BY <1>2 DEF DeliveryInv, ShapeInv, RetryMessage, timers
  <1>4. Quiet
    BY <1>2, SameQueue DEF DeliveryInv, Quiet, RetryMessage, retry, timers
  <1> QED
    BY <1>3, <1>4, QuietStep

LEMMA ShutdownStep ==
    ASSUME DeliveryInv, Shutdown
    PROVE  DeliveryInv'
  <1>1. ShapeInv'
    BY DEF DeliveryInv, ShapeInv, Shutdown, history, bounds
  <1>2. QueueInv(retryQueue') /\ Members(retryQueue') = {} /\ pending' = {}
    BY DEF Shutdown, QueueInv, Members
  <1>3. Quiet
    BY <1>2, SameCounts DEF DeliveryInv, Quiet, Shutdown, history
  <1> QED
    BY <1>1, <1>3, QuietStep

-----------------------------------------------------------------------------
(* Sending.                                                                *)

LEMMA SendReliableMessageStep ==
    ASSUME DeliveryInv, NEW m \in Messages, SendReliableMessage(m)
    PROVE  DeliveryInv'
  <1> DEFINE t == Transmission(m, "send", 0)
             Q == Members(retryQueue)
             F == InFlight(inFlight)
  <1>1. /\ m \notin sent
        /\ sent' = sent \cup {m}
        /\ pending' = pending \cup {idOf[m]}
        /\ retryCount' = [retryCount EXCEPT ![idOf[m]] = 0]
        /\ inFlight' = inFlight \cup {t}
        /\ attempts' = [attempts EXCEPT ![m] = @ + 1]
        /\ resets' = [resets EXCEPT ![idOf[m]] = @ + 1]
        /\ UNCHANGED <<idOf, running, completed, deadLetters, delivered, retryQueue,
                       processed, timers, tasks, handedOver, bounds>>
    BY DEF SendReliableMessage
  <1>2. t \in Transmissions /\ t.msg = m /\ t.kind = "send"
    BY DEF Transmission, Transmissions
  <1> HIDE DEF t
  <1>3. /\ idOf[m] \in Ids /\ sent \subseteq Messages
        /\ retryCount \in [Ids -> Nat] /\ resets \in [Ids -> Nat]
        /\ attempts \in [Messages -> Nat]
    BY ConstantTypes DEF DeliveryInv, ShapeInv
  <1>4. /\ retryCount' \in [Ids -> Nat] /\ resets' \in [Ids -> Nat]
        /\ attempts' \in [Messages -> Nat]
        /\ Grows(retryCount, resets, retryCount', resets')
    BY <1>1, <1>3 DEF Grows
  <1>5. ShapeInv'
    BY <1>1, <1>3, <1>4 DEF DeliveryInv, ShapeInv, timers, bounds
  <1>6. /\ Q \cap F = {} /\ Q \cup F \subseteq sent \ (armed \cup handedOver \cup deadLetters)
        /\ armed \cup handedOver \cup deadLetters \subseteq sent
        /\ deadLetters \cap handedOver = {}
    BY DEF DeliveryInv, ShapeInv, FreshInv, Fresh
  <1>7. InFlight(inFlight') = F \cup {m}
    BY <1>1, <1>2 DEF InFlight
  <1>8. \A u \in inFlight : u.msg # m
    BY <1>1, <1>6 DEF InFlight
  <1>9. QueueInv(retryQueue')
    BY <1>1 DEF DeliveryInv
  <1>10. FlightInv'
    BY <1>1, <1>2, <1>8 DEF DeliveryInv, FlightInv, Separate
  <1>11. FreshInv'
    <2>1. Fresh(Q, F \cup {m}, sent \cup {m}, armed \cup handedOver \cup deadLetters)
      BY <1>1, <1>6 DEF Fresh
    <2> HIDE DEF Q, F
    <2>2. FreshInv' <=> /\ Fresh(Members(retryQueue)', InFlight(inFlight)', sent',
                                 armed' \cup handedOver' \cup deadLetters')
                        /\ deadLetters' \cap handedOver' = {}
      BY DEF FreshInv, Fresh
    <2> QED
      BY <1>1, <1>6, <1>7, <2>1, <2>2 DEF timers, Q
  <1>12. CountInv'
    <2>1. Counted(Q, sent, attempts, retryCount', resets')
      BY <1>4, CountedGrows DEF DeliveryInv, CountInv
    <2>2. ASSUME NEW k \in Messages
          PROVE  IF k \in sent'
                 THEN /\ resets'[idOf[k]] >= 1
                      /\ attempts'[k] + (IF k \in Q THEN 1 ELSE 0)
                            <= Allowed(k, retryCount'[idOf[k]], resets'[idOf[k]])
                 ELSE attempts'[k] = 0
      <3>1. CASE k = m
        <4>1. attempts[k] = 0 /\ k \notin Q
          BY <1>1, <1>6, <2>1, <3>1 DEF Counted
        <4>2. attempts'[k] = 1
          BY <1>1, <1>3, <3>1, <4>1
        <4>3. retryCount'[idOf[k]] = 0 /\ resets'[idOf[k]] = resets[idOf[k]] + 1
          BY <1>1, <1>3, <3>1
        <4>4. resets[idOf[k]] \in Nat /\ 1 <= Allowed(k, 0, resets[idOf[k]] + 1)
          BY <1>3, <3>1, AllowedGrows
        <4>5. k \in sent' /\ resets'[idOf[k]] >= 1
          BY <1>1, <3>1, <4>3, <4>4
        <4>6. 1 <= Allowed(k, retryCount'[idOf[k]], resets'[idOf[k]])
          BY <4>3, <4>4
        <4> QED
          BY <4>1, <4>2, <4>5, <4>6
      <3>2. CASE k # m
        <4>1. attempts'[k] = attempts[k] /\ (k \in sent' <=> k \in sent)
          BY <1>1, <1>3, <3>2
        <4> QED
          BY <2>1, <4>1 DEF Counted
      <3> QED
        BY <3>1, <3>2
    <2> QED
      BY <1>1, <2>2 DEF CountInv, Counted, Members
  <1>13. MemoryInv'
    <2>1. Remembered(Q, F, sent, handedOver, pending)
      BY DEF DeliveryInv, MemoryInv
    <2>2. Remembered(Q, F \cup {m}, sent', handedOver, pending')
      BY <1>1, <1>3, <2>1 DEF Remembered, UniqueIds
    <2>3. MemoryInv' <=> Remembered(Members(retryQueue)', InFlight(inFlight)', sent',
                                    handedOver', pending')
      BY <1>1 DEF MemoryInv, Remembered, UniqueIds
    <2> QED
      BY <1>1, <1>7, <2>2, <2>3
  <1> QED
    BY <1>1, <1>5, <1>9, <1>10, <1>11, <1>12, <1>13 DEF DeliveryInv

-----------------------------------------------------------------------------
(* The mesh answers.                                                       *)

(* A transmission of m is over, and the queue is as the answer leaves it.   *)
Over == armed \cup handedOver \cup deadLetters

Returned(queue, m) ==
    /\ QueueInv(queue)
    /\ Fresh(Members(queue), InFlight(inFlight) \ {m}, sent, Over')
    /\ deadLetters' \cap handedOver' = {}
    /\ Counted(Members(queue), sent, attempts, retryCount', resets)
    /\ Remembered(Members(queue), InFlight(inFlight) \ {m}, sent, handedOver', pending')
    /\ retryCount' \in [Ids -> Nat]
    /\ pending' \subseteq Ids
    /\ completed' \in [Ids -> {"none", "acknowledged", "failed"}]
    /\ armed' \subseteq sent /\ ackTimeout' \in [Ids -> SUBSET sent]
    /\ deadLetters' \subseteq sent /\ handedOver' \subseteq sent

(* The invariant of a message in flight.                                    *)
LEMMA FlyingFacts ==
    ASSUME DeliveryInv, NEW t \in inFlight
    PROVE  /\ t.msg \in Messages /\ t.attempt \in Nat /\ idOf[t.msg] \in Ids
           /\ t.msg \in sent /\ t.msg \in InFlight(inFlight)
           /\ t.msg \notin Over /\ t.msg \notin Members(retryQueue)
           /\ InFlight(inFlight \ {t}) = InFlight(inFlight) \ {t.msg}
  <1>1. t \in Transmissions
    BY DEF DeliveryInv, FlightInv, Separate
  <1>2. t.msg \in Messages /\ t.attempt \in Nat
    BY <1>1 DEF Transmissions
  <1>3. idOf[t.msg] \in Ids
    BY <1>2, ConstantTypes DEF DeliveryInv, ShapeInv
  <1>4. t.msg \in InFlight(inFlight)
    BY DEF InFlight
  <1>5. t.msg \in sent /\ t.msg \notin Over /\ t.msg \notin Members(retryQueue)
    BY <1>4 DEF DeliveryInv, FreshInv, Fresh, Over
  <1>6. \A u \in inFlight : u.msg = t.msg => u = t
    BY DEF DeliveryInv, FlightInv, Separate
  <1>7. InFlight(inFlight \ {t}) = InFlight(inFlight) \ {t.msg}
    BY <1>6 DEF InFlight
  <1> QED
    BY <1>2, <1>3, <1>4, <1>5, <1>7

LEMMA HandedStep ==
    ASSUME DeliveryInv, NEW t \in inFlight, SetupAckTimeout(t.msg),
           handedOver' = handedOver \cup {t.msg}
    PROVE  Returned(retryQueue, t.msg)
  <1> DEFINE m == t.msg
  <1>1. /\ m \in Messages /\ idOf[m] \in Ids /\ m \in sent
        /\ m \notin Over /\ m \notin Members(retryQueue)
    BY FlyingFacts
  <1> HIDE DEF m
  <1>2. /\ armed' = armed \cup {m} /\ handedOver' = handedOver \cup {m}
        /\ ackTimeout' = [ackTimeout EXCEPT ![idOf[m]] = {m}]
        /\ UNCHANGED <<pending, completed, deadLetters, retryCount>>
    BY DEF SetupAckTimeout, m
  <1>3. Over' = Over \cup {m} /\ deadLetters' \cap handedOver' = {}
    BY <1>1, <1>2 DEF Over, DeliveryInv, FreshInv
  <1>4. Fresh(Members(retryQueue), InFlight(inFlight) \ {m}, sent, Over')
    BY <1>1, <1>3 DEF DeliveryInv, FreshInv, Fresh, Over
  <1>5. Counted(Members(retryQueue), sent, attempts, retryCount', resets)
    BY <1>2 DEF DeliveryInv, CountInv
  <1>6. Remembered(Members(retryQueue), InFlight(inFlight) \ {m}, sent, handedOver', pending')
    BY <1>2 DEF DeliveryInv, MemoryInv, Remembered
  <1>7. /\ retryCount' \in [Ids -> Nat] /\ pending' \subseteq Ids
        /\ completed' \in [Ids -> {"none", "acknowledged", "failed"}]
        /\ armed' \subseteq sent /\ ackTimeout' \in [Ids -> SUBSET sent]
        /\ deadLetters' \subseteq sent /\ handedOver' \subseteq sent
    BY <1>1, <1>2 DEF DeliveryInv, ShapeInv
  <1>8. QueueInv(retryQueue)
    BY DEF DeliveryInv
  <1> QED
    BY <1>3, <1>4, <1>5, <1>6, <1>7, <1>8 DEF Returned, m

(* No id waits for m any more, or m is not pending: nothing is queued.      *)
LEMMA GivenUpStep ==
    ASSUME DeliveryInv, NEW t \in inFlight, UNCHANGED handedOver,
           \/ MoveToDeadLetterQueue(t.msg)
           \/ /\ idOf[t.msg] \notin pending
              /\ UNCHANGED <<pending, completed, deadLetters, retryCount, timers>>
    PROVE  Returned(retryQueue, t.msg)
  <1> DEFINE m == t.msg
  <1>1. /\ m \in Messages /\ idOf[m] \in Ids /\ m \in sent
        /\ m \notin Over /\ m \notin Members(retryQueue)
    BY FlyingFacts
  <1> HIDE DEF m
  <1>2. /\ armed' \subseteq armed /\ handedOver' = handedOver
        /\ deadLetters' \subseteq deadLetters \cup {m}
        /\ pending' = pending \ {idOf[m]}
        /\ UNCHANGED retryCount
    BY DEF MoveToDeadLetterQueue, timers, m
  <1>3. /\ completed' \in [Ids -> {"none", "acknowledged", "failed"}]
        /\ ackTimeout' \in [Ids -> SUBSET sent]
    BY <1>1 DEF DeliveryInv, ShapeInv, MoveToDeadLetterQueue, timers, m
  <1>4. Over' \subseteq Over \cup {m} /\ deadLetters' \cap handedOver' = {}
    BY <1>1, <1>2 DEF Over, DeliveryInv, FreshInv
  <1>5. Fresh(Members(retryQueue), InFlight(inFlight) \ {m}, sent, Over')
    BY <1>1, <1>4 DEF DeliveryInv, FreshInv, Fresh, Over
  <1>6. Counted(Members(retryQueue), sent, attempts, retryCount', resets)
    BY <1>2 DEF DeliveryInv, CountInv
  <1>7. Remembered(Members(retryQueue), InFlight(inFlight) \ {m}, sent, handedOver', pending')
    BY <1>2 DEF DeliveryInv, MemoryInv, Remembered
  <1>8. /\ retryCount' \in [Ids -> Nat] /\ pending' \subseteq Ids
        /\ armed' \subseteq sent
        /\ deadLetters' \subseteq sent /\ handedOver' \subseteq sent
    BY <1>1, <1>2 DEF DeliveryInv, ShapeInv
  <1>9. QueueInv(retryQueue)
    BY DEF DeliveryInv
  <1> QED
    BY <1>3, <1>4, <1>5, <1>6, <1>7, <1>8, <1>9 DEF Returned, m

(* A failure: counted and queued, or given up.                              *)
LEMMA FailedStep ==
    ASSUME DeliveryInv, NEW t \in inFlight, ScheduleRetry(t.msg), UNCHANGED handedOver
    PROVE  Returned(QueueAfterFailure(t.msg), t.msg)
  <1> DEFINE m == t.msg
             c == retryCount[idOf[m]]
             e == [msg |-> m, attempt |-> c, due |-> FALSE]
             Q == Members(retryQueue)
  <1>1. /\ m \in Messages /\ idOf[m] \in Ids /\ m \in sent
        /\ m \notin Over /\ m \notin Q
    BY FlyingFacts
  <1>2. CASE ~ (idOf[m] \in pending /\ RetriesLeft(m))
    <2>1. QueueAfterFailure(m) = retryQueue
      BY <1>2 DEF QueueAfterFailure
    <2>2. \/ MoveToDeadLetterQueue(m)
          \/ /\ idOf[m] \notin pending
             /\ UNCHANGED <<pending, completed, deadLetters, retryCount, timers>>
      BY <1>2 DEF ScheduleRetry
    <2>3. Returned(retryQueue, m)
      BY <2>2, GivenUpStep
    <2> QED
      BY <2>1, <2>3
  <1>3. CASE idOf[m] \in pending /\ RetriesLeft(m)
    <2>1. /\ QueueAfterFailure(m) = Enqueue(retryQueue, e)
          /\ retryCount' = [retryCount EXCEPT ![idOf[m]] = @ + 1]
          /\ UNCHANGED <<pending, completed, deadLetters, timers>>
      BY <1>3 DEF QueueAfterFailure, ScheduleRetry
    <2>2. c < MaxRetries[m]
      BY <1>3 DEF RetriesLeft
    <2>3. /\ retryCount \in [Ids -> Nat] /\ resets \in [Ids -> Nat]
          /\ attempts \in [Messages -> Nat]
      BY DEF DeliveryInv, ShapeInv
    <2>4. c \in Nat
      BY <1>1, <2>3
    <2>5. e \in QueueEntries /\ e.msg = m /\ e.attempt = c
      BY <1>1, <2>4 DEF QueueEntries
    <2> HIDE DEF m, c, e, Q
    <2> DEFINE queue == Enqueue(retryQueue, e)
    <2>6. QueueInv(queue) /\ Members(queue) = Q \cup {m}
      <3>1. QueueInv(retryQueue)
        BY DEF DeliveryInv
      <3> QED
        BY <1>1, <2>2, <2>5, <3>1, EnqueueLemma DEF Q
    <2> HIDE DEF queue
    <2>7. Over' = Over /\ deadLetters' \cap handedOver' = {}
      BY <2>1 DEF Over, timers, DeliveryInv, FreshInv
    <2>8. Fresh(Members(queue), InFlight(inFlight) \ {m}, sent, Over')
      BY <1>1, <2>6, <2>7 DEF DeliveryInv, FreshInv, Fresh, Over, Q
    <2>9. Counted(Members(queue), sent, attempts, retryCount', resets)
      <3>1. Counted(Q, sent, attempts, retryCount, resets)
        BY DEF DeliveryInv, CountInv, Q
      <3>2. retryCount' \in [Ids -> Nat] /\ Grows(retryCount, resets, retryCount', resets)
        BY <1>1, <2>1, <2>3 DEF Grows
      <3>3. Counted(Q, sent, attempts, retryCount', resets)
        BY <3>1, <3>2, CountedGrows DEF DeliveryInv
      <3>4. ASSUME NEW k \in Messages
            PROVE  IF k \in sent
                   THEN /\ resets[idOf[k]] >= 1
                        /\ attempts[k] + (IF k \in Members(queue) THEN 1 ELSE 0)
                              <= Allowed(k, retryCount'[idOf[k]], resets[idOf[k]])
                   ELSE attempts[k] = 0
        <4>1. CASE k = m
          <5> DEFINE r == resets[idOf[m]]
          <5>1. r \in Nat /\ r >= 1 /\ attempts[m] \in Nat /\ retryCount'[idOf[m]] = c + 1
            BY <1>1, <2>1, <2>3, <3>1 DEF Counted, c
          <5>2. attempts[m] <= Allowed(m, c, r)
            BY <1>1, <3>1, <5>1 DEF Counted, c
          <5> HIDE DEF r
          <5>3. Allowed(m, c, r) \in Int /\ Allowed(m, c + 1, r) = Allowed(m, c, r) + 1
            BY <1>1, <2>2, <2>4, <5>1, AllowedGrows
          <5>4. attempts[m] + 1 <= Allowed(m, c + 1, r)
            BY <5>1, <5>2, <5>3
          <5>5. m \in Members(queue)
            BY <2>6
          <5> QED
            BY <1>1, <4>1, <5>1, <5>4, <5>5 DEF r
        <4>2. CASE k # m
          <5>1. k \in Members(queue) <=> k \in Q
            BY <2>6, <4>2
          <5> QED
            BY <3>3, <5>1 DEF Counted
        <4> QED
          BY <4>1, <4>2
      <3> QED
        BY <3>4 DEF Counted
    <2>10. Remembered(Members(queue), InFlight(inFlight) \ {m}, sent, handedOver', pending')
      BY <2>1, <2>6 DEF DeliveryInv, MemoryInv, Remembered, Q
    <2>11. /\ retryCount' \in [Ids -> Nat] /\ pending' \subseteq Ids
           /\ completed' \in [Ids -> {"none", "acknowledged", "failed"}]
           /\ armed' \subseteq sent /\ ackTimeout' \in [Ids -> SUBSET sent]
           /\ deadLetters' \subseteq sent /\ handedOver' \subseteq sent
      BY <1>1, <2>1 DEF DeliveryInv, ShapeInv, timers
    <2>12. Returned(queue, m)
      BY <2>6, <2>7, <2>8, <2>9, <2>10, <2>11 DEF Returned
    <2> QED
      BY <2>1, <2>12 DEF queue, m
  <1> QED
    BY <1>2, <1>3

(* What an answer leaves, together with what the rest of the step leaves.   *)
LEMMA ReturnedShape ==
    ASSUME ShapeInv, NEW queue, NEW m, Returned(queue, m), attempts' \in [Messages -> Nat],
           UNCHANGED <<idOf, running, sent, delivered, tasks, resets, bounds>>
    PROVE  ShapeInv'
  BY DEF ShapeInv, Returned, bounds

LEMMA SendReturnsStep ==
    ASSUME DeliveryInv, NEW t \in inFlight, NEW success \in BOOLEAN, SendReturns(t, success)
    PROVE  DeliveryInv'
  <1> DEFINE m == t.msg
  <1>1. Returned(retryQueue', m)
    <2>1. CASE success
      BY <2>1, HandedStep DEF SendReturns
    <2>2. CASE ~ success
      BY <2>2, FailedStep DEF SendReturns
    <2> QED
      BY <2>1, <2>2
  <1>2. /\ inFlight' = inFlight \ {t}
        /\ UNCHANGED <<idOf, running, sent, delivered, processed, tasks, attempts, resets, bounds>>
    BY DEF SendReturns
  <1>3. InFlight(inFlight') = InFlight(inFlight) \ {m}
    BY <1>2, FlyingFacts
  <1> HIDE DEF m
  <1>4. ShapeInv'
    BY <1>1, <1>2, ReturnedShape DEF DeliveryInv, ShapeInv
  <1>5. FlightInv'
    BY <1>2 DEF DeliveryInv, FlightInv, Separate
  <1>6. FreshInv'
    <2>1. /\ Fresh(Members(retryQueue'), InFlight(inFlight'), sent', Over')
          /\ deadLetters' \cap handedOver' = {}
      BY <1>1, <1>2, <1>3 DEF Returned
    <2> QED
      BY <2>1 DEF FreshInv, Fresh, Over, Members, InFlight
  <1>7. CountInv'
    BY <1>1, <1>2 DEF Returned, CountInv, Counted, Members
  <1>8. MemoryInv'
    <2>1. Remembered(Members(retryQueue'), InFlight(inFlight'), sent', handedOver', pending')
      BY <1>1, <1>2, <1>3 DEF Returned
    <2> QED
      BY <1>2, <2>1 DEF MemoryInv, Remembered, Members, InFlight, UniqueIds
  <1> QED
    BY <1>1, <1>4, <1>5, <1>6, <1>7, <1>8 DEF DeliveryInv, Returned

(* The invariant after a round.                                             *)
LEMMA StagedInv ==
    ASSUME ShapeInv', FlightInv', UNCHANGED <<idOf, sent, resets>>,
           Staged(retryQueue', inFlight', attempts', Over', handedOver', pending', retryCount'),
           deadLetters' \cap handedOver' = {}
    PROVE  DeliveryInv'
  <1>1. /\ QueueInv(retryQueue')
        /\ Fresh(Members(retryQueue'), InFlight(inFlight'), sent', Over')
        /\ Counted(Members(retryQueue'), sent', attempts', retryCount', resets')
        /\ Remembered(Members(retryQueue'), InFlight(inFlight'), sent', handedOver', pending')
    BY DEF Staged
  <1>2. FreshInv'
    BY <1>1 DEF FreshInv, Fresh, Over, Members, InFlight
  <1>3. CountInv'
    BY <1>1 DEF CountInv, Counted, Members
  <1>4. MemoryInv'
    BY <1>1 DEF MemoryInv, Remembered, Members, InFlight, UniqueIds
  <1> QED
    BY <1>1, <1>2, <1>3, <1>4 DEF DeliveryInv

LEMMA ProcessRetryQueueStep ==
    ASSUME DeliveryInv, ProcessRetryQueue
    PROVE  DeliveryInv'
  <1>1. /\ ShapeInv /\ processed = Idle
        /\ ContinueRound(retryQueue, inFlight, 0, pending)
        /\ UNCHANGED <<idOf, running, delivery, timers, tasks, handedOver, resets, bounds>>
    BY DEF DeliveryInv, ProcessRetryQueue
  <1>2. \A t \in inFlight : t.kind # "retry"
    BY <1>1 DEF DeliveryInv, FlightInv
  <1>3. Staged(retryQueue, inFlight, attempts, Over, handedOver, pending, retryCount)
    BY DEF DeliveryInv, FlightInv, FreshInv, CountInv, MemoryInv, Staged, Over
  <1>4. retryCount \in [Ids -> Nat] /\ 0 \in 0 .. BatchSize
    BY <1>1, ConstantTypes DEF ShapeInv
  <1>5. /\ Staged(retryQueue', inFlight', attempts', Over, handedOver, pending, retryCount)
        /\ FlightInv' /\ attempts' \in [Messages -> Nat]
    BY <1>1, <1>2, <1>3, <1>4, RoundStep
  <1>6. /\ Over' = Over /\ handedOver' = handedOver /\ pending' = pending
        /\ retryCount' = retryCount /\ deadLetters' = deadLetters
        /\ idOf' = idOf /\ sent' = sent /\ resets' = resets
    BY <1>1 DEF Over, delivery, timers
  <1>7. ShapeInv'
    BY <1>1, <1>5 DEF ShapeInv, delivery, timers, bounds
  <1>8. deadLetters' \cap handedOver' = {}
    BY <1>6 DEF DeliveryInv, FreshInv
  <1> QED
    BY <1>5, <1>6, <1>7, <1>8, StagedInv

LEMMA RetryReturnsStep ==
    ASSUME DeliveryInv, NEW t \in inFlight, NEW success \in BOOLEAN, RetryReturns(t, success)
    PROVE  DeliveryInv'
  <1> DEFINE m == t.msg
             queue == IF success \/ t.attempt >= MaxRetries[m] THEN retryQueue
                      ELSE QueueAfterFailure(m)
             others == inFlight \ {t}
  <1>0. t.attempt \in Nat /\ MaxRetries[m] \in Nat
    BY FlyingFacts, ConstantTypes
  <1>1. Returned(queue, m)
    <2>1. CASE success
      BY <2>1, HandedStep DEF RetryReturns
    <2>2. CASE ~ success /\ t.attempt < MaxRetries[m]
      <3>1. queue = QueueAfterFailure(m)
        BY <1>0, <2>2
      <3> QED
        BY <2>2, <3>1, FailedStep DEF RetryReturns
    <2>3. CASE ~ success /\ ~ (t.attempt < MaxRetries[m])
      <3>1. queue = retryQueue
        BY <1>0, <2>3
      <3> QED
        BY <2>3, <3>1, GivenUpStep DEF RetryReturns
    <2> QED
      BY <2>1, <2>2, <2>3
  <1>2. /\ t.kind = "retry"
        /\ ContinueRound(queue, others, processed, pending')
        /\ UNCHANGED <<idOf, running, sent, delivered, tasks, resets, bounds>>
    BY DEF RetryReturns
  <1>3. InFlight(others) = InFlight(inFlight) \ {m}
    BY FlyingFacts
  <1>4. Separate(others) /\ \A u \in others : u.kind # "retry"
    BY <1>2 DEF DeliveryInv, FlightInv, Separate
  <1>5. processed \in 0 .. BatchSize
    BY <1>2, ConstantTypes DEF DeliveryInv, FlightInv
  <1> HIDE DEF m, queue, others
  <1>6. Staged(queue, others, attempts, Over', handedOver', pending', retryCount')
    BY <1>1, <1>3, <1>4 DEF Staged, Returned
  <1>7. ShapeInv /\ retryCount' \in [Ids -> Nat]
    BY <1>1 DEF DeliveryInv, Returned
  <1>8. /\ Staged(retryQueue', inFlight', attempts', Over', handedOver', pending', retryCount')
        /\ FlightInv' /\ attempts' \in [Messages -> Nat]
    BY <1>2, <1>4, <1>5, <1>6, <1>7, RoundStep
  <1>9. ShapeInv' /\ deadLetters' \cap handedOver' = {}
    BY <1>1, <1>2, <1>7, <1>8, ReturnedShape DEF Returned
  <1> QED
    BY <1>2, <1>8, <1>9, StagedInv

-----------------------------------------------------------------------------
(* The theorem.                                                            *)

LEMMA DeliveryInit ==
    ASSUME Init
    PROVE  DeliveryInv
  <1>1. ShapeInv
    BY DeliveryAssumption DEF Init, ShapeInv
  <1>2. QueueInv(retryQueue) /\ Members(retryQueue) = {} /\ InFlight(inFlight) = {}
    BY DEF Init, QueueInv, Members, InFlight
  <1>3. FlightInv
    BY DEF Init, FlightInv, Separate
  <1>4. FreshInv /\ MemoryInv
    BY <1>2 DEF Init, FreshInv, Fresh, MemoryInv, Remembered
  <1>5. CountInv
    BY DEF Init, CountInv, Counted
  <1> QED
    BY <1>1, <1>2, <1>3, <1>4, <1>5 DEF DeliveryInv

LEMMA DeliveryNext ==
    ASSUME DeliveryInv, [Next]_vars
    PROVE  DeliveryInv'
  <1>1. ASSUME NEW m \in Messages, SendReliableMessage(m)
        PROVE  DeliveryInv'
    BY <1>1, SendReliableMessageStep
  <1>2. ASSUME NEW t \in inFlight, NEW success \in BOOLEAN,
               SendReturns(t, success) \/ RetryReturns(t, success)
        PROVE  DeliveryInv'
    BY <1>2, SendReturnsStep, RetryReturnsStep
  <1>3. CASE ProcessRetryQueue
    BY <1>3, ProcessRetryQueueStep
  <1>4. ASSUME NEW i \in DOMAIN retryQueue, BecomeDue(i)
        PROVE  DeliveryInv'
    BY <1>4, BecomeDueStep
  <1>5. ASSUME NEW id \in Ids, NEW type \in {"ack", "nack"}, IncomingAck(id, type)
        PROVE  DeliveryInv'
    BY <1>5, IncomingAckStep
  <1>6. CASE VerifyAck \/ RejectOldAck
    BY <1>6, VerifyAckStep
  <1>7. CASE UpdateDelivered \/ UpdateRefused
    BY <1>7, UpdateDeliveredStep, UpdateRefusedStep
  <1>8. ASSUME NEW m \in armed, AckTimeout(m)
        PROVE  DeliveryInv'
    BY <1>8, AckTimeoutStep
  <1>9. ASSUME NEW id \in Ids, RetryMessage(id) \/ CancelMessage(id)
        PROVE  DeliveryInv'
    BY <1>9, RetryMessageStep, CancelMessageStep
  <1>10. CASE Shutdown
    BY <1>10, ShutdownStep
  <1>11. CASE UNCHANGED vars
    <2>1. ShapeInv'
      BY <1>11 DEF vars, delivery, timers, history, bounds, DeliveryInv, ShapeInv
    <2>2. Quiet
      BY <1>11, SameQueue, SameCounts
      DEF vars, delivery, retry, timers, history, DeliveryInv, Quiet
    <2> QED
      BY <2>1, <2>2, QuietStep
  <1> QED
    BY <1>1, <1>2, <1>3, <1>4, <1>5, <1>6, <1>7, <1>8, <1>9, <1>10, <1>11 DEF Next

(* At most one element, so at most one activity of a kind.                  *)
LEMMA AtMostOne ==
    ASSUME NEW S, \A x, y \in S : x = y
    PROVE  Cardinality(S) \in {0, 1} /\ (Cardinality(S) = 1 => S # {})
  <1>1. CASE S = {}
    BY <1>1, FS_EmptySet
  <1>2. CASE S # {}
    <2>1. PICK x \in S : TRUE
      BY <1>2
    <2>2. S = {x}
      BY <2>1
    <2> QED
      BY <1>2, <2>2, FS_Singleton
  <1> QED
    BY <1>1, <1>2

LEMMA DeliveryOneActivity ==
    ASSUME DeliveryInv
    PROVE  OneActivity
  <1>1. ASSUME NEW m \in Messages
        PROVE  Cardinality({t \in inFlight : t.msg = m})
                 + Cardinality({i \in DOMAIN retryQueue : retryQueue[i].msg = m})
                 + Cardinality(armed \cap {m}) <= 1
    <2> DEFINE A == {t \in inFlight : t.msg = m}
               B == {i \in DOMAIN retryQueue : retryQueue[i].msg = m}
               C == armed \cap {m}
    <2>1. \A x, y \in A : x = y
      BY DEF DeliveryInv, FlightInv, Separate
    <2>2. \A x, y \in B : x = y
      <3>1. QueueInv(retryQueue)
        BY DEF DeliveryInv
      <3>2. /\ B \subseteq 1 .. Len(retryQueue) /\ Len(retryQueue) \in Nat
            /\ DOMAIN retryQueue = 1 .. Len(retryQueue)
        BY <3>1, QueueTypes
      <3>3. \A x, y \in DOMAIN retryQueue : x < y => retryQueue[x].msg # retryQueue[y].msg
        BY <3>1 DEF QueueInv
      <3> QED
        BY <3>2, <3>3
    <2>3. \A x, y \in C : x = y
      OBVIOUS
    <2>4. A # {} => m \in InFlight(inFlight)
      BY DEF InFlight
    <2>5. B # {} => m \in Members(retryQueue)
      BY DEF Members
    <2>6. C # {} => m \in armed
      OBVIOUS
    <2>7. /\ ~ (A # {} /\ B # {}) /\ ~ (A # {} /\ C # {}) /\ ~ (B # {} /\ C # {})
      BY <2>4, <2>5, <2>6 DEF DeliveryInv, FreshInv, Fresh
    <2> HIDE DEF A, B, C
    <2>8. /\ Cardinality(A) \in {0, 1} /\ (Cardinality(A) = 1 => A # {})
          /\ Cardinality(B) \in {0, 1} /\ (Cardinality(B) = 1 => B # {})
          /\ Cardinality(C) \in {0, 1} /\ (Cardinality(C) = 1 => C # {})
      BY <2>1, <2>2, <2>3, AtMostOne
    <2>9. Cardinality(A) + Cardinality(B) + Cardinality(C) <= 1
      BY <2>7, <2>8
    <2> QED
      BY <2>9 DEF A, B, C
  <1> QED
    BY <1>1 DEF OneActivity

LEMMA DeliveryBounded ==
    ASSUME DeliveryInv
    PROVE  TransmissionsBounded
  <1>1. ASSUME NEW m \in Messages
        PROVE  attempts[m] <= 1 + MaxRetries[m] * resets[idOf[m]]
    <2> DEFINE c == retryCount[idOf[m]]
               r == resets[idOf[m]]
               l == 1 + MaxRetries[m] * r
               a == attempts[m]
    <2>1. a \in Nat /\ c \in Nat /\ r \in Nat /\ MaxRetries[m] \in Nat
      BY ConstantTypes DEF DeliveryInv, ShapeInv
    <2>2. l \in Nat /\ 1 <= l
      BY <2>1
    <2>3. Allowed(m, c, r) \in Int /\ Allowed(m, c, r) <= l
      BY <2>1, AllowedGrows
    <2>4. a = 0 \/ a <= Allowed(m, c, r) \/ a + 1 <= Allowed(m, c, r)
      BY <2>1 DEF DeliveryInv, CountInv, Counted
    <2> HIDE DEF a, c, r, l
    <2>5. a <= l
      BY <2>1, <2>2, <2>3, <2>4
    <2> QED
      BY <2>5 DEF a, l, r
  <1> QED
    BY <1>1 DEF TransmissionsBounded

LEMMA DeliveryRemembered ==
    ASSUME DeliveryInv
    PROVE  NothingForgotten
  BY DEF DeliveryInv, MemoryInv, Remembered, NothingForgotten, Members, InFlight

LEMMA DeliveryTypes ==
    ASSUME DeliveryInv
    PROVE  TypeOK
  <1>1. /\ retryQueue \in Seq(QueueEntries)
        /\ \A i, j \in DOMAIN retryQueue :
              /\ retryQueue[i].attempt < MaxRetries[retryQueue[i].msg]
              /\ i < j => Urgency[retryQueue[i].msg] <= Urgency[retryQueue[j].msg]
    BY DEF DeliveryInv, QueueInv
  <1>2. inFlight \subseteq Transmissions /\ processed \in {Idle} \cup 1 .. BatchSize
    BY DEF DeliveryInv, FlightInv, Separate
  <1> QED
    BY <1>1, <1>2 DEF DeliveryInv, ShapeInv, TypeOK

(* Whatever the messages, ids, limits and urgencies: the reliable delivery  *)
(* of every message has one activity, a bounded number of transmissions,    *)
(* and is neither forgotten before the first nor given up after it.         *)
THEOREM DeliverySoundTheorem == Spec => []DeliverySound
  <1>1. Init => DeliveryInv
    BY DeliveryInit
  <1>2. DeliveryInv /\ [Next]_vars => DeliveryInv'
    BY DeliveryNext
  <1>3. DeliveryInv => DeliverySound
    <2>1. ASSUME DeliveryInv
          PROVE  DeadLettersNotTransmitted
      BY <2>1 DEF DeliveryInv, FreshInv, DeadLettersNotTransmitted
    <2> QED
      BY <2>1, DeliveryTypes, DeliveryOneActivity, DeliveryBounded, DeliveryRemembered
      DEF DeliverySound
  <1> QED
    BY <1>1, <1>2, <1>3, PTL DEF Spec
=============================================================================
