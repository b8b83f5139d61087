----------------------------- MODULE PeerManager -----------------------------
(* PeerManager (packages/core/src/peer-manager.ts) with PeerDiscoveryService, *)
(* PeerScoringService and ConnectionPoolManager on top of the ban list: which *)
(* peers a node knows, whom it connects to, and whom it leaves.               *)
(*                                                                           *)
(* createConnection is a placeholder in the source; it stands here for an     *)
(* operation that takes time and may fail, which is what its callers expect.  *)
(* A connection is known by a number. Scores are counted in hundredths.       *)
(* lastActivity is set once, when a connection is made: any connection may be *)
(* found stale. Messages received are never counted, so that the share of     *)
(* valid ones is always 1; the slow decay of scores is left out.              *)
EXTENDS BanList, FiniteSetsExt

CONSTANTS
    Info,                \* peer -> [type, latency, signal, propagated, isOnline]
    MaxConnections, MaxOutbound, MaxDiscoveryPeers,
    MaxAttempts          \* bound: connections in existence at once

VARIABLES
    discoveredPeers,     \* of the discovery service
    pool                 \* peers, connections, attempts and replacements, see NoPool

peerVars == <<banList, discoveredPeers, pool>>

(* peers: the records of known peers; connections: peer -> [id, state];       *)
(* attempts: establishConnection calls that wait; replacing: connectToPeer    *)
(* calls that wait for the connection they replace to be closed.              *)
NoPool == [peers |-> <<>>, connections |-> <<>>, attempts |-> {}, replacing |-> <<>>]

(***************************************************************************)
(* Scores                                                                  *)
(***************************************************************************)

LatencyScore(latency) ==
    CASE latency <= 50 -> 100 [] latency <= 100 -> 80 [] latency <= 200 -> 60
      [] latency <= 500 -> 40 [] latency <= 1000 -> 20 [] OTHER -> 10

(* 0: no signal strength is known, which counts as a perfect signal. *)
SignalQualityScore(rssi) ==
    CASE rssi = 0 -> 100 [] rssi >= -60 -> 100 [] rssi >= -70 -> 80
      [] rssi >= -80 -> 60 [] rssi >= -90 -> 40 [] rssi >= -100 -> 20 [] OTHER -> 10

(* In tenths. The uptime is 0 in the instant a peer is added and 1 later.     *)
ReliabilityScore(tried, new) == (IF new THEN 0 ELSE 400) + (IF tried THEN 240 ELSE 300) + 285

PerformanceScore(p) == 4 * LatencyScore(Info[p].latency) + 240 + 3 * SignalQualityScore(Info[p].signal)

ExpectedPropagation(p) == IF Info[p].type = "full" THEN 100 ELSE 20

BehaviorScore(p) ==
    400 + 3 * Min({100, (100 * Info[p].propagated) \div ExpectedPropagation(p)}) + 285

(* calculatePeerScore with the default weights 0.4, 0.3 and 0.3. *)
PeerScore(p, tried, new) ==
    Min({10000, 4 * ReliabilityScore(tried, new) + 3 * PerformanceScore(p) + 3 * BehaviorScore(p)})

(***************************************************************************)
(* Connections                                                             *)
(***************************************************************************)

Known(s, p) == p \in DOMAIN s.peers

IsConnected(s, p) == p \in DOMAIN s.connections /\ s.connections[p].state = "connected"

(* updatePeerConnectionState, isOnline only: nothing reads the state itself. *)
WithOnline(s, p, online) ==
    IF Known(s, p) THEN [s EXCEPT !.peers[p].isOnline = online] ELSE s

Tried(s, p) == IF Known(s, p) THEN [s EXCEPT !.peers[p].tried = TRUE] ELSE s

(* The scores of the scoring service survive the peer; 0 is its minimum. *)
ScoreOf(s, p) == IF Known(s, p) THEN s.peers[p].score ELSE 0

PoolDisconnect(s, p) ==
    IF p \notin DOMAIN s.connections THEN s
    ELSE WithOnline([s EXCEPT !.connections = Without(@, p)], p, FALSE)

UnusedId(s) ==
    Min((1 .. MaxAttempts + 1) \ ({s.connections[p].id : p \in DOMAIN s.connections}
                                   \cup {a.id : a \in s.attempts}))

(* establishConnection up to its await. *)
Establish(s, p) ==
    [s EXCEPT !.connections = With(@, p, [id |-> UnusedId(s), state |-> "connecting"]),
              !.attempts = @ \cup {[peer |-> p, id |-> UnusedId(s)]}]

LowestPriority(s) ==
    CHOOSE p \in DOMAIN s.connections : \A q \in DOMAIN s.connections : ScoreOf(s, p) <= ScoreOf(s, q)

(* connectToPeer up to its first await: at the limit the new peer waits for   *)
(* the connection it replaces, or is refused.                                 *)
PoolConnect(s, p) ==
    IF p \in DOMAIN s.connections THEN s
    ELSE IF Cardinality(DOMAIN s.connections) < MaxConnections THEN Establish(s, p)
    ELSE IF ScoreOf(s, p) > ScoreOf(s, LowestPriority(s)) + 1000
    THEN [PoolDisconnect(s, LowestPriority(s)) EXCEPT !.replacing = Append(@, p)]
    ELSE s

ConnectedLight(s) == {p \in DOMAIN s.peers : IsConnected(s, p) /\ Info[p].type = "light"}

ShouldAutoConnect(s, p) ==
    /\ ~s.peers[p].isBanned
    /\ s.peers[p].score >= 3000
    /\ Cardinality(DOMAIN s.connections) < MaxOutbound
    /\ Info[p].type = "full" \/ Cardinality(ConnectedLight(s)) < 5

(* createEnhancedPeer: whoever is added again begins anew. *)
NewPeer(p) ==
    [isBanned |-> FALSE, isOnline |-> Info[p].isOnline, tried |-> FALSE, score |-> PeerScore(p, FALSE, TRUE)]

Added(s, p) ==
    LET known == [s EXCEPT !.peers = With(@, p, NewPeer(p))]
    IN IF ShouldAutoConnect(known, p) THEN PoolConnect(known, p) ELSE known

(* addPeer: refused if the peer or its address is banned. *)
AddPeer(p) ==
    /\ banList' = Checked(banList, p)
    /\ pool' = IF IsBanned(banList, p) THEN pool ELSE Added(pool, p)
    /\ UNCHANGED discoveredPeers

RemovePeer(p) ==
    /\ Known(pool, p)
    /\ pool' = LET s == IF IsConnected(pool, p) THEN PoolDisconnect(pool, p) ELSE pool
               IN [s EXCEPT !.peers = Without(@, p)]
    /\ UNCHANGED <<banList, discoveredPeers>>

ConnectToPeer(p) ==
    /\ Known(pool, p)
    /\ pool' = PoolConnect(pool, p)
    /\ UNCHANGED <<banList, discoveredPeers>>

DisconnectFromPeer(p) ==
    /\ pool' = PoolDisconnect(pool, p)
    /\ UNCHANGED <<banList, discoveredPeers>>

(* The replaced connection is closed; the number of connections is not looked *)
(* at again.                                                                  *)
Replaced ==
    /\ pool.replacing # <<>>
    /\ pool' = Establish([pool EXCEPT !.replacing = Tail(@)], Head(pool.replacing))
    /\ UNCHANGED <<banList, discoveredPeers>>

(* The connection of an attempt is made, whether or not it is still wanted. *)
Connected(a) ==
    /\ pool' = LET s == [pool EXCEPT !.attempts = @ \ {a},
                                     !.connections = [p \in DOMAIN @ |->
                                         IF @[p].id = a.id THEN [@[p] EXCEPT !.state = "connected"] ELSE @[p]]]
               IN Tried(WithOnline(s, a.peer, TRUE), a.peer)
    /\ UNCHANGED <<banList, discoveredPeers>>

(* Fault: the connection stays in the pool as one that is being made. *)
FailedKept(s, a) == Tried(WithOnline([s EXCEPT !.attempts = @ \ {a}], a.peer, FALSE), a.peer)

(* It fails: whatever connection the peer has is deleted. *)
Failed(s, a) ==
    Tried(WithOnline([s EXCEPT !.attempts = @ \ {a}, !.connections = Without(@, a.peer)], a.peer, FALSE), a.peer)

ConnectionFailed(a) ==
    /\ pool' = Failed(pool, a)
    /\ banList' = IF Known(pool, a.peer)
                  THEN RecordMisbehavior(banList, a.peer, "connection_failure") ELSE banList
    /\ UNCHANGED discoveredPeers

(* maintainConnections *)
DropStale(p) ==
    /\ IsConnected(pool, p)
    /\ DisconnectFromPeer(p)

(***************************************************************************)
(* Bans and misbehaviour                                                   *)
(***************************************************************************)

(* A ban asked for has no end. Only it marks the record of the peer. *)
Ban(p) ==
    /\ Known(pool, p)
    /\ banList' = BanPeer(banList, p, 0)
    /\ pool' = [pool EXCEPT !.peers[p].isBanned = TRUE]
    /\ UNCHANGED discoveredPeers

Unban(p) ==
    /\ p \in DOMAIN banList.bannedPeers
    /\ banList' = UnbanPeer(banList, p)
    /\ pool' = IF Known(pool, p) THEN [pool EXCEPT !.peers[p].isBanned = FALSE] ELSE pool
    /\ UNCHANGED discoveredPeers

Misbehaves(p, type) ==
    /\ Known(pool, p)
    /\ banList' = RecordMisbehavior(banList, p, type)
    /\ UNCHANGED <<discoveredPeers, pool>>

MonitorBans ==
    /\ banList' = CheckExpiredBans(banList)
    /\ UNCHANGED <<discoveredPeers, pool>>

(***************************************************************************)
(* The timers                                                              *)
(***************************************************************************)

(* addDiscoveredPeer and the peer:discovered event. *)
Discover(p) ==
    /\ p \notin discoveredPeers /\ Cardinality(discoveredPeers) < MaxDiscoveryPeers
    /\ discoveredPeers' = discoveredPeers \cup {p}
    /\ banList' = Checked(banList, p)
    /\ pool' = IF IsBanned(banList, p) THEN pool ELSE Added(pool, p)

(* Fault: banned peers are as good as any. *)
BestPeersAny(s) == {p \in DOMAIN s.peers : s.peers[p].isOnline}

(* getBestPeers of no more peers than there may be connections. *)
BestPeers(s) ==
    LET able == {p \in DOMAIN s.peers : ~s.peers[p].isBanned /\ s.peers[p].isOnline}
        better(p) == {q \in able : s.peers[q].score > s.peers[p].score}
    IN {p \in able : Cardinality(better(p)) < MaxConnections}

(* optimizeConnections: the best peers are determined before anything changes. *)
OptimizeConnections ==
    /\ LET best == BestPeers(pool)
           left == FoldSet(LAMBDA p, s : PoolDisconnect(s, p), pool,
                           {p \in DOMAIN pool.peers : IsConnected(pool, p)} \ best)
       IN pool' = FoldSet(LAMBDA p, s : IF IsConnected(s, p) THEN s ELSE PoolConnect(s, p), left, best)
    /\ UNCHANGED <<banList, discoveredPeers>>

(* optimizePeerSet *)
ForgetStale(p) ==
    /\ Known(pool, p) /\ ~pool.peers[p].isOnline
    /\ RemovePeer(p)

Rescored(s) ==
    [s EXCEPT !.peers = [p \in DOMAIN s.peers |->
        [s.peers[p] EXCEPT !.score = PeerScore(p, s.peers[p].tried, FALSE)]]]

(* The peer maintenance: scores anew, and discovered peers added again. *)
MaintainPeers ==
    LET again == {p \in discoveredPeers : ~Known(pool, p)}
        free == {p \in again : ~IsBanned(banList, p)}
    IN /\ pool' = FoldSet(LAMBDA p, s : Added(s, p), Rescored(pool), free)
       /\ banList' = FoldSet(LAMBDA p, b : Checked(b, p), banList, again)
       /\ UNCHANGED discoveredPeers

PeerTick ==
    /\ banList' = BanListAged(banList)
    /\ UNCHANGED <<discoveredPeers, pool>>

PeerInit == banList = EmptyBanList /\ discoveredPeers = {} /\ pool = NoPool

MaySend == Cardinality(pool.attempts) + Len(pool.replacing) < MaxAttempts

CallsOf(p) ==
    \/ MaySend /\ (AddPeer(p) \/ ConnectToPeer(p) \/ Discover(p))
    \/ RemovePeer(p) \/ DisconnectFromPeer(p) \/ Ban(p) \/ Unban(p)
    \/ \E t \in MisbehaviorTypes : Misbehaves(p, t)

Timers ==
    \/ \E p \in Peers : DropStale(p) \/ ForgetStale(p)
    \/ MaySend /\ (OptimizeConnections \/ MaintainPeers)
    \/ MonitorBans \/ PeerTick

Answers == Replaced \/ \E a \in pool.attempts : Connected(a) \/ ConnectionFailed(a)

PeerNext == (\E p \in Peers : CallsOf(p)) \/ Timers \/ Answers

PeerFairness ==
    /\ WF_peerVars(PeerTick)
    /\ WF_peerVars(MonitorBans)
    /\ WF_peerVars(Answers)
    /\ SF_peerVars(MaySend /\ OptimizeConnections)

PeerSpec == PeerInit /\ [][PeerNext]_peerVars /\ PeerFairness

(* Whoever is banned by hand is left: the optimization closes its connection, *)
(* also one that was being made when the ban came.                            *)
BannedPeersLeft ==
    \A p \in Peers :
        (Known(pool, p) /\ pool.peers[p].isBanned)
            ~> (~Known(pool, p) \/ ~pool.peers[p].isBanned \/ ~IsConnected(pool, p))

(* Bans take hold, and those that are not for good end.                       *)
BansSettled == BannedPeersLeft /\ TemporaryBansEnd

(* A connection that is being made has its attempt, so that no peer waits for *)
(* ever in the pool, whatever is closed, replaced or fails meanwhile.         *)
ConnectingIsAttempted ==
    \A p \in DOMAIN pool.connections :
        pool.connections[p].state = "connecting" =>
            \E a \in pool.attempts : a.peer = p /\ a.id = pool.connections[p].id

(* No peer is left over in a table: neither as banned under one of its two    *)
(* names only, nor as connecting with nobody at it.                           *)
PeersSound == BanListsAgree /\ ConnectingIsAttempted
=============================================================================
