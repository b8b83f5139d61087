------------------------------ MODULE MCServices ------------------------------
(* The services of a node that do not touch each other, for TLC: whom it      *)
(* connects to, whom it bans, how it puts fragments together, how it asks for *)
(* those that are missing, and the clients of its server. A behaviour runs    *)
(* one part, with the others at rest.                                         *)
EXTENDS PeerManager, Fragmentation, Retransmission, HttpServer, TLC

CONSTANTS p1, p2, tx, block, proof, transfer

VARIABLE part

serviceVars == <<peerVars, vars, retransmissionVars, serverVars, part>>

(***************************************************************************)
(* Peers: a full node worth connecting to and a light node that is not     *)
(***************************************************************************)

MCPeers == {p1, p2}

MCAddressOf == [p \in MCPeers |-> IF p = p1 THEN "a1" ELSE "a2"]

MCTypes == {"connection_failure", "spam"}

MCThreshold == [t \in MCTypes |-> IF t = "spam" THEN 2 ELSE 1]

MCWindow == [t \in MCTypes |-> 1]

MCInfo ==
    [p \in MCPeers |->
        IF p = p1 THEN [type |-> "full", latency |-> 40, signal |-> -60, propagated |-> 100, isOnline |-> TRUE]
        ELSE [type |-> "light", latency |-> 1500, signal |-> -110, propagated |-> 0, isOnline |-> TRUE]]

(* The pool of connections, with bans by hand of one peer. *)
PoolNext ==
    \/ \E p \in Peers :
           \/ MaySend /\ (AddPeer(p) \/ ConnectToPeer(p))
           \/ RemovePeer(p) \/ DisconnectFromPeer(p) \/ DropStale(p) \/ ForgetStale(p)
    \/ Ban(p1) \/ Unban(p1)
    \/ MaySend /\ OptimizeConnections
    \/ Answers
    \/ PeerTick \/ MonitorBans

(* The bans of a peer that is discovered, added and never connected to. *)
BanNext ==
    \/ Discover(p2) \/ AddPeer(p2) \/ MaintainPeers
    \/ Ban(p2) \/ Unban(p2)
    \/ \E t \in MisbehaviorTypes : Misbehaves(p2, t)
    \/ PeerTick \/ MonitorBans

(***************************************************************************)
(* Fragments: a transaction of three, a block of two and a proof of two,   *)
(* one of whose checksums has its highest bit set                          *)
(***************************************************************************)

MCKind == tx :> "transaction" @@ block :> "block" @@ proof :> "proof"

MCLength == tx :> 400 @@ block :> 394 @@ proof :> 198

MCChecksum == tx :> <<2, 3, 4>> @@ block :> <<5, 6>> @@ proof :> <<7, 9>>

(***************************************************************************)
(* Retransmission: a message of two fragments, on a network that loses many *)
(***************************************************************************)

MCFragmentsOf == transfer :> 2

MCNetworkConfigs == {[maxAttempts |-> 1, timeout |-> 1], [maxAttempts |-> 2, timeout |-> 2]}

(***************************************************************************)
(* All together                                                            *)
(***************************************************************************)

ServicesInit ==
    /\ part \in {"pool", "bans", "fragments", "retransmission", "server"}
    /\ PeerInit
    /\ Init
    /\ RetransmissionInit
    /\ ServerInit
    /\ part # "retransmission" => ~persistence /\ config = [maxAttempts |-> 1, timeout |-> 1]

PeersStep == UNCHANGED <<vars, retransmissionVars, serverVars, part>>

FragmentsStep == UNCHANGED <<peerVars, retransmissionVars, serverVars, part>>

RetransmissionStep == UNCHANGED <<peerVars, vars, serverVars, part>>

ServicesNext ==
    \/ part = "pool" /\ PoolNext /\ PeersStep
    \/ part = "bans" /\ BanNext /\ PeersStep
    \/ part = "fragments" /\ Next /\ FragmentsStep
    \/ part = "retransmission" /\ RetransmissionNext /\ RetransmissionStep
    \/ part = "server" /\ ServerNext /\ UNCHANGED <<peerVars, vars, retransmissionVars, part>>

(* Time and the first timer of each part. *)
TimePasses ==
    \/ part \in {"pool", "bans"} /\ PeerTick /\ PeersStep
    \/ part = "fragments" /\ Tick /\ FragmentsStep
    \/ part = "retransmission" /\ RetransmissionTick /\ RetransmissionStep

TimerFires ==
    \/ part \in {"pool", "bans"} /\ MonitorBans /\ PeersStep
    \/ part = "fragments" /\ PerformCleanup /\ FragmentsStep
    \/ part = "retransmission" /\ PerformEnhancedCleanup /\ RetransmissionStep

(* The fairness of PeerManager, Fragmentation and Retransmission: no          *)
(* behaviour changes its part, so that what concerns different parts is one   *)
(* condition.                                                                 *)
ServicesFairness ==
    /\ WF_serviceVars(TimePasses)
    /\ WF_serviceVars(TimerFires)
    /\ WF_serviceVars(\/ part = "pool" /\ Answers /\ PeersStep
                      \/ part = "retransmission" /\ ProcessRetransmissionQueue /\ RetransmissionStep)
    /\ WF_serviceVars(part = "retransmission" /\ SessionsPersisted /\ RetransmissionStep)
    /\ SF_serviceVars(part = "pool" /\ MaySend /\ OptimizeConnections /\ PeersStep)

ServicesSpec == ServicesInit /\ [][ServicesNext]_serviceVars /\ ServicesFairness

(* Neither reassembler keeps a session for ever, whatever is lost, repeated or *)
(* refused (cleanup of both, fragmentation.ts:398 and 994).                    *)
SessionsForgotten == SessionsEnd /\ EverythingForgotten
=============================================================================
