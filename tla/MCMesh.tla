------------------------------- MODULE MCMesh -------------------------------
(* Routing and FloodControl for TLC.  Route manager, flood manager and loop *)
(* prevention share nothing, so that a behaviour exercises one of them and  *)
(* the others stay as they began.                                           *)
EXTENDS Routing, FloodControl, TLC

VARIABLE part

CONSTANTS a, b, c

MCNodeType == b :> "full" @@ c :> "light"

Relayed(r, by) == [r EXCEPT !.path = Append(@, by), !.hopCount = @ + 1]

MCRequests == {RouteRequest(b, a, 1), RouteRequest(c, b, 1)}

MCReplies ==
    {RouteReply(RouteRequest(a, b, 1), b, now, 20) : now \in {1, SequenceModulus + 2}}
    \cup {RouteReply(Relayed(RouteRequest(a, b, 1), c), b, 1, 20)}

MCRouteErrors == {RouteError(c, {b, c}), RouteError(a, {b})}

MCHellos == {Hello(c, 1)}

Flood(o, s, ttl) == [id |-> s, originator |-> o, sequenceNumber |-> s, ttl |-> ttl, signed |-> TRUE]

MCFloods == {Flood(b, 1, 2), Flood(b, 2, 1), Flood(c, 1, 2)}

Init == part \in {"routing", "flood", "sequence"} /\ RoutingInit /\ FloodInit

Next ==
    /\ UNCHANGED part
    /\ \/ part = "routing" /\ RoutingNext /\ UNCHANGED floodVars
       \/ part = "flood" /\ FloodCacheNext /\ UNCHANGED routingVars
       \/ part = "sequence" /\ SequenceNext /\ UNCHANGED routingVars
       \/ part # "routing" /\ FloodTimerNext /\ UNCHANGED routingVars

Spec == Init /\ [][Next]_<<part, routingVars, floodVars>> /\ RoutingFairness
=============================================================================
