-------------------------- MODULE MCNodeDiscovery --------------------------
(* NodeDiscovery for TLC: two nodes, one clock ahead of the other.         *)
EXTENDS NodeDiscovery, TLC

CONSTANTS x, y

MCSkew == x :> 0 @@ y :> 1
=============================================================================
