------------------------- MODULE MCReliableDelivery -------------------------
(* ReliableDelivery for TLC: a confirmed and a guaranteed message, with    *)
(* ids of their own or, as two transactions of one node, the same id.      *)
EXTENDS ReliableDelivery, TLC

CONSTANTS m1, m2, i1, i2

MCIdMaps == {m1 :> i1 @@ m2 :> i2, m1 :> i1 @@ m2 :> i1}

MCMaxRetries == m1 :> 1 @@ m2 :> 2

MCUrgency == m1 :> 1 @@ m2 :> 0
=============================================================================
