------------------------------ MODULE MCLedger ------------------------------
(* Ledger for TLC: one or two nodes, two addresses, one genesis output of  *)
(* one coin for each, payments of half a coin or of a whole one less the   *)
(* fee, and a reward of a tenth.                                           *)
EXTENDS Ledger, TLC

CONSTANTS n1, n2, alice, bob

MCGenesis ==
    {[txId |-> <<"genesis", 0>>, outputIndex |-> 0, value |-> 100000, to |-> alice],
     [txId |-> <<"genesis", 1>>, outputIndex |-> 0, value |-> 60000, to |-> alice]}

MCAmounts == {50000, 99750}

MCAmountsOne == {50000}

MCGaps == {5}

MCRetargetGaps == {0, 40}

Symmetry == Permutations({n1, n2})
=============================================================================
