---------------------------- MODULE MCChainStore ----------------------------
(* ChainStore for TLC: two genesis outputs, an adjustment every second     *)
(* block.                                                                  *)
EXTENDS ChainStore

MCGenesisOutputs == {<<"genesis", 0>>, <<"genesis", 1>>}

Mode(does) ==
    [mines |-> "mines" \in does, follows |-> "follows" \in does,
     saves |-> "saves" \in does, rebuilds |-> "rebuilds" \in does,
     writesFail |-> "writesFail" \in does]

(* A miner, a follower, and a node that does both on a failing disk.       *)
MCModes ==
    {Mode({"mines", "saves"}), Mode({"follows", "saves", "rebuilds"}),
     Mode({"mines", "follows", "saves", "writesFail"})}
=============================================================================
