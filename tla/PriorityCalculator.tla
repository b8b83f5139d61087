-------------------------- MODULE PriorityCalculator --------------------------
(* UTXOPriorityCalculator (packages/core/src/priority-calculator.ts): the     *)
(* priority of a message from its fee, its type and the state of the network. *)
(* Levels, weights and scores are fractions in the code and hundredths here.  *)
(* The cache of results, the statistics and user-defined factors are left out.*)
EXTENDS Integers, FiniteSetsExt

(* MessagePriority *)
CRITICAL == 0
HIGH == 1
NORMAL == 2
LOW == 3
Priorities == CRITICAL .. LOW

CONSTANTS
    HighFee, NormalFee,      \* utxoFeePriorityThresholds, satoshi per byte
    EmergencyBypass,         \* thresholds.emergencyBypass
    BlockPriorityBoost,      \* thresholds.blockPriorityBoost > 1
    MerkleProofPriority,     \* thresholds.merkleProofPriority
    Context                  \* UTXONetworkContext, without its emergency mode

ASSUME CalculatorAssumption == MerkleProofPriority \in Priorities

FeeBasedPriority(fee) ==
    IF fee >= HighFee THEN HIGH ELSE IF fee >= NormalFee THEN NORMAL ELSE LOW

(* The five default factors of a transaction and what they weigh, times 1000. *)
FactorSum(fee, emergency) ==
      10 * Min({(100 * fee) \div Context.averageFee, 200})
    + 3 * Max({50, 100 - Context.congestion \div 2})
    + 2 * (IF Context.battery < 20 THEN 80 ELSE 100)
    + 20 * (IF emergency THEN 150 ELSE 100)
    + 1 * (IF Context.completeness < 90 THEN 90 ELSE 100)

WeightSum == 10 + 3 + 2 + 20 + 1

AdjustPriorityByScore(base, sum) ==
    IF sum > 130 * WeightSum THEN Max({CRITICAL, base - 1})
    ELSE IF sum < 70 * WeightSum THEN Min({LOW, base + 1})
    ELSE base

TransactionPriority(fee, emergency) ==
    AdjustPriorityByScore(FeeBasedPriority(fee), FactorSum(fee, emergency))

BlockPriority(index) == IF Context.currentBlockHeight - index > 10 THEN HIGH ELSE CRITICAL

(* An emergency with bypass makes nothing more urgent than HIGH. *)
ContextualPriority(type, priority, emergency) ==
    IF emergency /\ EmergencyBypass /\ type \in {"transaction", "block"} THEN Max({HIGH, priority})
    ELSE IF type = "block" /\ BlockPriorityBoost THEN CRITICAL
    ELSE IF type = "sync" THEN MerkleProofPriority
    ELSE priority

CalculatePriority(m, emergency) ==
    ContextualPriority(m.type,
        CASE m.type = "transaction" -> TransactionPriority(m.feePerByte, emergency)
          [] m.type = "block"       -> BlockPriority(m.blockHeight)
          [] m.type = "sync"        -> HIGH
          [] m.type = "discovery"   -> NORMAL
          [] OTHER                  -> LOW,
        emergency)
=============================================================================
