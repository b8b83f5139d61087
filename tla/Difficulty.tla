----------------------------- MODULE Difficulty -----------------------------
(***************************************************************************)
(* The retargeting algorithm of DifficultyManager (difficulty.ts), over    *)
(* exact rationals.  Block timestamps are integers in one unit and         *)
(* TargetBlockTime is in the same unit, so the code's division by 1000 is  *)
(* not needed.                                                             *)
(***************************************************************************)
EXTENDS Integers, Sequences

CONSTANTS TargetBlockTime,     \* target time between two blocks
          AdjustmentPeriod,    \* blocks between two adjustments
          MaxDifficultyRatio,  \* largest change of one adjustment
          MinDifficulty, MaxDifficulty

ASSUME DifficultyAssumption ==
    /\ TargetBlockTime \in Nat \ {0}
    /\ AdjustmentPeriod \in Nat \ {0}
    /\ MaxDifficultyRatio \in Nat \ {0}
    /\ MinDifficulty \in Nat \ {0}
    /\ MaxDifficulty \in Nat \ {0}
    /\ MinDifficulty <= MaxDifficulty

(* A quotient num/den with den >= 0; 1/0 stands for JavaScript's Infinity. *)
Less(p, q) == p.num * q.den < q.num * p.den

Whole(n) == [num |-> n, den |-> 1]

Floor(q) == q.num \div q.den

ShouldAdjustDifficulty(height) ==
    height > 0 /\ height % AdjustmentPeriod = 0

(* Fault: no upper bound.                                                  *)
AbsoluteBoundsNoMaximum(q) ==
    IF Less(q, Whole(MinDifficulty)) THEN Whole(MinDifficulty) ELSE q

(* The absolute bounds, applied first.                                     *)
AbsoluteBounds(q) ==
    IF Less(q, Whole(MinDifficulty)) THEN Whole(MinDifficulty)
    ELSE IF Less(Whole(MaxDifficulty), q) THEN Whole(MaxDifficulty)
    ELSE q

(* Fault: the increase is not bounded by the ratio.                        *)
DifficultyBoundsNoIncrease(q, current) ==
    LET bounded     == AbsoluteBounds(q)
        maxDecrease == [num |-> current, den |-> MaxDifficultyRatio]
    IN  IF Less(bounded, maxDecrease) /\ Less(Whole(MinDifficulty), bounded)
        THEN maxDecrease ELSE bounded

(* validateDifficultyBounds: absolute bounds, then the ratio bounds, the   *)
(* lower one only while the value is above the minimum.                    *)
DifficultyBounds(q, current) ==
    LET bounded     == AbsoluteBounds(q)
        maxIncrease == Whole(current * MaxDifficultyRatio)
        maxDecrease == [num |-> current, den |-> MaxDifficultyRatio]
    IN  IF Less(maxIncrease, bounded) THEN maxIncrease
        ELSE IF /\ Less(bounded, maxDecrease)
                /\ Less(Whole(MinDifficulty), bounded)
             THEN maxDecrease
             ELSE bounded

(* current * targetTimespan / actualTimespan; a clock that went backwards  *)
(* gives a negative quotient.                                              *)
Retarget(current, actualTimespan, intervals) ==
    LET numerator == current * TargetBlockTime * intervals
    IN  IF actualTimespan > 0
        THEN [num |-> numerator, den |-> actualTimespan]
        ELSE IF actualTimespan = 0
             THEN [num |-> 1, den |-> 0]
             ELSE [num |-> -numerator, den |-> -actualTimespan]

(* calculateNextDifficulty over the timestamps of the whole chain.         *)
CalculateNextDifficulty(current, times) ==
    LET n     == Len(times)
        count == IF n < AdjustmentPeriod THEN n ELSE AdjustmentPeriod
    IN  IF count < 2
        THEN current
        ELSE Floor(DifficultyBounds(
                     Retarget(current, times[n] - times[n - count + 1],
                              count - 1),
                     current))

(* validateDifficultyTransition.                                           *)
ValidTransition(old, new) ==
    /\ new \in MinDifficulty .. MaxDifficulty
    /\ new <= old * MaxDifficultyRatio
    /\ new * MaxDifficultyRatio >= old

=============================================================================
