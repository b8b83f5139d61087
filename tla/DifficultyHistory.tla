-------------------------- MODULE DifficultyHistory --------------------------
(***************************************************************************)
(* One chain growing block by block with arbitrary block times, and the    *)
(* difficulty the blockchain derives from it: the caller's view of         *)
(* difficulty.ts (minePendingUTXOTransactions, blockchain.ts:310-325).     *)
(***************************************************************************)
EXTENDS Difficulty, SequencesExt

CONSTANTS Gaps,           \* possible times between two blocks
          InitialRange,   \* difficulties a chain may start from
          MaxHeight       \* bound: height of the chain

ASSUME HistoryAssumption ==
    /\ Gaps \subseteq Int
    /\ InitialRange \subseteq MinDifficulty .. MaxDifficulty
    /\ MaxHeight \in Nat

VARIABLES current,   \* difficulty
          times      \* timestamps of the blocks, genesis first

vars == <<current, times>>

Init == current \in InitialRange /\ times = <<0>>

(* The height of the block about to be mined is the length of the chain.   *)
MineBlock(gap) ==
    /\ Len(times) <= MaxHeight
    /\ current' = IF ShouldAdjustDifficulty(Len(times))
                  THEN CalculateNextDifficulty(current, times)
                  ELSE current
    /\ times' = Append(times, Last(times) + gap)

Next == \E gap \in Gaps : MineBlock(gap)

Spec == Init /\ [][Next]_vars

-----------------------------------------------------------------------------
(* The difficulty never leaves the configured range, whatever the block    *)
(* timestamps, equal or decreasing ones included: mineBlock would not      *)
(* terminate on a difficulty above the length of a hash, and validateBlock *)
(* refuses one below 1.                                                    *)
DifficultyInRange == current \in MinDifficulty .. MaxDifficulty

(* The period the next adjustment looks at, and its length in time.        *)
Period ==
    LET n == Len(times)
        count == IF n < AdjustmentPeriod THEN n ELSE AdjustmentPeriod
    IN  SubSeq(times, n - count + 1, n)

Elapsed(period) == period[Len(period)] - period[1]

(* Slower blocks never make the next block harder: delaying the last block *)
(* of a period does not raise the result.                                  *)
SlowerNeverHarder ==
    \A delay \in 1 .. 3 * TargetBlockTime :
        Len(Period) > 1 /\ Elapsed(Period) >= 0 =>
            CalculateNextDifficulty(current,
                [times EXCEPT ![Len(times)] = @ + delay])
              <= CalculateNextDifficulty(current, times)

(* A period exactly on target leaves the difficulty alone.                 *)
OnTargetIsStable ==
    Len(Period) > 1 /\ Elapsed(Period) = TargetBlockTime * (Len(Period) - 1)
        => CalculateNextDifficulty(current, times) = current

(* The algorithm follows the block time: monotone, and still on target.    *)
FollowsBlockTime == SlowerNeverHarder /\ OnTargetIsStable

(* "Bitcoin-style algorithm with 10-block adjustment periods and 4x max    *)
(* change bounds" (README.md:215): a step that validateDifficultyTransition*)
(* would refuse is a decrease, and either ends at the minimum, where the   *)
(* ratio is not applied any more, or passes the ratio only by rounding;    *)
(* within these bounds the algorithm follows the block time.               *)
RefusedOnlyAtEdges ==
    /\ []FollowsBlockTime
    /\ [][~ValidTransition(current, current') =>
             /\ current' < current
             /\ \/ current' = MinDifficulty
                \/ (current' + 1) * MaxDifficultyRatio > current]_vars
=============================================================================
