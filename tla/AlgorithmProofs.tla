--------------------------- MODULE AlgorithmProofs ---------------------------
(***************************************************************************)
(* Theorems about four algorithms, over the histories they are used in:    *)
(* the difficulty stays in its range, follows the block time and keeps to  *)
(* the ratio for all parameters and block times (DifficultyHistory), what  *)
(* a wallet pays is sound for all amounts and all coins it may have        *)
(* received (Wallet), the Merkle proofs of a block of any length convince  *)
(* of its transactions and of nothing else (Merkle), and what is           *)
(* compressed comes back, of any length, whatever the dictionaries are     *)
(* made of and whatever becomes of them (CompressionEngines, Compression). *)
(***************************************************************************)
EXTENDS MCAlgorithms, LedgerFacts

TimesInv == times \in Seq(Int) /\ times # <<>>

LEMMA DifficultyStart ==
    Init => TimesInv /\ DifficultyInRange
  BY HistoryAssumption DEF Init, TimesInv, DifficultyInRange

LEMMA DifficultyStep ==
    TimesInv /\ DifficultyInRange /\ [Next]_vars => (TimesInv /\ DifficultyInRange)'
  <1> SUFFICES ASSUME TimesInv, DifficultyInRange, [Next]_vars
               PROVE  TimesInv' /\ DifficultyInRange'
    OBVIOUS
  <1>1. ASSUME NEW gap \in Gaps, MineBlock(gap)
        PROVE  TimesInv' /\ DifficultyInRange'
    <2>1. Last(times) + gap \in Int
      BY HistoryAssumption DEF TimesInv, Last
    <2>2. TimesInv'
      BY <1>1, <2>1 DEF MineBlock, TimesInv
    <2>3. CalculateNextDifficulty(current, times) \in MinDifficulty .. MaxDifficulty
      BY NextInRange DEF TimesInv, DifficultyInRange, AllowedRange
    <2> QED
      BY <1>1, <2>2, <2>3 DEF MineBlock, DifficultyInRange
  <1>2. CASE UNCHANGED vars
    BY <1>2 DEF vars, TimesInv, DifficultyInRange
  <1> QED
    BY <1>1, <1>2 DEF Next

(* The difficulty of a chain never leaves the configured range             *)
(* (validateDifficultyBounds, difficulty.ts:141-170), also when block      *)
(* times repeat or run backwards, which nothing in block validation        *)
(* excludes.                                                               *)
THEOREM DifficultyInRangeTheorem == Spec => []DifficultyInRange
  BY DifficultyStart, DifficultyStep, PTL DEF Spec

-----------------------------------------------------------------------------
(* What the retargeting follows.  A difficulty is compared by the whole    *)
(* numbers it reaches, which needs no division.                            *)

AtLeast(q, z) == z * q.den <= q.num

LEMMA FloorAtLeast ==
    ASSUME NEW q, q.num \in Int, q.den \in Nat \ {0}, NEW z \in Int
    PROVE  z <= Floor(q) <=> AtLeast(q, z)
  <1>1. PICK n \in Int, d \in Nat \ {0} : n = q.num /\ d = q.den
    OBVIOUS
  <1>2. PICK f : f = n \div d
    OBVIOUS
  <1>3. f \in Int /\ f * d <= n /\ n < f * d + d
    BY <1>2, DivisionBounds
  <1>4. ASSUME z <= f
        PROVE  z * d <= n
    <2>1. z * d <= f * d
      BY <1>3, <1>4, ProductMonotone
    <2> QED
      BY <1>3, <2>1
  <1>5. ASSUME f + 1 <= z
        PROVE  n < z * d
    <2>1. (f + 1) * d <= z * d
      BY <1>3, <1>5, ProductMonotone
    <2>2. (f + 1) * d = f * d + d
      BY <1>3
    <2> QED
      BY <1>3, <2>1, <2>2
  <1>6. z <= f <=> z * d <= n
    BY <1>3, <1>4, <1>5
  <1> QED
    BY <1>1, <1>2, <1>6 DEF Floor, AtLeast

LEMMA FactorsCancel ==
    ASSUME NEW a \in Int, NEW b \in Int, NEW d \in Nat \ {0}
    PROVE  a * d <= b * d <=> a <= b
  <1>1. ASSUME b + 1 <= a
        PROVE  b * d < a * d
    <2>1. (b + 1) * d <= a * d
      BY <1>1, ProductMonotone
    <2>2. (b + 1) * d = b * d + d
      OBVIOUS
    <2> QED
      BY <2>1, <2>2
  <1>2. ASSUME a <= b
        PROVE  a * d <= b * d
    BY <1>2, ProductMonotone
  <1> QED
    BY <1>1, <1>2

(* The absolute bounds: any number up to the minimum, and above it those   *)
(* up to the maximum that the quotient reaches.                            *)
LEMMA AbsoluteBoundsAtLeast ==
    ASSUME NEW q, Retargeted(q), NEW b, b = AbsoluteBounds(q), NEW z \in Int
    PROVE  /\ AtLeast(b, z) <=> z <= MinDifficulty \/ (z <= MaxDifficulty /\ AtLeast(q, z))
           /\ Less(Whole(MinDifficulty), b) <=>
                  MinDifficulty < MaxDifficulty /\ Less(Whole(MinDifficulty), q)
  <1>1. PICK n \in Int, d \in Nat : n = q.num /\ d = q.den
    BY DEF Retargeted
  <1>2. d = 0 => n = 1
    BY <1>1 DEF Retargeted
  <1>3. PICK lo \in Nat \ {0}, hi \in Nat \ {0} : lo = MinDifficulty /\ hi = MaxDifficulty
    BY DifficultyAssumption
  <1>4. lo <= hi
    BY <1>3, DifficultyAssumption
  <1>5. lo * d <= hi * d /\ lo * d \in Nat /\ hi * d \in Nat
    BY <1>4, ProductMonotone
  <1>6. /\ Less(q, Whole(lo)) <=> n < lo * d
        /\ Less(Whole(hi), q) <=> hi * d < n
        /\ Less(Whole(lo), q) <=> lo * d < n
        /\ AtLeast(q, z) <=> z * d <= n
    BY <1>1 DEF Less, Whole, AtLeast
  <1>7. CASE n < lo * d
    <2>1. d \in Nat \ {0}
      <3>1. CASE d = 0
        BY <1>2, <1>7, <3>1
      <3> QED
        BY <3>1
    <2>2. b = Whole(lo)
      BY <1>3, <1>6, <1>7 DEF AbsoluteBounds
    <2>3. AtLeast(b, z) <=> z <= lo
      BY <2>2 DEF AtLeast, Whole
    <2>4. z * d <= n => z <= lo
      BY <1>7, <2>1, FactorsCancel
    <2>5. ~Less(Whole(lo), b)
      BY <2>2 DEF Less, Whole
    <2> QED
      BY <1>3, <1>5, <1>6, <1>7, <2>3, <2>4, <2>5
  <1>8. CASE hi * d < n
    <2>1. b = Whole(hi)
      BY <1>3, <1>5, <1>6, <1>8 DEF AbsoluteBounds
    <2>2. AtLeast(b, z) <=> z <= hi
      BY <2>1 DEF AtLeast, Whole
    <2>3. z <= hi => z * d <= n
      <3>1. z <= hi => z * d <= hi * d
        BY ProductMonotone
      <3> QED
        BY <1>5, <1>8, <3>1
    <2>4. Less(Whole(lo), b) <=> lo < hi
      BY <2>1 DEF Less, Whole
    <2>5. lo * d < n
      BY <1>5, <1>8
    <2> QED
      BY <1>3, <1>4, <1>6, <2>2, <2>3, <2>4, <2>5
  <1>9. CASE ~(n < lo * d) /\ ~(hi * d < n)
    <2>1. b = q
      BY <1>3, <1>6, <1>9 DEF AbsoluteBounds
    <2>2. d \in Nat \ {0}
      <3>1. CASE d = 0
        BY <1>2, <1>9, <3>1
      <3> QED
        BY <3>1
    <2>3. lo * d <= n /\ n <= hi * d
      BY <1>5, <1>9
    <2>4. z * d <= n => z <= hi
      BY <2>2, <2>3, FactorsCancel
    <2>5. z <= lo => z * d <= n
      <3>1. z <= lo => z * d <= lo * d
        BY ProductMonotone
      <3> QED
        BY <1>5, <2>3, <3>1
    <2>6. lo * d < n => lo < hi
      BY <1>4, <1>5, <2>3
    <2> QED
      BY <1>3, <1>6, <2>1, <2>4, <2>5, <2>6
  <1> QED
    BY <1>7, <1>8, <1>9

(* The ratio bounds, applied to what the absolute ones leave.              *)
LEMMA DifficultyBoundsAtLeast ==
    ASSUME NEW q, Retargeted(q), NEW c \in AllowedRange, NEW b, b = AbsoluteBounds(q),
           NEW z \in Int
    PROVE  z <= Floor(DifficultyBounds(q, c)) <=>
               /\ z <= c * MaxDifficultyRatio
               /\ \/ AtLeast(b, z)
                  \/ z * MaxDifficultyRatio <= c /\ Less(Whole(MinDifficulty), b)
  <1>1. PICK n \in Int, d \in Nat \ {0} : n = b.num /\ d = b.den
    BY AbsoluteBoundsInRange DEF InRange
  <1>2. PICK r \in Nat \ {0}, lo \in Nat \ {0} : r = MaxDifficultyRatio /\ lo = MinDifficulty
    BY DifficultyAssumption
  <1>3. c \in Nat \ {0}
    BY DifficultyAssumption DEF AllowedRange
  <1>4. PICK top \in Nat : top = c * r
    BY <1>3
  <1>5. c <= top
    <2>1. 1 * c <= r * c
      BY <1>3, ProductMonotone
    <2> QED
      BY <1>3, <1>4, <2>1
  <1>6. z * r <= c => z <= top
    <2> SUFFICES ASSUME z * r <= c, z >= 1
                 PROVE  z <= top
      BY <1>4
    <2>1. 1 * z <= r * z
      BY ProductMonotone
    <2> QED
      BY <1>3, <1>5, <2>1
  <1>7. /\ Less(Whole(top), b) <=> top * d < n
        /\ Less(b, [num |-> c, den |-> r]) <=> n * r < c * d
        /\ Less(Whole(lo), b) <=> lo * d < n
        /\ AtLeast(b, z) <=> z * d <= n
    BY <1>1 DEF Less, Whole, AtLeast
  <1>8. CASE top * d < n
    <2>1. DifficultyBounds(q, c) = Whole(top)
      BY <1>2, <1>4, <1>7, <1>8 DEF DifficultyBounds
    <2>2. z <= Floor(Whole(top)) <=> z <= top
      BY FloorAtLeast DEF Whole, AtLeast
    <2>3. z <= top => z * d <= n
      <3>1. z <= top => z * d <= top * d
        BY ProductMonotone
      <3> QED
        BY <1>8, <3>1
    <2> QED
      BY <1>2, <1>4, <1>7, <2>1, <2>2, <2>3
  <1>9. CASE ~(top * d < n) /\ n * r < c * d /\ lo * d < n
    <2>1. DifficultyBounds(q, c) = [num |-> c, den |-> r]
      BY <1>2, <1>4, <1>7, <1>9 DEF DifficultyBounds
    <2>2. z <= Floor([num |-> c, den |-> r]) <=> z * r <= c
      BY <1>3, FloorAtLeast DEF AtLeast
    <2>3. z * d <= n => z * r <= c
      <3> SUFFICES ASSUME z * d <= n
                   PROVE  z * r <= c
        OBVIOUS
      <3>1. (z * d) * r <= n * r
        BY ProductMonotone
      <3>2. (z * r) * d <= c * d
        <4>1. (z * d) * r = (z * r) * d
          OBVIOUS
        <4> QED
          BY <1>3, <1>9, <3>1, <4>1
      <3> QED
        BY <1>3, <3>2, FactorsCancel
    <2> QED
      BY <1>2, <1>4, <1>6, <1>7, <1>9, <2>1, <2>2, <2>3
  <1>10. CASE ~(top * d < n) /\ ~(n * r < c * d /\ lo * d < n)
    <2>1. DifficultyBounds(q, c) = b
      BY <1>2, <1>4, <1>7, <1>10 DEF DifficultyBounds
    <2>2. z <= Floor(b) <=> z * d <= n
      BY <1>1, <1>7, FloorAtLeast
    <2>3. z * d <= n => z <= top
      <3> SUFFICES ASSUME z * d <= n
                   PROVE  z <= top
        OBVIOUS
      <3>1. z * d <= top * d
        BY <1>4, <1>10
      <3> QED
        BY <3>1, FactorsCancel
    <2>4. z * r <= c /\ lo * d < n => z * d <= n
      <3> SUFFICES ASSUME z * r <= c, lo * d < n
                   PROVE  z * d <= n
        OBVIOUS
      <3>1. c * d <= n * r
        BY <1>3, <1>10
      <3>2. (z * r) * d <= c * d
        BY <1>3, ProductMonotone
      <3>3. (z * d) * r <= n * r
        <4>1. (z * d) * r = (z * r) * d
          OBVIOUS
        <4> QED
          BY <1>3, <3>1, <3>2, <4>1
      <3> QED
        BY <3>3, FactorsCancel
    <2> QED
      BY <1>2, <1>4, <1>7, <2>1, <2>2, <2>3, <2>4
  <1> QED
    BY <1>8, <1>9, <1>10

(* A quotient that reaches less gives no higher difficulty.                *)
LEMMA BoundsMonotone ==
    ASSUME NEW p, Retargeted(p), NEW q, Retargeted(q), NEW c \in AllowedRange,
           \A z \in Nat : AtLeast(p, z) => AtLeast(q, z),
           Less(Whole(MinDifficulty), p) => Less(Whole(MinDifficulty), q)
    PROVE  Floor(DifficultyBounds(p, c)) <= Floor(DifficultyBounds(q, c))
  <1>1. PICK z : z = Floor(DifficultyBounds(p, c))
    OBVIOUS
  <1>2. z \in AllowedRange
    BY <1>1, DifficultyBoundsInRange, FloorInRange
  <1>3. z \in Nat /\ z \in Int /\ z <= z
    BY <1>2, DifficultyAssumption DEF AllowedRange
  <1>4. PICK a, b : a = AbsoluteBounds(p) /\ b = AbsoluteBounds(q)
    OBVIOUS
  <1>5. /\ z <= c * MaxDifficultyRatio
        /\ \/ AtLeast(a, z)
           \/ z * MaxDifficultyRatio <= c /\ Less(Whole(MinDifficulty), a)
    BY <1>1, <1>3, <1>4, DifficultyBoundsAtLeast
  <1>6. AtLeast(a, z) => AtLeast(b, z)
    BY <1>3, <1>4, AbsoluteBoundsAtLeast
  <1>7. Less(Whole(MinDifficulty), a) => Less(Whole(MinDifficulty), b)
    BY <1>3, <1>4, AbsoluteBoundsAtLeast
  <1> QED
    BY <1>1, <1>3, <1>4, <1>5, <1>6, <1>7, DifficultyBoundsAtLeast

LEMMA LongerReachesLess ==
    ASSUME NEW c \in Nat, NEW k \in Nat, NEW t \in Nat, NEW u \in Nat, t < u,
           NEW p, p = Retarget(c, u, k), NEW q, q = Retarget(c, t, k)
    PROVE  /\ \A z \in Nat : AtLeast(p, z) => AtLeast(q, z)
           /\ Less(Whole(MinDifficulty), p) => Less(Whole(MinDifficulty), q)
  <1>1. PICK n \in Nat : n = c * TargetBlockTime * k
    BY DifficultyAssumption
  <1>2. p = [num |-> n, den |-> u]
    BY <1>1 DEF Retarget
  <1>3. PICK lo \in Nat : lo = MinDifficulty
    BY DifficultyAssumption
  <1>4. CASE t = 0
    <2>1. q = [num |-> 1, den |-> 0]
      BY <1>4 DEF Retarget
    <2> QED
      BY <1>3, <2>1 DEF AtLeast, Less, Whole
  <1>5. CASE t # 0
    <2>1. q = [num |-> n, den |-> t]
      BY <1>1, <1>5 DEF Retarget
    <2>2. \A z \in Nat : z * t <= z * u
      <3> SUFFICES ASSUME NEW z \in Nat
                   PROVE  z * t <= z * u
        OBVIOUS
      <3>1. t * z <= u * z
        BY ProductMonotone
      <3> QED
        BY <3>1
    <2>3. \A z \in Nat : AtLeast(p, z) => AtLeast(q, z)
      <3> SUFFICES ASSUME NEW z \in Nat, z * u <= n
                   PROVE  z * t <= n
        BY <1>2, <2>1 DEF AtLeast
      <3> QED
        BY <2>2
    <2>4. lo * u < n => lo * t < n
      BY <2>2
    <2>5. Less(Whole(lo), p) => Less(Whole(lo), q)
      BY <1>2, <2>1, <2>4 DEF Less, Whole
    <2> QED
      BY <1>3, <2>3, <2>5
  <1> QED
    BY <1>4, <1>5

(* A period on target gives back the difficulty it started from.           *)
LEMMA OnTargetGivesBack ==
    ASSUME NEW c \in AllowedRange, NEW k \in Nat \ {0},
           NEW q, q = Retarget(c, TargetBlockTime * k, k)
    PROVE  Floor(DifficultyBounds(q, c)) = c
  <1>1. PICK t \in Nat \ {0}, r \in Nat \ {0} : t = TargetBlockTime /\ r = MaxDifficultyRatio
    BY DifficultyAssumption
  <1>2. c \in Nat \ {0} /\ c \in Int
    BY DifficultyAssumption DEF AllowedRange
  <1>3. PICK d \in Nat \ {0} : d = t * k
    <2>1. t * k \in Nat /\ t * k > 0
      <3>1. 1 * k <= t * k
        BY ProductMonotone
      <3> QED
        BY <3>1
    <2> QED
      BY <2>1
  <1>4. q = [num |-> c * d, den |-> d]
    <2>1. c * t * k = c * d
      BY <1>2, <1>3
    <2> QED
      BY <1>1, <1>3, <2>1 DEF Retarget
  <1>5. Retargeted(q)
    BY <1>2, <1>4 DEF Retargeted
  <1>6. \A z \in Int : AtLeast(q, z) <=> z <= c
    BY <1>2, <1>4, FactorsCancel DEF AtLeast
  <1>7. PICK b : b = AbsoluteBounds(q)
    OBVIOUS
  <1>8. MinDifficulty \in Int /\ MaxDifficulty \in Int /\ MinDifficulty <= c /\ c <= MaxDifficulty
    BY DifficultyAssumption DEF AllowedRange
  <1>9. \A z \in Int : AtLeast(b, z) <=> z <= c
    <2> TAKE z \in Int
    <2>1. AtLeast(b, z) <=> z <= MinDifficulty \/ (z <= MaxDifficulty /\ AtLeast(q, z))
      BY <1>5, <1>7, AbsoluteBoundsAtLeast
    <2> QED
      BY <1>2, <1>6, <1>8, <2>1
  <1>10. c <= c * r
    <2>1. 1 * c <= r * c
      BY <1>2, ProductMonotone
    <2> QED
      BY <1>2, <2>1
  <1>11. c <= Floor(DifficultyBounds(q, c))
    BY <1>1, <1>2, <1>5, <1>7, <1>9, <1>10, DifficultyBoundsAtLeast
  <1>12. PICK f : f = Floor(DifficultyBounds(q, c))
    OBVIOUS
  <1>13. f \in Int /\ 0 <= f
    BY <1>5, <1>12, DifficultyBoundsInRange, FloorInRange, DifficultyAssumption DEF AllowedRange
  <1>14. AtLeast(b, f) \/ f * r <= c
    BY <1>1, <1>5, <1>7, <1>12, <1>13, DifficultyBoundsAtLeast
  <1>15. f * r <= c => f <= c
    <2>1. 1 * f <= r * f
      BY <1>13, ProductMonotone
    <2> QED
      BY <1>2, <1>13, <2>1
  <1> QED
    BY <1>2, <1>9, <1>11, <1>12, <1>13, <1>14, <1>15

(* An adjustment passes the ratio bounds only downwards, and then by less  *)
(* than one or down to the minimum.                                        *)
LEMMA AdjustmentAtEdges ==
    ASSUME NEW q, Retargeted(q), NEW c \in AllowedRange,
           NEW f, f = Floor(DifficultyBounds(q, c)), ~ValidTransition(c, f)
    PROVE  /\ f < c
           /\ f = MinDifficulty \/ (f + 1) * MaxDifficultyRatio > c
  <1>1. PICK b : b = AbsoluteBounds(q)
    OBVIOUS
  <1>2. f \in AllowedRange
    BY DifficultyBoundsInRange, FloorInRange
  <1>3. PICK r \in Nat \ {0}, lo \in Nat \ {0}, hi \in Nat \ {0} :
            r = MaxDifficultyRatio /\ lo = MinDifficulty /\ hi = MaxDifficulty
    BY DifficultyAssumption
  <1>4. /\ c \in Nat \ {0} /\ f \in Nat \ {0} /\ f \in Int /\ f + 1 \in Int
        /\ lo <= f /\ f <= hi
    BY <1>2, <1>3, DifficultyAssumption DEF AllowedRange
  <1>5. f <= c * r
    BY <1>3, <1>4, <1>1, DifficultyBoundsAtLeast
  <1>6. f * r < c
    BY <1>2, <1>3, <1>4, <1>5 DEF ValidTransition, AllowedRange
  <1>7. f < c
    <2>1. 1 * f <= r * f
      BY <1>4, ProductMonotone
    <2> QED
      BY <1>4, <1>6, <2>1
  <1>8. ASSUME (f + 1) * r <= c, f # lo
        PROVE  FALSE
    <2>1. f + 1 <= c * r
      <3>1. 1 * (f + 1) <= r * (f + 1)
        BY <1>4, ProductMonotone
      <3>2. 1 * c <= r * c
        BY <1>4, ProductMonotone
      <3> QED
        BY <1>4, <1>8, <3>1, <3>2
    <2>2. ~(f + 1 <= f)
      BY <1>4
    <2>3. ~Less(Whole(MinDifficulty), b)
      BY <1>1, <1>3, <1>4, <1>8, <2>1, <2>2, DifficultyBoundsAtLeast
    <2>4. AtLeast(b, f)
      BY <1>1, <1>4, <2>3, DifficultyBoundsAtLeast
    <2>5. lo < f
      BY <1>4, <1>8
    <2>6. AtLeast(q, f) /\ lo < hi
      <3>1. AtLeast(b, f) <=> f <= MinDifficulty \/ (f <= MaxDifficulty /\ AtLeast(q, f))
        BY <1>1, <1>4, AbsoluteBoundsAtLeast
      <3> QED
        BY <1>3, <1>4, <2>4, <2>5, <3>1
    <2>7. Less(Whole(lo), q)
      <3>1. PICK n \in Int, d \in Nat : n = q.num /\ d = q.den /\ (d = 0 => n = 1)
        BY DEF Retargeted
      <3>2. f * d <= n
        BY <2>6, <3>1 DEF AtLeast
      <3>3. CASE d = 0
        BY <3>1, <3>3 DEF Less, Whole
      <3>4. CASE d # 0
        <4>1. (lo + 1) * d <= f * d
          BY <1>4, <2>5, ProductMonotone
        <4>2. (lo + 1) * d = lo * d + d
          OBVIOUS
        <4>3. lo * d < n
          <5>1. d >= 1 /\ lo * d \in Int /\ (lo + 1) * d \in Int /\ f * d \in Int
            BY <1>4, <3>4
          <5> QED
            BY <3>1, <3>2, <4>1, <4>2, <5>1
        <4> QED
          BY <3>1, <4>3 DEF Less, Whole
      <3> QED
        BY <3>3, <3>4
    <2>8. Less(Whole(MinDifficulty), b) <=>
                  MinDifficulty < MaxDifficulty /\ Less(Whole(MinDifficulty), q)
      BY <1>1, <1>4, AbsoluteBoundsAtLeast
    <2> QED
      BY <1>3, <2>3, <2>6, <2>7, <2>8
  <1> QED
    BY <1>3, <1>4, <1>7, <1>8

LEMMA NextOfCount ==
    ASSUME NEW c, NEW ts, NEW count \in Nat, count >= 2,
           count = IF Len(ts) < AdjustmentPeriod THEN Len(ts) ELSE AdjustmentPeriod
    PROVE  CalculateNextDifficulty(c, ts)
               = Floor(DifficultyBounds(
                   Retarget(c, ts[Len(ts)] - ts[Len(ts) - count + 1], count - 1), c))
  <1>1. ~(count < 2)
    OBVIOUS
  <1> QED
    BY <1>1, Zenon DEF CalculateNextDifficulty

(* The end of a sequence, from some place on.                              *)
LEMMA TailOfSequence ==
    ASSUME NEW s \in Seq(Int), NEW a \in 1 .. Len(s)
    PROVE  /\ Len(SubSeq(s, a, Len(s))) = Len(s) - a + 1
           /\ SubSeq(s, a, Len(s))[1] = s[a]
           /\ SubSeq(s, a, Len(s))[Len(s) - a + 1] = s[Len(s)]
  OBVIOUS

(* The next difficulty is decided by the last period: how long it is and   *)
(* how long it took.                                                       *)
LEMMA NextFromPeriod ==
    ASSUME TimesInv, NEW t, t = Elapsed(Period), NEW k, k = Len(Period) - 1, k > 0
    PROVE  /\ k \in Nat \ {0} /\ t \in Int
           /\ CalculateNextDifficulty(current, times)
                  = Floor(DifficultyBounds(Retarget(current, t, k), current))
           /\ \A delay \in Nat \ {0} :
                  CalculateNextDifficulty(current, [times EXCEPT ![Len(times)] = @ + delay])
                      = Floor(DifficultyBounds(Retarget(current, t + delay, k), current))
  <1>1. PICK n : n = Len(times)
    OBVIOUS
  <1>2. n \in Nat \ {0} /\ \A i \in 1 .. n : times[i] \in Int
    BY <1>1 DEF TimesInv
  <1>3. PICK count : count = IF n < AdjustmentPeriod THEN n ELSE AdjustmentPeriod
    OBVIOUS
  <1>4. count \in Nat \ {0} /\ count <= n
    BY <1>2, <1>3, DifficultyAssumption
  <1>5. Period = SubSeq(times, n - count + 1, n)
    BY <1>1, <1>3 DEF Period
  <1>6. /\ Len(Period) = count
        /\ Period[1] = times[n - count + 1]
        /\ Period[count] = times[n]
    <2>1. PICK a \in 1 .. Len(times) : a = n - count + 1
      <3>1. n - count + 1 \in 1 .. n
        BY <1>2, <1>4
      <3> QED
        BY <1>1, <3>1
    <2>2. /\ Len(SubSeq(times, a, Len(times))) = Len(times) - a + 1
          /\ SubSeq(times, a, Len(times))[1] = times[a]
          /\ SubSeq(times, a, Len(times))[Len(times) - a + 1] = times[Len(times)]
      BY TailOfSequence DEF TimesInv
    <2>3. Len(times) - a + 1 = count
      BY <1>1, <1>2, <1>4, <2>1
    <2>4. Period = SubSeq(times, a, Len(times))
      BY <1>1, <1>5, <2>1
    <2>5. Len(Period) = count /\ Period[1] = times[a] /\ Period[count] = times[Len(times)]
      BY <2>2, <2>3, <2>4
    <2> QED
      BY <1>1, <2>1, <2>5
  <1>7. k = count - 1 /\ t = times[n] - times[n - count + 1] /\ count >= 2
    <2>1. k = count - 1 /\ count >= 2
      BY <1>4, <1>6
    <2>2. Elapsed(Period) = Period[count] - Period[1]
      BY <1>6 DEF Elapsed
    <2> QED
      BY <1>6, <2>1, <2>2
  <1>8. k \in Nat \ {0} /\ t \in Int
    <2>1. n \in 1 .. n /\ n - count + 1 \in 1 .. n
      BY <1>2, <1>4
    <2>2. times[n] \in Int /\ times[n - count + 1] \in Int
      BY <1>2, <2>1
    <2> QED
      BY <1>4, <1>7, <2>2
  <1>9. CalculateNextDifficulty(current, times)
            = Floor(DifficultyBounds(Retarget(current, t, k), current))
    BY <1>1, <1>3, <1>4, <1>7, NextOfCount
  <1>10. ASSUME NEW delay \in Nat \ {0}
         PROVE  CalculateNextDifficulty(current, [times EXCEPT ![Len(times)] = @ + delay])
                    = Floor(DifficultyBounds(Retarget(current, t + delay, k), current))
    <2>1. PICK later : later = [times EXCEPT ![Len(times)] = @ + delay]
      OBVIOUS
    <2>2. Len(later) = n
      BY <1>1, <2>1 DEF TimesInv
    <2>3. later[n] = times[n] + delay /\ later[n - count + 1] = times[n - count + 1]
      BY <1>1, <1>2, <1>4, <1>7, <2>1 DEF TimesInv
    <2>4. later[n] - later[n - count + 1] = t + delay
      BY <1>2, <1>4, <1>7, <2>3
    <2>5. CalculateNextDifficulty(current, later)
              = Floor(DifficultyBounds(Retarget(current, t + delay, k), current))
      <3>1. count = IF Len(later) < AdjustmentPeriod THEN Len(later) ELSE AdjustmentPeriod
        BY <1>3, <2>2
      <3>2. CalculateNextDifficulty(current, later)
                = Floor(DifficultyBounds(
                    Retarget(current, later[Len(later)] - later[Len(later) - count + 1],
                             count - 1), current))
        BY <1>4, <1>7, <3>1, NextOfCount
      <3> QED
        BY <1>7, <2>2, <2>4, <3>2
    <2> QED
      BY <2>1, <2>5, Zenon
  <1> QED
    BY <1>8, <1>9, <1>10

LEMMA BlockTimeFollowed ==
    ASSUME TimesInv, DifficultyInRange
    PROVE  FollowsBlockTime
  <1>1. PICK t, k : t = Elapsed(Period) /\ k = Len(Period) - 1
    OBVIOUS
  <1>2. current \in AllowedRange /\ current \in Nat
    BY DifficultyAssumption DEF DifficultyInRange, AllowedRange
  <1>3. TargetBlockTime \in Nat \ {0}
    BY DifficultyAssumption
  <1>4. Len(Period) \in Nat
    BY DifficultyAssumption DEF TimesInv, Period
  <1>5. SlowerNeverHarder
    <2> SUFFICES ASSUME NEW delay \in 1 .. 3 * TargetBlockTime, k > 0, t >= 0
                 PROVE  CalculateNextDifficulty(current,
                            [times EXCEPT ![Len(times)] = @ + delay])
                          <= CalculateNextDifficulty(current, times)
      BY <1>1, <1>4 DEF SlowerNeverHarder
    <2>1. delay \in Nat \ {0}
      BY <1>3
    <2>2. k \in Nat /\ t \in Nat /\ t + delay \in Nat /\ t < t + delay
      BY <1>1, <2>1, NextFromPeriod
    <2>3. PICK p, q : p = Retarget(current, t + delay, k) /\ q = Retarget(current, t, k)
      OBVIOUS
    <2>4. /\ \A z \in Nat : AtLeast(p, z) => AtLeast(q, z)
          /\ Less(Whole(MinDifficulty), p) => Less(Whole(MinDifficulty), q)
      BY <1>2, <2>2, <2>3, LongerReachesLess
    <2>5. Retargeted(p) /\ Retargeted(q)
      <3>1. t \in Int /\ t + delay \in Int
        BY <2>2
      <3> QED
        BY <1>2, <2>2, <2>3, <3>1, RetargetRetargeted
    <2>6. Floor(DifficultyBounds(p, current)) <= Floor(DifficultyBounds(q, current))
      BY <1>2, <2>4, <2>5, BoundsMonotone
    <2> QED
      BY <1>1, <2>1, <2>3, <2>6, NextFromPeriod
  <1>6. OnTargetIsStable
    <2> SUFFICES ASSUME k > 0, t = TargetBlockTime * k
                 PROVE  CalculateNextDifficulty(current, times) = current
      BY <1>1, <1>4 DEF OnTargetIsStable
    <2>1. k \in Nat \ {0}
      BY <1>1, NextFromPeriod
    <2>2. CalculateNextDifficulty(current, times)
              = Floor(DifficultyBounds(Retarget(current, t, k), current))
      BY <1>1, NextFromPeriod
    <2> QED
      BY <1>2, <2>1, <2>2, OnTargetGivesBack
  <1> QED
    BY <1>5, <1>6 DEF FollowsBlockTime

(* A difficulty that is left alone is no transition to refuse.             *)
LEMMA UnchangedIsValid ==
    ASSUME NEW c \in AllowedRange
    PROVE  ValidTransition(c, c)
  <1>1. PICK r \in Nat \ {0} : r = MaxDifficultyRatio
    BY DifficultyAssumption
  <1>2. c \in Nat
    BY DifficultyAssumption DEF AllowedRange
  <1>3. 1 * c <= r * c
    BY <1>2, ProductMonotone
  <1>4. c <= c * r
    BY <1>2, <1>3
  <1> QED
    BY <1>1, <1>2, <1>4 DEF ValidTransition, AllowedRange

(* The adjustment follows the block time, and validateDifficultyTransition *)
(* (difficulty.ts) would refuse none of its steps but a decrease that ends *)
(* at the minimum or passes the ratio by rounding.                         *)
THEOREM RefusedOnlyAtEdgesTheorem == Spec => RefusedOnlyAtEdges
  <1> DEFINE Edge == ~ValidTransition(current, current') =>
                       /\ current' < current
                       /\ \/ current' = MinDifficulty
                          \/ (current' + 1) * MaxDifficultyRatio > current
  <1>1. TimesInv /\ DifficultyInRange => FollowsBlockTime
    BY BlockTimeFollowed
  <1>2. TimesInv /\ DifficultyInRange /\ [Next]_vars => [Edge]_vars
    <2> SUFFICES ASSUME TimesInv, DifficultyInRange, NEW gap \in Gaps, MineBlock(gap)
                 PROVE  Edge
      BY DEF Next
    <2>1. current \in AllowedRange /\ current \in Nat
      BY DifficultyAssumption DEF DifficultyInRange, AllowedRange
    <2>2. CASE current' = current
      BY <2>1, <2>2, UnchangedIsValid
    <2>3. CASE current' # current
      <3>1. current' = CalculateNextDifficulty(current, times)
        BY <2>3 DEF MineBlock
      <3>2. PICK count : count = IF Len(times) < AdjustmentPeriod THEN Len(times)
                                                                   ELSE AdjustmentPeriod
        OBVIOUS
      <3>3. count \in Nat /\ count <= Len(times) /\ count >= 2
        <4>1. count \in Nat /\ count <= Len(times)
          BY <3>2, DifficultyAssumption DEF TimesInv
        <4>2. ~(count < 2)
          BY <2>3, <3>1, <3>2 DEF CalculateNextDifficulty
        <4> QED
          BY <4>1, <4>2
      <3>4. PICK span : span = times[Len(times)] - times[Len(times) - count + 1]
        OBVIOUS
      <3>5. span \in Int
        BY <3>3, <3>4 DEF TimesInv
      <3>6. PICK q : q = Retarget(current, span, count - 1)
        OBVIOUS
      <3>7. current' = Floor(DifficultyBounds(q, current))
        BY <3>1, <3>2, <3>3, <3>4, <3>6, NextOfCount
      <3>8. Retargeted(q)
        <4>1. count - 1 \in Nat
          BY <3>3
        <4> QED
          BY <2>1, <3>5, <3>6, <4>1, RetargetRetargeted
      <3> QED
        BY <2>1, <3>7, <3>8, AdjustmentAtEdges
    <2> QED
      BY <2>2, <2>3
  <1> QED
    BY <1>1, <1>2, DifficultyStart, DifficultyStep, PTL DEF Spec, RefusedOnlyAtEdges

-----------------------------------------------------------------------------
(* Payments.                                                               *)

(* A set of coins whose sums mean something, and that a payment can be     *)
(* made from.                                                              *)
Coins(S) == IsFiniteSet(S) /\ \A u \in S : u.value \in Nat \ {0}

Selected(S, amount) ==
    /\ Coins(S) /\ S # {}
    /\ TotalValue(S) >= amount + EstimatedFee

PaymentOutputs == [value : Nat \ {0}, to : {"wallet", "shop"}]

LEMMA FeesAreNumbers ==
    /\ EstimatedFee = 250
    /\ \A n \in Nat \ {0}, k \in {1, 2} : TransactionFee(n, k) = 32 + 150 * n + 34 * k
  BY DEF EstimatedFee, TransactionFee

LEMMA OneElement ==
    ASSUME NEW P, NEW o \in P, NEW s, s = <<o>>
    PROVE  s \in Seq(P) /\ Len(s) = 1 /\ s[1] = o /\ s # <<>>
  <1>1. s \in Seq(P) /\ Len(s) = 1 /\ s[1] = o
    OBVIOUS
  <1> QED
    BY <1>1

LEMMA TwoElements ==
    ASSUME NEW P, NEW o \in P, NEW p \in P, NEW s, s = <<o, p>>
    PROVE  s \in Seq(P) /\ Len(s) = 2 /\ s[1] = o /\ s[2] = p /\ s # <<>>
  <1>1. s \in Seq(P) /\ Len(s) = 2 /\ s[1] = o /\ s[2] = p
    OBVIOUS
  <1> QED
    BY <1>1

(* What one output, and what two outputs, are worth.                       *)
LEMMA OneOutput ==
    ASSUME NEW tx, NEW o, o.value \in Int, tx.outputs = <<o>>
    PROVE  OutputValue(tx) = o.value
  <1>1. PICK u : u = [txId |-> tx.id, outputIndex |-> 0, value |-> o.value, to |-> o.to]
    OBVIOUS
  <1>2. OutputsOf(tx) = {u}
    BY <1>1 DEF OutputsOf
  <1> QED
    BY <1>1, <1>2, TotalValueOne DEF OutputValue

LEMMA TwoOutputs ==
    ASSUME NEW tx, NEW o, NEW p, o.value \in Int, p.value \in Int, tx.outputs = <<o, p>>
    PROVE  OutputValue(tx) = o.value + p.value
  <1>1. PICK u : u = [txId |-> tx.id, outputIndex |-> 0, value |-> o.value, to |-> o.to]
    OBVIOUS
  <1>2. PICK w : w = [txId |-> tx.id, outputIndex |-> 1, value |-> p.value, to |-> p.to]
    OBVIOUS
  <1>3. OutputsOf(tx) = {u} \cup {w}
    <2>1. DOMAIN tx.outputs = {1, 2} /\ tx.outputs[1] = o /\ tx.outputs[2] = p
      OBVIOUS
    <2> QED
      BY <1>1, <1>2, <2>1 DEF OutputsOf
  <1>4. {u} \cap {w} = {}
    BY <1>1, <1>2
  <1>5. TotalValue({u} \cup {w}) = TotalValue({u}) + TotalValue({w})
    <2>1. IsFiniteSet({u}) /\ IsFiniteSet({w})
      BY FS_Singleton
    <2>2. (\A x \in {u} : x.value \in Int) /\ (\A x \in {w} : x.value \in Int)
      BY <1>1, <1>2
    <2> QED
      BY <1>4, <2>1, <2>2, TotalValueUnion
  <1> QED
    BY <1>1, <1>2, <1>3, <1>5, TotalValueOne DEF OutputValue

(* What createTransaction makes of a selection that covers the amount and  *)
(* the estimated fee: with change the wallet loses exactly the recorded    *)
(* fee, without change no more than that or the estimate, and a single     *)
(* input leaves no mismatch beyond the tolerance.                          *)
LEMMA PaymentBuilt ==
    ASSUME NEW id, NEW amount \in Nat \ {0}, NEW S, Selected(S, amount),
           NEW tx, tx = CreateTransaction(id, "wallet", "shop", amount, S),
           NEW loss, loss = TotalValue(S) - OutputValue(tx)
    PROVE  /\ tx.id = id /\ tx.inputs = Outpoints(S) /\ tx.fee \in Nat
           /\ tx.outputs \in Seq(PaymentOutputs)
           /\ tx.outputs # <<>>
           /\ tx.outputs[1] = [value |-> amount, to |-> "shop"]
           /\ loss \in Nat /\ OutputValue(tx) \in Nat
           /\ loss <= tx.fee \/ loss = EstimatedFee
           /\ Len(tx.outputs) = 2 => loss = tx.fee
           /\ Cardinality(S) = 1 => loss - tx.fee \in -FeeTolerance .. FeeTolerance
  <1>1. PICK value : value = TotalValue(S)
    OBVIOUS
  <1>2. PICK n : n = Cardinality(S)
    OBVIOUS
  <1>3. value \in Nat \ {0} /\ value >= amount + 250
    BY <1>1, TotalValuePositive, FeesAreNumbers DEF Selected, Coins
  <1>4. n \in Nat \ {0}
    BY <1>2, FS_CardinalityType, FS_EmptySet DEF Selected, Coins
  <1>5. PICK change : change = value - (amount + 250)
    OBVIOUS
  <1>6. PICK made : made = IF change > 0 THEN 2 ELSE 1
    OBVIOUS
  <1>7. PICK fee : fee = 32 + 150 * n + 34 * made
    OBVIOUS
  <1>8. PICK remaining : remaining = change - (fee - 250)
    OBVIOUS
  <1>9. TransactionFee(n, made) = fee
    BY <1>4, <1>6, <1>7, FeesAreNumbers
  <1>10. PICK payment_ : payment_ = [value |-> amount, to |-> "shop"]
    OBVIOUS
  <1>11. PICK rest : rest = [value |-> remaining, to |-> "wallet"]
    OBVIOUS
  <1>12. tx = [id |-> id, inputs |-> Outpoints(S),
               outputs |-> IF change > 0 /\ remaining > 0 THEN <<payment_, rest>> ELSE <<payment_>>,
               fee |-> fee]
    BY <1>1, <1>2, <1>5, <1>6, <1>8, <1>9, <1>10, <1>11, FeesAreNumbers DEF CreateTransaction
  <1>13. /\ change \in Nat /\ fee \in Nat /\ remaining \in Int
         /\ n = 1 /\ change > 0 => remaining = change /\ fee = 250
         /\ n = 1 /\ change = 0 => fee = 216
    BY <1>3, <1>4, <1>5, <1>6, <1>7, <1>8
  <1>16. tx.id = id /\ tx.inputs = Outpoints(S) /\ tx.fee = fee /\ tx.fee \in Nat
    BY <1>12, <1>13
  <1>17. EstimatedFee = 250
    BY FeesAreNumbers
  <1>14. CASE change > 0 /\ remaining > 0
    <2>1. tx.outputs = <<payment_, rest>>
      BY <1>12, <1>14
    <2>2. payment_ \in PaymentOutputs /\ rest \in PaymentOutputs
      BY <1>10, <1>11, <1>13, <1>14 DEF PaymentOutputs
    <2>3. OutputValue(tx) = amount + remaining
      BY <1>10, <1>11, <1>13, <2>1, TwoOutputs
    <2>4. loss = fee
      BY <1>1, <1>3, <1>5, <1>8, <1>13, <2>3
    <2>5. Len(tx.outputs) = 2 /\ tx.outputs[1] = payment_ /\ tx.outputs # <<>>
          /\ tx.outputs \in Seq(PaymentOutputs)
      <3>1. PICK s : s = <<payment_, rest>>
        OBVIOUS
      <3>2. s \in Seq(PaymentOutputs) /\ Len(s) = 2 /\ s[1] = payment_ /\ s # <<>>
        BY <2>2, <3>1, TwoElements
      <3> QED
        BY <2>1, <3>1, <3>2
    <2>6. loss \in Nat /\ amount + remaining \in Nat /\ loss - fee \in -100 .. 100
      BY <1>13, <1>14, <2>4
    <2>7. loss <= tx.fee \/ loss = EstimatedFee
      BY <1>16, <1>17, <2>4, <2>6
    <2>9. Len(tx.outputs) = 2 => loss = tx.fee
      BY <1>16, <2>4, <2>5
    <2>8. Cardinality(S) = 1 => loss - tx.fee \in -FeeTolerance .. FeeTolerance
      BY <1>2, <1>16, <2>4, <2>6 DEF FeeTolerance
    <2> QED
      BY <1>10, <1>16, <2>3, <2>5, <2>6, <2>7, <2>8, <2>9
  <1>15. CASE ~(change > 0 /\ remaining > 0)
    <2>1. tx.outputs = <<payment_>>
      BY <1>12, <1>15
    <2>2. payment_ \in PaymentOutputs
      BY <1>10 DEF PaymentOutputs
    <2>3. OutputValue(tx) = amount
      BY <1>10, <2>1, OneOutput
    <2>4. /\ loss = change + 250
          /\ loss <= fee \/ loss = 250
          /\ n = 1 => loss - fee \in -100 .. 100
      BY <1>1, <1>3, <1>4, <1>5, <1>8, <1>13, <1>15, <2>3
    <2>5. Len(tx.outputs) = 1 /\ tx.outputs[1] = payment_ /\ tx.outputs # <<>>
          /\ tx.outputs \in Seq(PaymentOutputs)
      BY <2>1, <2>2, OneElement
    <2>6. loss \in Nat
      BY <1>13, <2>4
    <2>7. loss <= tx.fee \/ loss = EstimatedFee
      BY <1>16, <1>17, <2>4, <2>6
    <2>9. Len(tx.outputs) = 2 => loss = tx.fee
      <3>1. Len(tx.outputs) = 1
        BY <2>5
      <3> QED
        BY <3>1
    <2>8. Cardinality(S) = 1 => loss - tx.fee \in -FeeTolerance .. FeeTolerance
      BY <1>2, <1>16, <2>4, <2>6 DEF FeeTolerance
    <2> QED
      BY <1>10, <1>16, <2>3, <2>5, <2>6, <2>7, <2>8, <2>9
  <1> QED
    BY <1>14, <1>15

(* A nonempty set of numbers has a least one.                              *)
LEMMA LeastValue ==
    ASSUME NEW V \in SUBSET Nat, V # {}
    PROVE  \E v \in V : \A x \in V : v <= x
  <1>1. PICK v \in V : \A x \in V : <<x, v>> \notin OpToRel(<, Nat)
    BY NatLessThanWellFounded, WFMin
  <1>2. \A x \in V : ~(x < v)
    BY <1>1 DEF OpToRel
  <1> QED
    BY <1>2

(* Largest-first selection takes no coin it could do without: the least    *)
(* of them is needed, hence every other.                                   *)
LEMMA EveryCoinNeeded ==
    ASSUME NEW available, NEW amount \in Nat, NEW S \in SufficientSelections(available, amount),
           Coins(S), NEW u \in S
    PROVE  TotalValue(S) - u.value < amount + EstimatedFee
  <1>1. PICK total \in Nat : total = TotalValue(S)
    BY TotalValuePositive DEF Coins
  <1>2. /\ total >= amount + 250
        /\ \A w \in S : (\A x \in S : w.value <= x.value) => total - w.value < amount + 250
    BY <1>1, FeesAreNumbers DEF SufficientSelections, GreedySelections
  <1>3. PICK v \in {w.value : w \in S} : \A x \in {w.value : w \in S} : v <= x
    <2> DEFINE V == {w.value : w \in S}
    <2>1. V # {} /\ V \subseteq Nat
      BY DEF Coins
    <2>2. \E v \in V : \A x \in V : v <= x
      <3> HIDE DEF V
      <3> QED
        BY <2>1, LeastValue
    <2> QED
      BY <2>2
  <1>4. PICK w \in S : w.value = v
    OBVIOUS
  <1>5. total - w.value < amount + 250
    BY <1>2, <1>3, <1>4
  <1>6. w.value <= u.value /\ w.value \in Nat /\ u.value \in Nat
    BY <1>3, <1>4 DEF Coins
  <1> QED
    BY <1>1, <1>5, <1>6, FeesAreNumbers

----------------------------------------------------------------------------
(***************************************************************************)
(* The invariant of the wallet: coins have outpoints of their own, those   *)
(* received are numbered downwards from -1; and a payment that was not     *)
(* handed over yet was built from the coins that are still there.          *)
(***************************************************************************)
CoinsInv ==
    /\ received \in Nat
    /\ Coins(utxos)
    /\ \A u \in utxos : u.txId \in Int /\ u.txId >= -received
    /\ \A u, w \in utxos : Outpoint(u) = Outpoint(w) => u = w

PaymentInv ==
    /\ payment.id \in Nat
    /\ ~submitted =>
           \E amount \in Amounts : \E S \in SufficientSelections(Mine, amount) :
               payment = CreateTransaction(payment.id, "wallet", "shop", amount, S)

WalletInv == CoinsInv /\ PaymentInv

LEMMA SelectionFacts ==
    ASSUME CoinsInv, NEW amount \in Nat, NEW S \in SufficientSelections(Mine, amount)
    PROVE  Selected(S, amount) /\ S \subseteq utxos
  <1>1. /\ S \subseteq utxos /\ S # {}
        /\ TotalValue(S) >= amount + EstimatedFee
    BY DEF SufficientSelections, GreedySelections, Mine, OwnedBy
  <1> QED
    BY <1>1, FS_Subset DEF CoinsInv, Coins, Selected

(* What a payment takes are the coins it was built from.                   *)
LEMMA InputsAreSelected ==
    ASSUME CoinsInv, NEW S \in SUBSET utxos
    PROVE  {u \in utxos : Outpoint(u) \in Outpoints(S)} = S
  BY DEF CoinsInv, Outpoints

(* Whatever is built from coins of the UTXO set is a sound payment.        *)
LEMMA PaymentIsSound ==
    ASSUME WalletAssumption, WalletInv
    PROVE  PaymentsSound
  <1> SUFFICES ASSUME ~submitted
               PROVE  PaymentsSound
    BY DEF PaymentsSound, WalletBurnBounded, ChangeOrSingleInputAccepted, NoNeedlessInput
  <1>1. PICK amount \in Amounts : \E S \in SufficientSelections(Mine, amount) :
            payment = CreateTransaction(payment.id, "wallet", "shop", amount, S)
    BY DEF WalletInv, PaymentInv
  <1>2. PICK S \in SufficientSelections(Mine, amount) :
            payment = CreateTransaction(payment.id, "wallet", "shop", amount, S)
    BY <1>1
  <1>3. amount \in Nat \ {0}
    BY DEF WalletAssumption
  <1>4. Selected(S, amount) /\ S \subseteq utxos
    BY <1>3, SelectionFacts DEF WalletInv
  <1>5. PICK loss : loss = TotalValue(S) - OutputValue(payment)
    OBVIOUS
  <1>6. /\ payment.inputs = Outpoints(S) /\ payment.fee \in Nat
        /\ payment.outputs \in Seq(PaymentOutputs)
        /\ payment.outputs # <<>>
        /\ payment.outputs[1] = [value |-> amount, to |-> "shop"]
        /\ loss \in Nat /\ OutputValue(payment) \in Nat
        /\ loss <= payment.fee \/ loss = EstimatedFee
        /\ Len(payment.outputs) = 2 => loss = payment.fee
        /\ Cardinality(S) = 1 => loss - payment.fee \in -FeeTolerance .. FeeTolerance
    BY <1>2, <1>3, <1>4, <1>5, PaymentBuilt
  <1>7. TotalValue(S) \in Nat
    BY <1>4, TotalValuePositive DEF Selected, Coins
  <1>8. InputValue(payment, utxos) = TotalValue(S)
    <2>1. {u \in utxos : Outpoint(u) \in Outpoints(S)} = S
      BY <1>4, InputsAreSelected DEF WalletInv
    <2> QED
      BY <1>6, <2>1 DEF InputValue
  <1>9. WalletBurnBounded
    <2>1. Burn = loss
      BY <1>5, <1>8 DEF Burn
    <2> QED
      BY <1>6, <2>1 DEF WalletBurnBounded
  <1>10. ChangeOrSingleInputAccepted
    <2> SUFFICES ASSUME Len(payment.outputs) = 2 \/ Cardinality(payment.inputs) = 1
                 PROVE  ValidateTransaction(payment, utxos)
      BY DEF ChangeOrSingleInputAccepted
    <2>1. \A i \in DOMAIN payment.outputs : payment.outputs[i].value > 0
      <3>1. ASSUME NEW i \in DOMAIN payment.outputs
            PROVE  payment.outputs[i] \in PaymentOutputs
        BY <1>6
      <3> QED
        BY <3>1 DEF PaymentOutputs
    <2>2. payment.inputs # {} /\ payment.inputs \subseteq Outpoints(utxos)
      BY <1>4, <1>6 DEF Outpoints, Selected
    <2>3. Cardinality(payment.inputs) = 1 => Cardinality(S) = 1
      <3>1. SUFFICES ASSUME Cardinality(Outpoints(S)) = 1
                     PROVE  Cardinality(S) = 1
        BY <1>6
      <3>2. IsFiniteSet(S)
        BY <1>4 DEF Selected, Coins
      <3>3. IsFiniteSet(Outpoints(S))
        <4>1. PICK f : f = [u \in S |-> Outpoint(u)]
          OBVIOUS
        <4>2. Outpoints(S) = {f[u] : u \in S}
          BY <4>1 DEF Outpoints
        <4> QED
          BY <3>2, <4>2, ImageFinite
      <3>4. PICK o : Outpoints(S) = {o}
        BY <3>1, <3>3, FS_Singleton
      <3>5. \A u, w \in S : u = w
        BY <1>4, <3>4 DEF Outpoints, WalletInv, CoinsInv
      <3>6. \E u : S = {u}
        BY <1>4, <3>5 DEF Selected
      <3> QED
        BY <3>2, <3>6, FS_Singleton
    <2>4. FeeMatches(payment, utxos)
      <3>1. loss - payment.fee \in -FeeTolerance .. FeeTolerance
        BY <1>6, <2>3 DEF FeeTolerance
      <3> QED
        BY <1>5, <1>8, <3>1 DEF FeeMatches
    <2>5. InputValue(payment, utxos) >= OutputValue(payment) /\ payment.fee >= 0
      BY <1>5, <1>6, <1>7, <1>8
    <2> QED
      BY <1>6, <2>1, <2>2, <2>4, <2>5 DEF ValidateTransaction
  <1>11. NoNeedlessInput
    <2> SUFFICES ASSUME NEW u \in Mine, Outpoint(u) \in payment.inputs
                 PROVE  InputValue(payment, utxos) - u.value
                            < payment.outputs[1].value + EstimatedFee
      BY DEF NoNeedlessInput
    <2>1. u \in S
      BY <1>4, <1>6, InputsAreSelected DEF Mine, OwnedBy, WalletInv
    <2>2. TotalValue(S) - u.value < amount + EstimatedFee
      BY <1>3, <1>4, <2>1, EveryCoinNeeded DEF Selected
    <2> QED
      BY <1>6, <1>8, <2>2
  <1> QED
    BY <1>9, <1>10, <1>11 DEF PaymentsSound

LEMMA WalletInvInit ==
    ASSUME WalletAssumption, WalletInit
    PROVE  WalletInv
  BY FS_EmptySet DEF WalletInit, WalletInv, CoinsInv, PaymentInv, Coins, NoPayment

LEMMA ReceiveKeeps ==
    ASSUME WalletAssumption, WalletInv, NEW value \in Values, Receive(value)
    PROVE  WalletInv'
  <1>1. PICK coin : coin = [txId |-> -(received + 1), outputIndex |-> 0,
                            value |-> value, to |-> "wallet"]
    OBVIOUS
  <1>2. utxos' = utxos \cup {coin} /\ received' = received + 1
    BY <1>1 DEF Receive
  <1>3. /\ received \in Nat
        /\ coin.txId = -(received + 1) /\ coin.txId \in Int /\ coin.value \in Nat \ {0}
    BY <1>1 DEF WalletAssumption, WalletInv, CoinsInv
  <1>4. Coins(utxos')
    BY <1>2, <1>3, FS_AddElement DEF WalletInv, CoinsInv, Coins
  <1>5. \A u \in utxos' : u.txId \in Int /\ u.txId >= -(received')
    BY <1>2, <1>3 DEF WalletInv, CoinsInv
  <1>6. \A u \in utxos : Outpoint(u) # Outpoint(coin)
    BY <1>3 DEF WalletInv, CoinsInv, Outpoint
  <1>7. \A u, w \in utxos' : Outpoint(u) = Outpoint(w) => u = w
    BY <1>2, <1>6 DEF WalletInv, CoinsInv
  <1>8. PaymentInv'
    BY DEF WalletInv, PaymentInv, Receive
  <1> QED
    BY <1>2, <1>3, <1>4, <1>5, <1>7, <1>8 DEF WalletInv, CoinsInv

LEMMA PayKeeps ==
    ASSUME WalletAssumption, WalletInv, NEW amount \in Amounts, Pay(amount)
    PROVE  WalletInv'
  <1>1. PICK S \in SufficientSelections(Mine, amount) :
            payment' = CreateTransaction(payment.id + 1, "wallet", "shop", amount, S)
    BY DEF Pay
  <1>2. CoinsInv'
    BY DEF Pay, WalletInv, CoinsInv
  <1>3. payment'.id = payment.id + 1 /\ payment.id \in Nat
    BY <1>1 DEF CreateTransaction, WalletInv, PaymentInv
  <1>4. Mine' = Mine
    BY DEF Pay, Mine
  <1>5. \E a \in Amounts : \E T \in SufficientSelections(Mine', a) :
            payment' = CreateTransaction(payment'.id, "wallet", "shop", a, T)
    BY <1>1, <1>3, <1>4
  <1> QED
    BY <1>2, <1>3, <1>5 DEF WalletInv, PaymentInv

(* The coins of a payment are the ones that are gone, and those it makes   *)
(* have outpoints of their own.                                            *)
LEMMA SubmitKeeps ==
    ASSUME WalletAssumption, WalletInv, Submit
    PROVE  WalletInv'
  <1>1. PICK amount \in Amounts : \E S \in SufficientSelections(Mine, amount) :
            payment = CreateTransaction(payment.id, "wallet", "shop", amount, S)
    BY DEF WalletInv, PaymentInv, Submit
  <1>2. PICK S \in SufficientSelections(Mine, amount) :
            payment = CreateTransaction(payment.id, "wallet", "shop", amount, S)
    BY <1>1
  <1>3. amount \in Nat \ {0}
    BY DEF WalletAssumption
  <1>4. Selected(S, amount)
    BY <1>3, SelectionFacts DEF WalletInv
  <1>5. payment.outputs \in Seq(PaymentOutputs)
    <2>1. PICK loss : loss = TotalValue(S) - OutputValue(payment)
      OBVIOUS
    <2>2. /\ payment.inputs = Outpoints(S) /\ payment.fee \in Nat
          /\ payment.outputs \in Seq(PaymentOutputs)
          /\ payment.outputs # <<>>
          /\ payment.outputs[1] = [value |-> amount, to |-> "shop"]
          /\ loss \in Nat /\ OutputValue(payment) \in Nat
      BY <1>2, <1>3, <1>4, <2>1, PaymentBuilt
    <2> QED
      BY <2>2
  <1>6. PICK made : made = OutputsOf(payment)
    OBVIOUS
  <1>7. IsFiniteSet(made)
    BY <1>5, <1>6, OutputsFinite
  <1>8. /\ \A u \in made : u.value \in Nat \ {0} /\ u.txId = payment.id
        /\ \A u, w \in made : Outpoint(u) = Outpoint(w) => u = w
    <2>1. \A i \in DOMAIN payment.outputs : payment.outputs[i] \in PaymentOutputs /\ i \in Int
      BY <1>5
    <2>2. \A u \in made : \E i \in DOMAIN payment.outputs :
              u = [txId |-> payment.id, outputIndex |-> i - 1,
                   value |-> payment.outputs[i].value, to |-> payment.outputs[i].to]
      BY <1>6 DEF OutputsOf
    <2>3. \A u \in made : u.value \in Nat \ {0} /\ u.txId = payment.id
      BY <2>1, <2>2 DEF PaymentOutputs
    <2>4. ASSUME NEW u \in made, NEW w \in made, Outpoint(u) = Outpoint(w)
          PROVE  u = w
      <3>1. PICK i \in DOMAIN payment.outputs :
              u = [txId |-> payment.id, outputIndex |-> i - 1,
                   value |-> payment.outputs[i].value, to |-> payment.outputs[i].to]
        BY <2>2
      <3>2. PICK j \in DOMAIN payment.outputs :
              w = [txId |-> payment.id, outputIndex |-> j - 1,
                   value |-> payment.outputs[j].value, to |-> payment.outputs[j].to]
        BY <2>2
      <3>3. i - 1 = j - 1 /\ i \in Int /\ j \in Int
        BY <2>1, <2>4, <3>1, <3>2 DEF Outpoint
      <3> QED
        BY <3>1, <3>2, <3>3
    <2> QED
      BY <2>3, <2>4
  <1>9. PICK kept \in SUBSET utxos :
            /\ ApplyUTXOUpdates(utxos, made, payment.inputs) = kept \cup made
            /\ \A u \in kept, w \in made : Outpoint(u) # Outpoint(w)
    <2>1. PICK kept : kept = {u \in utxos : Outpoint(u) \notin payment.inputs \cup Outpoints(made)}
      OBVIOUS
    <2> QED
      BY <2>1 DEF ApplyUTXOUpdates, Outpoints
  <1>10. CASE utxos' = kept \cup made
    <2>1. Coins(utxos')
      BY <1>7, <1>8, <1>10, FS_Subset, FS_Union DEF WalletInv, CoinsInv, Coins
    <2>2. \A u \in utxos' : u.txId \in Int /\ u.txId >= -received
      <3>1. payment.id \in Nat /\ received \in Nat
        BY DEF WalletInv, CoinsInv, PaymentInv
      <3> QED
        BY <1>8, <1>10, <3>1 DEF WalletInv, CoinsInv
    <2>3. \A u, w \in utxos' : Outpoint(u) = Outpoint(w) => u = w
      BY <1>8, <1>9, <1>10 DEF WalletInv, CoinsInv
    <2> QED
      BY <2>1, <2>2, <2>3 DEF Submit, WalletInv, CoinsInv, PaymentInv
  <1>11. CASE utxos' = utxos
    BY <1>11 DEF Submit, WalletInv, CoinsInv, PaymentInv
  <1> QED
    BY <1>6, <1>9, <1>10, <1>11 DEF Submit

(* A payment costs the wallet the fee it records or the estimate it was    *)
(* selected for, takes no coin it could do without, and the node accepts   *)
(* it whenever it returns change or has one input                          *)
(* (utxo-transaction.ts:56-143), for all coins and amounts.                *)
THEOREM PaymentsSoundTheorem == WalletSpec => []PaymentsSound
  <1>1. WalletInit => WalletInv
    BY WalletInvInit, WalletAssumption
  <1>2. WalletInv /\ [WalletNext]_walletVars => WalletInv'
    <2> SUFFICES ASSUME WalletInv, [WalletNext]_walletVars
                 PROVE  WalletInv'
      OBVIOUS
    <2>1. CASE \E value \in Values : Receive(value)
      BY <2>1, ReceiveKeeps, WalletAssumption
    <2>2. CASE \E amount \in Amounts : Pay(amount)
      BY <2>2, PayKeeps, WalletAssumption
    <2>3. CASE Submit
      BY <2>3, SubmitKeeps, WalletAssumption
    <2>4. CASE UNCHANGED walletVars
      BY <2>4 DEF walletVars, WalletInv, CoinsInv, PaymentInv, Mine
    <2> QED
      BY <2>1, <2>2, <2>3, <2>4 DEF WalletNext
  <1>3. WalletInv => PaymentsSound
    BY PaymentIsSound, WalletAssumption
  <1> QED
    BY <1>1, <1>2, <1>3, PTL DEF WalletSpec
-----------------------------------------------------------------------------
(***************************************************************************)
(* Merkle trees.  The tree, the climb to its root and the hashes along a   *)
(* proof each compute a value from the one before.  A loop is a record     *)
(* that says which of them it is, so that one lemma holds of all three.    *)
(***************************************************************************)

Round(loop, k, value) ==
    CASE loop.of = "tree" -> NextLevel(value)
      [] loop.of = "hash" -> Above(loop.proof[k], value)
      [] loop.of = "climb" ->
           LET sibling == Sibling(value.index)
               element == [hash |-> loop.tree[k - 1][sibling + 1], direction |-> Direction(value.index)]
           IN [index |-> value.index \div 2,
               proof |-> IF sibling < Len(loop.tree[k - 1]) THEN Append(value.proof, element) ELSE value.proof]

(* after holds the values after 0 to n rounds.                             *)
Runs(after, loop, start, n) ==
    after = [k \in 0 .. n |-> IF k = 0 THEN start ELSE Round(loop, k, after[k - 1])]

LEMMA LoopsRun ==
    ASSUME NEW loop, NEW start, NEW n \in Nat
    PROVE  \E after : Runs(after, loop, start, n)
  <1> DEFINE Bad == {k \in Nat : ~ \E after : Runs(after, loop, start, k)}
  <1> SUFFICES ASSUME Bad # {}
               PROVE  FALSE
    OBVIOUS
  <1>1. PICK k \in Bad : \A j \in Bad : k <= j
    <2>1. Bad \in SUBSET Nat
      OBVIOUS
    <2> HIDE DEF Bad
    <2> QED
      BY <2>1, LeastValue
  <1>2. k \in Nat /\ ~ \E after : Runs(after, loop, start, k)
    OBVIOUS
  <1>3. k # 0
    <2>1. SUFFICES ASSUME k = 0
                   PROVE  \E after : Runs(after, loop, start, k)
      BY <1>2
    <2>2. PICK after : after = [j \in 0 .. 0 |-> start]
      OBVIOUS
    <2>3. Runs(after, loop, start, 0)
      BY <2>2 DEF Runs
    <2> QED
      BY <2>1, <2>3
  <1>4. PICK before : Runs(before, loop, start, k - 1)
    <2>1. k - 1 \in Nat /\ ~(k <= k - 1)
      BY <1>2, <1>3
    <2>2. k - 1 \notin Bad
      BY <1>1, <2>1
    <2> QED
      BY <2>1, <2>2
  <1>5. PICK after : after = [j \in 0 .. k |-> IF j = k THEN Round(loop, k, before[k - 1]) ELSE before[j]]
    OBVIOUS
  <1>6. \A j \in 0 .. k : after[j] = IF j = 0 THEN start ELSE Round(loop, j, after[j - 1])
    <2>1. ASSUME NEW j \in 0 .. k
          PROVE  after[j] = IF j = 0 THEN start ELSE Round(loop, j, after[j - 1])
      <3>1. CASE j = k
        <4>1. after[k] = Round(loop, k, before[k - 1])
          BY <1>2, <1>5
        <4>2. after[k - 1] = before[k - 1]
          BY <1>2, <1>3, <1>5
        <4> QED
          BY <1>3, <3>1, <4>1, <4>2
      <3>2. CASE j # k
        <4>1. j \in 0 .. k - 1 /\ (j # 0 => j - 1 \in 0 .. k - 1)
          BY <1>2, <3>2
        <4>2. before[j] = IF j = 0 THEN start ELSE Round(loop, j, before[j - 1])
          BY <1>4, <4>1 DEF Runs
        <4>3. after[j] = before[j]
          BY <1>5, <3>2
        <4>4. j # 0 => after[j - 1] = before[j - 1]
          BY <1>2, <1>5, <3>2
        <4> QED
          BY <4>2, <4>3, <4>4
      <3> QED
        BY <3>1, <3>2
    <2> QED
      BY <2>1
  <1>7. after = [j \in 0 .. k |-> IF j = 0 THEN start ELSE Round(loop, j, after[j - 1])]
    <2>1. after = [j \in 0 .. k |-> after[j]]
      BY <1>5
    <2> QED
      BY <1>6, <2>1
  <1> QED
    BY <1>2, <1>7 DEF Runs

(* Halving, which depends on an earlier value than the last.               *)
Halves(g, n) ==
    g = [m \in 0 .. n |-> IF m <= 1 THEN 0 ELSE 1 + g[(m + 1) \div 2]]

LEMMA HalfIsLess ==
    ASSUME NEW m \in Nat, m > 1
    PROVE  (m + 1) \div 2 \in 1 .. m - 1
  OBVIOUS

LEMMA HalvesExist ==
    ASSUME NEW n \in Nat
    PROVE  \E g : Halves(g, n)
  <1> DEFINE Bad == {k \in Nat : ~ \E g : Halves(g, k)}
  <1> SUFFICES ASSUME Bad # {}
               PROVE  FALSE
    OBVIOUS
  <1>1. PICK k \in Bad : \A j \in Bad : k <= j
    <2>1. Bad \in SUBSET Nat
      OBVIOUS
    <2> HIDE DEF Bad
    <2> QED
      BY <2>1, LeastValue
  <1>2. k \in Nat /\ ~ \E g : Halves(g, k)
    OBVIOUS
  <1>3. k # 0
    <2>1. SUFFICES ASSUME k = 0
                   PROVE  \E g : Halves(g, k)
      BY <1>2
    <2>2. PICK g : g = [j \in 0 .. 0 |-> 0]
      OBVIOUS
    <2>3. Halves(g, 0)
      BY <2>2 DEF Halves
    <2> QED
      BY <2>1, <2>3
  <1>4. PICK before : Halves(before, k - 1)
    <2>1. k - 1 \in Nat /\ ~(k <= k - 1)
      BY <1>2, <1>3
    <2>2. k - 1 \notin Bad
      BY <1>1, <2>1
    <2> QED
      BY <2>1, <2>2
  <1>5. PICK g : g = [j \in 0 .. k |-> IF j = k THEN IF k <= 1 THEN 0 ELSE 1 + before[(k + 1) \div 2]
                                       ELSE before[j]]
    OBVIOUS
  <1>6. ASSUME NEW m \in 0 .. k
        PROVE  g[m] = IF m <= 1 THEN 0 ELSE 1 + g[(m + 1) \div 2]
    <2>1. m > 1 => (m + 1) \div 2 \in 0 .. k /\ (m + 1) \div 2 # k
      BY <1>2, HalfIsLess
    <2>2. m > 1 => g[(m + 1) \div 2] = before[(m + 1) \div 2]
      BY <1>5, <2>1
    <2>3. CASE m = k
      BY <1>2, <1>5, <2>2, <2>3
    <2>4. CASE m # k
      <3>1. m \in 0 .. k - 1
        BY <1>2, <2>4
      <3>2. before[m] = IF m <= 1 THEN 0 ELSE 1 + before[(m + 1) \div 2]
        BY <1>4, <3>1 DEF Halves
      <3>3. g[m] = before[m]
        BY <1>5, <2>4
      <3> QED
        BY <1>2, <2>2, <3>2, <3>3
    <2> QED
      BY <2>3, <2>4
  <1>7. g = [m \in 0 .. k |-> IF m <= 1 THEN 0 ELSE 1 + g[(m + 1) \div 2]]
    <2>1. g = [m \in 0 .. k |-> g[m]]
      BY <1>5
    <2> QED
      BY <1>6, <2>1
  <1> QED
    BY <1>2, <1>7 DEF Halves

LEMMA HalvesAgree ==
    ASSUME NEW a \in Nat, NEW b \in Nat, NEW g, Halves(g, a), NEW h, Halves(h, b),
           NEW n \in Nat, n <= a, n <= b
    PROVE  g[n] \in Nat /\ g[n] = h[n]
  <1> DEFINE Bad == {m \in 0 .. n : ~(g[m] \in Nat /\ g[m] = h[m])}
  <1> SUFFICES ASSUME Bad # {}
               PROVE  FALSE
    OBVIOUS
  <1>1. PICK m \in Bad : \A j \in Bad : m <= j
    <2>1. Bad \in SUBSET Nat
      OBVIOUS
    <2> HIDE DEF Bad
    <2> QED
      BY <2>1, LeastValue
  <1>2. m \in 0 .. n /\ ~(g[m] \in Nat /\ g[m] = h[m])
    OBVIOUS
  <1>3. /\ g[m] = IF m <= 1 THEN 0 ELSE 1 + g[(m + 1) \div 2]
        /\ h[m] = IF m <= 1 THEN 0 ELSE 1 + h[(m + 1) \div 2]
    BY <1>2 DEF Halves
  <1>4. CASE m <= 1
    BY <1>2, <1>3, <1>4
  <1>5. CASE m > 1
    <2>1. (m + 1) \div 2 \in 0 .. n /\ ~(m <= (m + 1) \div 2)
      BY <1>2, <1>5, HalfIsLess
    <2>2. g[(m + 1) \div 2] \in Nat /\ g[(m + 1) \div 2] = h[(m + 1) \div 2]
      BY <1>1, <2>1
    <2>3. ~(m <= 1)
      BY <1>2, <1>5
    <2> HIDE DEF Bad
    <2> QED
      BY <1>2, <1>3, <2>2, <2>3
  <1> QED
    BY <1>2, <1>4, <1>5

(* How high a tree is: combining a level leaves one round less to do.      *)
LEMMA HeightFacts ==
    ASSUME NEW n \in Nat
    PROVE  /\ Height(n) \in Nat
           /\ n <= 1 => Height(n) = 0
           /\ n > 1 => Height(n) = 1 + Height((n + 1) \div 2)
  <1>1. ASSUME NEW m \in Nat
        PROVE  \E g : Halves(g, m) /\ Height(m) = g[m]
    <2>1. PICK g : g = CHOOSE h : Halves(h, m)
      OBVIOUS
    <2>2. Halves(g, m)
      BY <1>1, <2>1, HalvesExist
    <2>3. Height(m) = g[m]
      BY <2>1 DEF Height, Halves
    <2> QED
      BY <2>2, <2>3
  <1>2. PICK g : Halves(g, n) /\ Height(n) = g[n]
    BY <1>1
  <1>3. g[n] \in Nat
    BY <1>2, HalvesAgree
  <1>4. g[n] = IF n <= 1 THEN 0 ELSE 1 + g[(n + 1) \div 2]
    BY <1>2 DEF Halves
  <1>5. ASSUME n > 1
        PROVE  Height(n) = 1 + Height((n + 1) \div 2)
    <2>1. PICK half \in Nat : half = (n + 1) \div 2 /\ half <= n
      BY <1>5, HalfIsLess
    <2>2. PICK h : Halves(h, half) /\ Height(half) = h[half]
      BY <1>1
    <2>3. half <= half
      BY <2>1
    <2>4. g[half] = h[half]
      BY <1>2, <2>1, <2>2, <2>3, HalvesAgree
    <2> QED
      BY <1>2, <1>4, <1>5, <2>1, <2>2, <2>4
  <1> QED
    BY <1>2, <1>3, <1>4, <1>5

(* A function on 1 .. m is a sequence of that length.                      *)
LEMMA OnInterval ==
    ASSUME NEW m \in Nat, NEW f, f = [i \in 1 .. m |-> f[i]]
    PROVE  Len(f) = m /\ DOMAIN f = 1 .. m
  <1>1. PICK R : R = {f[i] : i \in 1 .. m}
    OBVIOUS
  <1>2. f \in [1 .. m -> R]
    BY <1>1
  <1>3. f \in Seq(R)
    BY <1>2
  <1>4. DOMAIN f = 1 .. m
    BY <1>2
  <1>5. Len(f) \in Nat /\ DOMAIN f = 1 .. Len(f)
    BY <1>3
  <1> QED
    BY <1>4, <1>5

(* Hashes of different things differ, and determine what was hashed.       *)
LEMMA HashesDiffer ==
    ASSUME NEW tx, NEW left, NEW right
    PROVE  /\ HashOf(tx) # Combined(left, right)
           /\ HashOf(tx) # EmptyRoot
           /\ Combined(left, right) # EmptyRoot
  <1>1. DOMAIN HashOf(tx) = {"leaf"}
    BY DEF HashOf
  <1>2. DOMAIN Combined(left, right) = {"left", "right"}
    BY DEF Combined
  <1>3. DOMAIN EmptyRoot = {"empty"}
    BY DEF EmptyRoot
  <1>4. "leaf" # "left" /\ "leaf" # "empty" /\ "left" # "empty"
    OBVIOUS
  <1> QED
    BY <1>1, <1>2, <1>3, <1>4

LEMMA HashesDetermine ==
    /\ \A s, t : HashOf(s) = HashOf(t) => s = t
    /\ \A a, b, c, d : Combined(a, b) = Combined(c, d) => a = c /\ b = d
  <1>1. ASSUME NEW s, NEW t, HashOf(s) = HashOf(t)
        PROVE  s = t
    <2>1. HashOf(s).leaf = s /\ HashOf(t).leaf = t
      BY DEF HashOf
    <2> QED
      BY <1>1, <2>1
  <1>2. ASSUME NEW a, NEW b, NEW c, NEW d, Combined(a, b) = Combined(c, d)
        PROVE  a = c /\ b = d
    <2>1. Combined(a, b).left = a /\ Combined(c, d).left = c
          /\ Combined(a, b).right = b /\ Combined(c, d).right = d
      BY DEF Combined
    <2> QED
      BY <1>2, <2>1
  <1> QED
    BY <1>1, <1>2

-----------------------------------------------------------------------------
(* The tree of a block.                                                    *)

(* A level of the tree, of n hashes.                                       *)
IsLevel(level, n) ==
    n \in Nat /\ DOMAIN level = 1 .. n /\ Len(level) = n

LEMMA NextLevelFacts ==
    ASSUME NEW level, NEW n, IsLevel(level, n)
    PROVE  /\ IsLevel(NextLevel(level), (n + 1) \div 2)
           /\ \A i \in 1 .. (n + 1) \div 2 :
                  /\ 2 * i - 1 \in 1 .. n
                  /\ NextLevel(level)[i] =
                         Combined(level[2 * i - 1], IF 2 * i <= n THEN level[2 * i] ELSE level[2 * i - 1])
  <1>1. PICK half \in Nat : half = (n + 1) \div 2
    BY DEF IsLevel
  <1>2. PICK next : next = NextLevel(level)
    OBVIOUS
  <1>3. next = [i \in 1 .. half |->
                  Combined(level[2 * i - 1], IF 2 * i <= n THEN level[2 * i] ELSE level[2 * i - 1])]
    BY <1>1, <1>2 DEF NextLevel, IsLevel
  <1>4. next = [i \in 1 .. half |-> next[i]]
    BY <1>3
  <1>5. Len(next) = half /\ DOMAIN next = 1 .. half
    BY <1>4, OnInterval
  <1>6. \A i \in 1 .. half : 2 * i - 1 \in 1 .. n
    BY <1>1 DEF IsLevel
  <1> QED
    BY <1>1, <1>2, <1>3, <1>5, <1>6 DEF IsLevel

(* How wide a level is, seen from the height left above it.                *)
LevelsFit(tree, n) ==
    \A k \in 0 .. Height(n) :
        \E m \in Nat : IsLevel(tree[k], m) /\ Height(m) = Height(n) - k /\ (n >= 1 => m >= 1)

LEMMA TreeRuns ==
    ASSUME NEW transactions, NEW n \in Nat, IsLevel(transactions, n)
    PROVE  /\ Tree(transactions)[0] = [i \in 1 .. n |-> HashOf(transactions[i])]
           /\ \A k \in 1 .. Height(n) : Tree(transactions)[k] = NextLevel(Tree(transactions)[k - 1])
  <1>0. PICK tree : tree = Tree(transactions)
    OBVIOUS
  <1>8. Len(transactions) = n /\ DOMAIN transactions = 1 .. n
    BY DEF IsLevel
  <1>1. PICK h \in Nat : h = Height(n)
    BY HeightFacts
  <1>2. PICK leaves : leaves = [i \in 1 .. n |-> HashOf(transactions[i])]
    OBVIOUS
  <1>3. PICK loop : loop = [of |-> "tree"]
    OBVIOUS
  <1>4. tree = CHOOSE after : after = [k \in 0 .. h |-> IF k = 0 THEN leaves ELSE NextLevel(after[k - 1])]
    BY <1>0, <1>1, <1>2, <1>8 DEF Tree
  <1>5. \E after : after = [k \in 0 .. h |-> IF k = 0 THEN leaves ELSE NextLevel(after[k - 1])]
    <2>1. PICK after : Runs(after, loop, leaves, h)
      BY LoopsRun
    <2>2. \A k, v : Round(loop, k, v) = NextLevel(v)
      BY <1>3 DEF Round
    <2> QED
      BY <2>1, <2>2 DEF Runs
  <1>6. tree = [k \in 0 .. h |-> IF k = 0 THEN leaves ELSE NextLevel(tree[k - 1])]
    BY <1>4, <1>5
  <1>7. 0 \in 0 .. h /\ \A k \in 1 .. h : k \in 0 .. h /\ k # 0
    BY <1>1
  <1> QED
    BY <1>0, <1>1, <1>2, <1>6, <1>7

LEMMA TreeFits ==
    ASSUME NEW transactions, NEW n \in Nat, IsLevel(transactions, n)
    PROVE  LevelsFit(Tree(transactions), n)
  <1>0. PICK tree : tree = Tree(transactions)
    OBVIOUS
  <1>8. /\ tree[0] = [i \in 1 .. n |-> HashOf(transactions[i])]
        /\ \A k \in 1 .. Height(n) : tree[k] = NextLevel(tree[k - 1])
    BY <1>0, TreeRuns
  <1>1. Len(transactions) = n /\ DOMAIN transactions = 1 .. n
    BY DEF IsLevel
  <1>2. PICK h \in Nat : h = Height(n)
    BY HeightFacts
  <1> DEFINE Fits(k) == \E m \in Nat : IsLevel(tree[k], m) /\ Height(m) = h - k /\ (n >= 1 => m >= 1)
             Bad == {k \in 0 .. h : ~ Fits(k)}
  <1>3. SUFFICES ASSUME Bad # {}
                 PROVE  FALSE
    BY <1>0, <1>2 DEF LevelsFit
  <1>4. PICK k \in Bad : \A j \in Bad : k <= j
    <2>1. Bad \in SUBSET Nat
      OBVIOUS
    <2> HIDE DEF Bad
    <2> QED
      BY <1>3, <2>1, LeastValue
  <1>5. k \in 0 .. h /\ ~ Fits(k)
    OBVIOUS
  <1>6. CASE k = 0
    <2>1. tree[0] = [i \in 1 .. n |-> HashOf(transactions[i])]
      BY <1>8
    <2>2. tree[0] = [i \in 1 .. n |-> tree[0][i]]
      BY <2>1
    <2>3. IsLevel(tree[0], n)
      BY <2>2, OnInterval DEF IsLevel
    <2> QED
      BY <1>2, <1>5, <1>6, <2>3
  <1>7. CASE k # 0
    <2>1. k - 1 \in 0 .. h /\ ~(k <= k - 1) /\ k \in 1 .. h
      BY <1>5, <1>7
    <2>2. Fits(k - 1)
      <3>1. k - 1 \notin Bad
        BY <1>4, <2>1
      <3> QED
        BY <2>1, <3>1
    <2> HIDE DEF Bad
    <2>3. PICK m \in Nat : IsLevel(tree[k - 1], m) /\ Height(m) = h - (k - 1) /\ (n >= 1 => m >= 1)
      BY <2>2
    <2>4. tree[k] = NextLevel(tree[k - 1])
      BY <1>2, <1>8, <2>1
    <2>5. m > 1
      <3>1. Height(m) > 0
        BY <2>1, <2>3
      <3> QED
        BY <2>3, <3>1, HeightFacts
    <2>6. PICK half \in Nat : half = (m + 1) \div 2 /\ half >= 1
      BY <2>5, HalfIsLess
    <2>7. IsLevel(tree[k], half)
      BY <2>3, <2>4, <2>6, NextLevelFacts
    <2>8. Height(half) = h - k
      <3>1. Height(m) = 1 + Height(half) /\ Height(half) \in Nat
        BY <2>5, <2>6, HeightFacts
      <3> QED
        BY <2>1, <2>3, <3>1
    <2> QED
      BY <1>5, <2>6, <2>7, <2>8
  <1> QED
    BY <1>6, <1>7

LEMMA RootAtTheTop ==
    ASSUME NEW transactions, NEW n \in Nat \ {0}, IsLevel(transactions, n)
    PROVE  /\ CalculateRoot(transactions) = Tree(transactions)[Height(n)][1]
           /\ IsLevel(Tree(transactions)[Height(n)], 1)
  <1>0. PICK tree : tree = Tree(transactions)
    OBVIOUS
  <1>1. Len(transactions) = n /\ DOMAIN transactions = 1 .. n
    BY DEF IsLevel
  <1>2. transactions # <<>>
    <2>1. 1 \in DOMAIN transactions
      BY <1>1
    <2> QED
      BY <2>1
  <1>3. Height(n) \in Nat
    BY HeightFacts
  <1>4. PICK m \in Nat : IsLevel(tree[Height(n)], m) /\ Height(m) = Height(n) - Height(n) /\ m >= 1
    BY <1>0, <1>3, TreeFits DEF LevelsFit
  <1>5. m = 1
    <2>1. ASSUME m > 1
          PROVE  FALSE
      <3>1. Height((m + 1) \div 2) \in Nat
        BY <2>1, HalfIsLess, HeightFacts
      <3> QED
        BY <1>3, <1>4, <2>1, <3>1, HeightFacts
    <2> QED
      BY <1>4, <2>1
  <1> QED
    BY <1>0, <1>1, <1>2, <1>4, <1>5 DEF CalculateRoot

-----------------------------------------------------------------------------
(* What a proof can convince of.                                           *)

LEMMA HashesAlongProof ==
    ASSUME NEW proof, Len(proof.proof) \in Nat
    PROVE  /\ HashesAlong(proof)[0] = proof.transactionHash
           /\ \A k \in 1 .. Len(proof.proof) :
                  HashesAlong(proof)[k] = Above(proof.proof[k], HashesAlong(proof)[k - 1])
  <1>8. PICK m \in Nat : m = Len(proof.proof)
    OBVIOUS
  <1>9. PICK hash : hash = HashesAlong(proof)
    OBVIOUS
  <1>1. PICK first : first = proof.transactionHash
    OBVIOUS
  <1>2. PICK elements : elements = proof.proof
    OBVIOUS
  <1>3. PICK loop : loop = [of |-> "hash", proof |-> elements]
    OBVIOUS
  <1>4. hash = CHOOSE after : after = [k \in 0 .. m |-> IF k = 0 THEN first ELSE Above(elements[k], after[k - 1])]
    BY <1>1, <1>2, <1>8, <1>9 DEF HashesAlong
  <1>5. \E after : after = [k \in 0 .. m |-> IF k = 0 THEN first ELSE Above(elements[k], after[k - 1])]
    <2>1. PICK after : Runs(after, loop, first, m)
      BY LoopsRun
    <2>2. \A k, v : Round(loop, k, v) = Above(elements[k], v)
      BY <1>3 DEF Round
    <2> QED
      BY <2>1, <2>2 DEF Runs
  <1>6. hash = [k \in 0 .. m |-> IF k = 0 THEN first ELSE Above(elements[k], hash[k - 1])]
    BY <1>4, <1>5
  <1>7. 0 \in 0 .. m /\ \A k \in 1 .. m : k \in 0 .. m /\ k # 0
    OBVIOUS
  <1> QED
    BY <1>1, <1>2, <1>6, <1>7, <1>8, <1>9

(* A hash along a proof is combined from the one before.                   *)
LEMMA AboveCombines ==
    ASSUME NEW element, NEW hash
    PROVE  \E a, b : Above(element, hash) = Combined(a, b) /\ hash \in {a, b}
  <1>1. CASE element.direction = "left"
    BY <1>1 DEF Above
  <1>2. CASE element.direction # "left"
    BY <1>2 DEF Above
  <1> QED
    BY <1>1, <1>2

(* A node above the leaves combines two of the level below.                *)
LEMMA NodesAreCombined ==
    ASSUME NEW transactions, NEW n \in Nat, IsLevel(transactions, n),
           NEW k \in Nat, k + 1 <= Height(n), NEW i \in 1 .. Len(Tree(transactions)[k + 1])
    PROVE  \E x, y \in 1 .. Len(Tree(transactions)[k]) :
               Tree(transactions)[k + 1][i] = Combined(Tree(transactions)[k][x], Tree(transactions)[k][y])
  <1>0. PICK tree : tree = Tree(transactions)
    OBVIOUS
  <1>1. PICK h \in Nat : h = Height(n)
    BY HeightFacts
  <1>2. PICK w \in Nat : IsLevel(tree[k], w)
    <2>1. k \in 0 .. h /\ LevelsFit(tree, n)
      BY <1>0, <1>1, TreeFits
    <2> QED
      BY <1>1, <2>1 DEF LevelsFit
  <1>3. PICK level, next : level = tree[k] /\ next = tree[k + 1]
    OBVIOUS
  <1>4. next = NextLevel(level)
    <2>1. \A j \in 1 .. h : tree[j] = NextLevel(tree[j - 1])
      BY <1>0, <1>1, TreeRuns
    <2>2. k + 1 \in 1 .. h /\ (k + 1) - 1 = k
      BY <1>1
    <2>3. tree[k + 1] = NextLevel(tree[(k + 1) - 1])
      BY <2>1, <2>2
    <2> QED
      BY <1>3, <2>2, <2>3
  <1>5. /\ IsLevel(next, (w + 1) \div 2)
        /\ \A j \in 1 .. (w + 1) \div 2 :
               /\ 2 * j - 1 \in 1 .. w
               /\ next[j] = Combined(level[2 * j - 1], IF 2 * j <= w THEN level[2 * j] ELSE level[2 * j - 1])
    <2>1. IsLevel(level, w)
      BY <1>2, <1>3
    <2> QED
      BY <1>4, <2>1, NextLevelFacts
  <1>6. i \in 1 .. (w + 1) \div 2 /\ Len(level) = w
    BY <1>0, <1>2, <1>3, <1>5 DEF IsLevel
  <1>7. 2 * i <= w => 2 * i \in 1 .. w
    BY <1>6
  <1>8. /\ 2 * i - 1 \in 1 .. w
        /\ next[i] = Combined(level[2 * i - 1], IF 2 * i <= w THEN level[2 * i] ELSE level[2 * i - 1])
    BY <1>5, <1>6
  <1> QED
    BY <1>0, <1>3, <1>6, <1>7, <1>8

(* Downwards from the root, the hashes along a proof are nodes of the tree.*)
LEMMA HashesAreNodes ==
    ASSUME NEW transactions, NEW n \in Nat, n # 0, IsLevel(transactions, n),
           NEW proof, Len(proof.proof) \in Nat, VerifyProof(proof, CalculateRoot(transactions)),
           NEW j \in Nat, j <= Len(proof.proof), j <= Height(n)
    PROVE  \E i \in 1 .. Len(Tree(transactions)[Height(n) - j]) :
               HashesAlong(proof)[Len(proof.proof) - j] = Tree(transactions)[Height(n) - j][i]
  <1>7. PICK tree : tree = Tree(transactions)
    OBVIOUS
  <1>8. PICK m \in Nat : m = Len(proof.proof)
    OBVIOUS
  <1>9. PICK hash : hash = HashesAlong(proof)
    OBVIOUS
  <1>10. hash[m] = CalculateRoot(transactions)
    BY <1>8, <1>9 DEF VerifyProof
  <1>1. PICK h \in Nat : h = Height(n)
    BY HeightFacts
  <1> DEFINE IsNode(l) == \E i \in 1 .. Len(tree[h - l]) : hash[m - l] = tree[h - l][i]
             Bad == {l \in 0 .. j : ~ IsNode(l)}
  <1>2. SUFFICES ASSUME Bad # {}
                 PROVE  FALSE
    <2>1. j \in 0 .. j
      OBVIOUS
    <2>2. Bad = {} => IsNode(j)
      BY <2>1
    <2> HIDE DEF Bad
    <2> QED
      BY <1>1, <1>7, <1>8, <1>9, <2>2
  <1>3. PICK l \in Bad : \A k \in Bad : l <= k
    <2>1. Bad \in SUBSET Nat
      OBVIOUS
    <2> HIDE DEF Bad
    <2> QED
      BY <1>2, <2>1, LeastValue
  <1>4. l \in 0 .. j /\ ~ IsNode(l)
    OBVIOUS
  <1>5. CASE l = 0
    <2>1. CalculateRoot(transactions) = tree[h][1] /\ Len(tree[h]) = 1
      BY <1>1, <1>7, RootAtTheTop DEF IsLevel
    <2>2. h - l = h /\ m - l = m
      BY <1>5
    <2> HIDE DEF Bad
    <2> QED
      BY <1>4, <1>10, <2>1, <2>2
  <1>6. CASE l # 0
    <2>1. l - 1 \in 0 .. j /\ ~(l <= l - 1)
      BY <1>4, <1>6
    <2>2. IsNode(l - 1)
      <3>1. l - 1 \notin Bad
        BY <1>3, <2>1
      <3> QED
        BY <2>1, <3>1
    <2> HIDE DEF Bad
    <2>3. PICK b \in Nat : b = h - l
      BY <1>1, <1>4
    <2>4. PICK c \in Nat : c = m - l
      <3>1. l \in Nat /\ l <= m
        BY <1>4, <1>8
      <3>2. m - l \in Nat
        BY <3>1
      <3> QED
        BY <3>2
    <2>5. b + 1 = h - (l - 1) /\ c + 1 = m - (l - 1) /\ b + 1 \in 1 .. h /\ c + 1 \in 1 .. m
      BY <1>1, <1>4, <1>6, <1>8, <2>3, <2>4
    <2>6. PICK i \in 1 .. Len(tree[b + 1]) : hash[c + 1] = tree[b + 1][i]
      BY <2>2, <2>5
    <2>9. PICK x \in 1 .. Len(tree[b]), y \in 1 .. Len(tree[b]) : tree[b + 1][i] = Combined(tree[b][x], tree[b][y])
      <3>1. b + 1 <= Height(n)
        BY <1>1, <2>5
      <3>2. \A k \in 1 .. Len(Tree(transactions)[b + 1]) :
                \E x, y \in 1 .. Len(Tree(transactions)[b]) :
                    Tree(transactions)[b + 1][k] = Combined(Tree(transactions)[b][x], Tree(transactions)[b][y])
        BY <3>1, NodesAreCombined
      <3> QED
        BY <1>7, <2>6, <3>2
    <2>10. hash[c + 1] = Above(proof.proof[c + 1], hash[c])
      <3>1. \A k \in 1 .. m : hash[k] = Above(proof.proof[k], hash[k - 1])
        BY <1>8, <1>9, HashesAlongProof
      <3>2. (c + 1) - 1 = c
        BY <2>4
      <3> QED
        BY <2>5, <3>1, <3>2
    <2>11. PICK left, right : hash[c + 1] = Combined(left, right) /\ hash[c] \in {left, right}
      BY <2>10, AboveCombines
    <2>12. left = tree[b][x] /\ right = tree[b][y]
      BY <2>6, <2>9, <2>11, HashesDetermine
    <2> QED
      BY <1>4, <2>3, <2>4, <2>11, <2>12
  <1> QED
    BY <1>5, <1>6

(* Only a proof of a transaction of the block, as long as the tree is      *)
(* high, leads to the root.                                                *)
LEMMA OnlyMembersVerify ==
    ASSUME NEW transactions, NEW n \in Nat, IsLevel(transactions, n),
           NEW tx, NEW proof, Len(proof.proof) \in Nat,
           VerifyProof(proof, CalculateRoot(transactions)), proof.transactionHash = HashOf(tx)
    PROVE  Len(proof.proof) = Height(n) /\ \E i \in 1 .. n : transactions[i] = tx
  <1>0. PICK m \in Nat : m = Len(proof.proof)
    OBVIOUS
  <1>1. PICK hash : hash = HashesAlong(proof)
    OBVIOUS
  <1>2. hash[m] = CalculateRoot(transactions) /\ proof.transactionHash = HashOf(tx)
    BY <1>0, <1>1 DEF VerifyProof
  <1>3. hash[0] = HashOf(tx) /\ \A k \in 1 .. m : hash[k] = Above(proof.proof[k], hash[k - 1])
    BY <1>0, <1>1, <1>2, HashesAlongProof
  <1>4. ASSUME NEW k \in 1 .. m
        PROVE  \E a, b : hash[k] = Combined(a, b)
    BY <1>3, AboveCombines
  <1>5. n # 0
    <2>1. ASSUME n = 0
          PROVE  FALSE
      <3>1. transactions = <<>>
        BY <2>1 DEF IsLevel
      <3>2. hash[m] = EmptyRoot
        BY <1>2, <3>1 DEF CalculateRoot
      <3>3. CASE m = 0
        BY <1>3, <3>2, <3>3, HashesDiffer
      <3>4. CASE m # 0
        <4>1. m \in 1 .. m
          BY <3>4
        <4> QED
          BY <1>4, <3>2, <4>1, HashesDiffer
      <3> QED
        BY <3>3, <3>4
    <2> QED
      BY <2>1
  <1>6. PICK h \in Nat : h = Height(n)
    BY HeightFacts
  <1>7. PICK tree : tree = Tree(transactions)
    OBVIOUS
  <1>8. /\ tree[0] = [i \in 1 .. n |-> HashOf(transactions[i])]
        /\ \A k \in 1 .. h : tree[k] = NextLevel(tree[k - 1])
    BY <1>6, <1>7, TreeRuns
  <1>9. ASSUME NEW j \in Nat, j <= m, j <= h
        PROVE  \E i \in 1 .. Len(tree[h - j]) : hash[m - j] = tree[h - j][i]
    <2>1. j <= Len(proof.proof) /\ j <= Height(n)
      BY <1>0, <1>6, <1>9
    <2>2. \E i \in 1 .. Len(Tree(transactions)[Height(n) - j]) :
              HashesAlong(proof)[Len(proof.proof) - j] = Tree(transactions)[Height(n) - j][i]
      <3>1. j \in Nat
        BY <1>9
      <3>2. Len(proof.proof) \in Nat /\ VerifyProof(proof, CalculateRoot(transactions)) /\ IsLevel(transactions, n)
        OBVIOUS
      <3> QED
        BY <1>5, <2>1, <3>1, <3>2, HashesAreNodes, Z3
    <2> QED
      BY <1>0, <1>1, <1>6, <1>7, <2>2
  <1>10. IsLevel(tree[0], n)
    <2>1. tree[0] = [i \in 1 .. n |-> tree[0][i]]
      BY <1>8
    <2> QED
      BY <2>1, OnInterval DEF IsLevel
  <1>11. CASE m < h
    <2>1. PICK i \in 1 .. Len(tree[h - m]) : hash[0] = tree[h - m][i]
      <3>1. m <= m /\ m <= h /\ m - m = 0
        BY <1>11
      <3> QED
        BY <1>9, <3>1
    <2>2. PICK k \in Nat : k + 1 = h - m /\ k \in 0 .. h /\ k + 1 \in 1 .. h
      <3>1. h - m - 1 \in Nat /\ (h - m - 1) + 1 = h - m /\ h - m - 1 \in 0 .. h /\ h - m \in 1 .. h
        BY <1>11
      <3> QED
        BY <3>1
    <2>6. \E a, b : tree[k + 1][i] = Combined(a, b)
      <3>1. k + 1 <= Height(n) /\ i \in 1 .. Len(tree[k + 1])
        BY <1>6, <2>1, <2>2
      <3>2. \A l \in 1 .. Len(Tree(transactions)[k + 1]) :
                \E x, y \in 1 .. Len(Tree(transactions)[k]) :
                    Tree(transactions)[k + 1][l] = Combined(Tree(transactions)[k][x], Tree(transactions)[k][y])
        BY <3>1, NodesAreCombined
      <3> QED
        BY <1>7, <3>1, <3>2
    <2> QED
      BY <1>3, <2>1, <2>2, <2>6, HashesDiffer
  <1>12. CASE h < m
    <2>1. PICK i \in 1 .. Len(tree[0]) : hash[m - h] = tree[0][i]
      <3>1. h <= m /\ h <= h /\ h - h = 0
        BY <1>12
      <3> QED
        BY <1>9, <3>1
    <2>2. m - h \in 1 .. m
      BY <1>12
    <2>3. tree[0][i] = HashOf(transactions[i])
      BY <1>8, <1>10, <2>1 DEF IsLevel
    <2> QED
      BY <1>4, <2>1, <2>2, <2>3, HashesDiffer
  <1>13. CASE m = h
    <2>1. PICK i \in 1 .. Len(tree[0]) : hash[0] = tree[0][i]
      <3>1. h <= m /\ h <= h /\ h - h = 0 /\ m - h = 0
        BY <1>13
      <3> QED
        BY <1>9, <3>1
    <2>2. i \in 1 .. n /\ tree[0][i] = HashOf(transactions[i])
      BY <1>8, <1>10, <2>1 DEF IsLevel
    <2>3. transactions[i] = tx
      BY <1>3, <2>1, <2>2, HashesDetermine
    <2> QED
      BY <1>0, <1>6, <1>13, <2>2, <2>3
  <1> QED
    BY <1>0, <1>11, <1>12, <1>13

-----------------------------------------------------------------------------
(* What generateProof gives.                                                 *)

ElementOf(tree, k, index) ==
    [hash |-> tree[k][Sibling(index) + 1], direction |-> Direction(index)]

(* Everything a proof may be made of.                                        *)
ElementsOf(tree) ==
    {[hash |-> tree[k][i], direction |-> d] : k \in Nat, i \in Int, d \in {"left", "right"}}

(* One level up from the k-th.                                               *)
Climbed(tree, k, below) ==
    [index |-> below.index \div 2,
     proof |-> IF Sibling(below.index) < Len(tree[k])
               THEN Append(below.proof, ElementOf(tree, k, below.index))
               ELSE below.proof]

LEMMA ClimbRuns ==
    ASSUME NEW transactions, NEW n \in Nat, IsLevel(transactions, n), NEW leaf
    PROVE  /\ Climb(transactions, leaf)[0] = [index |-> leaf, proof |-> <<>>]
           /\ \A k \in 1 .. Height(n) :
                Climb(transactions, leaf)[k] = Climbed(Tree(transactions), k - 1, Climb(transactions, leaf)[k - 1])
  <1>1. PICK h \in Nat : h = Height(n) /\ Height(Len(transactions)) = h
    BY HeightFacts DEF IsLevel
  <1>2. PICK tree : tree = Tree(transactions)
    OBVIOUS
  <1>3. PICK climb : climb = Climb(transactions, leaf)
    OBVIOUS
  <1>4. PICK loop : loop = [of |-> "climb", tree |-> tree]
    OBVIOUS
  <1>5. PICK start : start = [index |-> leaf, proof |-> <<>>]
    OBVIOUS
  <1>6. climb = CHOOSE after : after = [k \in 0 .. h |-> IF k = 0 THEN start ELSE Climbed(tree, k - 1, after[k - 1])]
    BY <1>1, <1>2, <1>3, <1>5 DEF Climb, Climbed, ElementOf
  <1>7. \E after : after = [k \in 0 .. h |-> IF k = 0 THEN start ELSE Climbed(tree, k - 1, after[k - 1])]
    <2>1. PICK after : Runs(after, loop, start, h)
      BY LoopsRun
    <2>2. \A k, v : Round(loop, k, v) = Climbed(tree, k - 1, v)
      BY <1>4 DEF Round, Climbed, ElementOf
    <2> QED
      BY <2>1, <2>2 DEF Runs
  <1>8. climb = [k \in 0 .. h |-> IF k = 0 THEN start ELSE Climbed(tree, k - 1, climb[k - 1])]
    <2> QED
      BY <1>6, <1>7
  <1>9. climb[0] = start /\ \A k \in 1 .. h : climb[k] = Climbed(tree, k - 1, climb[k - 1])
    <2>1. 0 \in 0 .. h /\ \A k \in 1 .. h : k \in 0 .. h /\ k # 0
      BY <1>1
    <2> QED
      BY <1>8, <2>1
  <1> QED
    BY <1>1, <1>2, <1>3, <1>5, <1>9

LEMMA SiblingFacts ==
    ASSUME NEW p \in Nat
    PROVE  /\ Sibling(p) \in Nat
           /\ Direction(p) \in {"left", "right"}
           /\ p \div 2 \in Nat
           /\ \/ p = 2 * (p \div 2) /\ Sibling(p) = p + 1 /\ Direction(p) = "right"
              \/ p = 2 * (p \div 2) + 1 /\ Sibling(p) = p - 1 /\ Direction(p) = "left"
  <1>1. p % 2 \in {0, 1} /\ p = 2 * (p \div 2) + (p % 2) /\ p \div 2 \in Nat
    OBVIOUS
  <1> QED
    BY <1>1 DEF Sibling, Direction

(* After k levels: where the climb is, and what the proof has of each.       *)
OnPath(climb, tree, k) ==
    /\ climb[k].index \in 0 .. Len(tree[k]) - 1
    /\ climb[k].proof \in Seq(ElementsOf(tree))
    /\ Len(climb[k].proof) <= k
    /\ (Len(climb[k].proof) = k) <=> (\A j \in 0 .. k - 1 : Sibling(climb[j].index) < Len(tree[j]))
    /\ Len(climb[k].proof) = k =>
           \A j \in 0 .. k - 1 : climb[k].proof[j + 1] = ElementOf(tree, j, climb[j].index)

(* What is appended to a sequence.                                           *)
LEMMA Appended ==
    ASSUME NEW S, NEW s \in Seq(S), NEW e \in S
    PROVE  /\ Append(s, e) \in Seq(S) /\ Len(Append(s, e)) = Len(s) + 1
           /\ Append(s, e)[Len(s) + 1] = e
           /\ \A i \in 1 .. Len(s) : Append(s, e)[i] = s[i]
  OBVIOUS

LEMMA ClimbStays ==
    ASSUME NEW transactions, NEW n \in Nat, IsLevel(transactions, n), NEW leaf \in 0 .. n - 1,
           NEW k \in 0 .. Height(n)
    PROVE  OnPath(Climb(transactions, leaf), Tree(transactions), k)
  <1>1. PICK h \in Nat : h = Height(n)
    BY HeightFacts
  <1>2. PICK tree : tree = Tree(transactions)
    OBVIOUS
  <1>3. PICK climb : climb = Climb(transactions, leaf)
    OBVIOUS
  <1>4. /\ climb[0] = [index |-> leaf, proof |-> <<>>]
        /\ \A j \in 1 .. h :
             climb[j] = Climbed(tree, j - 1, climb[j - 1])
    BY <1>1, <1>2, <1>3, ClimbRuns
  <1> DEFINE Bad == {j \in 0 .. h : ~ OnPath(climb, tree, j)}
  <1>5. SUFFICES ASSUME Bad # {}
                 PROVE  FALSE
    BY <1>1, <1>2, <1>3
  <1>6. PICK l \in Bad : \A j \in Bad : l <= j
    <2>1. Bad \in SUBSET Nat
      OBVIOUS
    <2> HIDE DEF Bad
    <2> QED
      BY <1>5, <2>1, LeastValue
  <1>7. l \in 0 .. h /\ ~ OnPath(climb, tree, l)
    OBVIOUS
  <1>8. CASE l = 0
    <2>1. Len(tree[0]) = n
      <3>1. tree[0] = [i \in 1 .. n |-> HashOf(transactions[i])]
        BY <1>2, TreeRuns
      <3>2. tree[0] = [i \in 1 .. n |-> tree[0][i]]
        BY <3>1
      <3> QED
        BY <3>2, OnInterval
    <2>2. climb[0].index = leaf /\ climb[0].proof = <<>>
      BY <1>4
    <2>3. climb[0].proof \in Seq(ElementsOf(tree)) /\ Len(climb[0].proof) = 0
      BY <2>2
    <2>4. OnPath(climb, tree, 0)
      BY <2>1, <2>2, <2>3 DEF OnPath
    <2> HIDE DEF Bad
    <2> QED
      BY <1>7, <1>8, <2>4
  <1>9. CASE l # 0
    <2>1. PICK b \in Nat : b = l - 1 /\ l = b + 1 /\ b \in 0 .. h /\ l \in 1 .. h
      <3>1. l - 1 \in Nat /\ l = (l - 1) + 1 /\ l - 1 \in 0 .. h /\ l \in 1 .. h
        BY <1>7, <1>9
      <3> QED
        BY <3>1
    <2>2. OnPath(climb, tree, b)
      <3>1. ~ (l <= b)
        BY <2>1
      <3>2. b \notin Bad
        BY <1>6, <3>1
      <3> QED
        BY <2>1, <3>2
    <2> HIDE DEF Bad
    <2>3. PICK p \in Nat : p = climb[b].index
      BY <2>2 DEF OnPath
    <2>4. PICK before : before = climb[b].proof
      OBVIOUS
    <2>5. PICK element : element = ElementOf(tree, b, p)
      OBVIOUS
    <2>6. PICK w \in Nat : w = Len(tree[b]) /\ IsLevel(tree[b], w) /\ p \in 0 .. w - 1
      <3>1. LevelsFit(tree, n)
        BY <1>2, TreeFits
      <3>2. PICK w \in Nat : IsLevel(tree[b], w)
        BY <1>1, <2>1, <3>1 DEF LevelsFit
      <3> QED
        BY <2>2, <2>3, <3>2 DEF OnPath, IsLevel
    <2>7. climb[l].index = p \div 2
          /\ climb[l].proof = IF Sibling(p) < w THEN Append(before, element) ELSE before
      <3>1. climb[l] = Climbed(tree, b, climb[b])
        BY <1>4, <2>1
      <3> QED
        BY <2>3, <2>4, <2>5, <2>6, <3>1 DEF Climbed
    <2>8. before \in Seq(ElementsOf(tree)) /\ element \in ElementsOf(tree)
      <3>1. Sibling(p) + 1 \in Int /\ Direction(p) \in {"left", "right"}
        BY SiblingFacts
      <3>2. element = [hash |-> tree[b][Sibling(p) + 1], direction |-> Direction(p)]
        BY <2>5 DEF ElementOf
      <3>3. element \in ElementsOf(tree)
        BY <3>1, <3>2 DEF ElementsOf
      <3> QED
        BY <2>2, <2>4, <3>3 DEF OnPath
    <2>9. climb[l].index \in 0 .. Len(tree[l]) - 1
      <3>1. tree[l] = NextLevel(tree[b])
        BY <1>1, <1>2, <2>1, TreeRuns
      <3>2. Len(tree[l]) = (w + 1) \div 2
        BY <2>6, <3>1, NextLevelFacts DEF IsLevel
      <3>3. p \div 2 \in 0 .. (w + 1) \div 2 - 1
        <4>1. PICK q \in Nat : q = p \div 2 /\ 2 * q <= p
          BY SiblingFacts
        <4>2. PICK half \in Nat : half = (w + 1) \div 2 /\ w + 1 <= 2 * half + 1
          OBVIOUS
        <4>3. p <= w - 1
          BY <2>6
        <4> QED
          BY <4>1, <4>2, <4>3
      <3> QED
        BY <2>7, <3>2, <3>3
    <2>10. /\ Len(before) \in Nat /\ Len(before) <= b
           /\ (Len(before) = b) <=> (\A j \in 0 .. b - 1 : Sibling(climb[j].index) < Len(tree[j]))
           /\ Len(before) = b => \A j \in 0 .. b - 1 : before[j + 1] = ElementOf(tree, j, climb[j].index)
      BY <2>2, <2>4, <2>8 DEF OnPath
    <2>11. \A j \in 0 .. l - 1 : j = b \/ j \in 0 .. b - 1
      BY <2>1
    <2>12. b \in 0 .. l - 1 /\ \A j \in 0 .. b - 1 : j \in 0 .. l - 1
      BY <2>1
    <2>13. CASE Sibling(p) < w
      <3>1. PICK after : after = Append(before, element)
        OBVIOUS
      <3>2. /\ after \in Seq(ElementsOf(tree)) /\ Len(after) = Len(before) + 1
            /\ after[Len(before) + 1] = element
            /\ \A i \in 1 .. Len(before) : after[i] = before[i]
        BY <2>8, <3>1, Appended
      <3>3. climb[l].proof = after
        BY <2>7, <2>13, <3>1
      <3>4. (Len(after) = l) <=> (\A j \in 0 .. l - 1 : Sibling(climb[j].index) < Len(tree[j]))
        <4>1. Sibling(climb[b].index) < Len(tree[b])
          BY <2>3, <2>6, <2>13
        <4>2. (Len(after) = l) <=> (Len(before) = b)
          BY <2>1, <2>10, <3>2
        <4> QED
          BY <2>10, <2>11, <2>12, <4>1, <4>2
      <3>5. Len(after) = l => \A j \in 0 .. l - 1 : after[j + 1] = ElementOf(tree, j, climb[j].index)
        <4>1. SUFFICES ASSUME Len(before) = b, NEW j \in 0 .. l - 1
                       PROVE  after[j + 1] = ElementOf(tree, j, climb[j].index)
          BY <2>1, <2>10, <3>2
        <4>2. CASE j = b
          BY <2>3, <2>5, <3>2, <4>1, <4>2
        <4>3. CASE j \in 0 .. b - 1
          <5>1. j + 1 \in 1 .. Len(before)
            BY <4>1, <4>3
          <5> QED
            BY <2>10, <3>2, <4>1, <4>3, <5>1
        <4> QED
          BY <2>11, <4>2, <4>3
      <3>6. Len(after) <= l
        BY <2>1, <2>10, <3>2
      <3>7. OnPath(climb, tree, l)
        BY <2>9, <3>2, <3>3, <3>4, <3>5, <3>6 DEF OnPath
      <3> QED
        BY <1>7, <3>7
    <2>14. CASE ~ (Sibling(p) < w)
      <3>1. climb[l].proof = before
        BY <2>7, <2>14
      <3>2. Len(before) <= l /\ Len(before) # l
        BY <2>1, <2>10
      <3>3. ~ (Sibling(climb[b].index) < Len(tree[b]))
        BY <2>3, <2>6, <2>14
      <3>4. OnPath(climb, tree, l)
        BY <2>8, <2>9, <2>12, <3>1, <3>2, <3>3 DEF OnPath
      <3> QED
        BY <1>7, <3>4
    <2> QED
      BY <2>13, <2>14
  <1> QED
    BY <1>8, <1>9

(* The hashes along a proof that has an element of each level are the nodes  *)
(* of the tree on the way up.                                                *)
LEMMA PairedLeadsUp ==
    ASSUME NEW transactions, NEW n \in Nat, IsLevel(transactions, n), NEW leaf \in 0 .. n - 1,
           NEW climb, climb = Climb(transactions, leaf), NEW tree, tree = Tree(transactions),
           NEW proof, proof.proof = climb[Height(n)].proof, Len(proof.proof) = Height(n),
           proof.transactionHash = HashOf(transactions[leaf + 1]),
           NEW hash, hash = HashesAlong(proof),
           NEW k \in 0 .. Height(n)
    PROVE  hash[k] = tree[k][climb[k].index + 1]
  <1>1. PICK h \in Nat : h = Height(n)
    BY HeightFacts
  <1>2. /\ hash[0] = HashOf(transactions[leaf + 1])
        /\ \A j \in 1 .. h : hash[j] = Above(proof.proof[j], hash[j - 1])
    <2>1. Len(proof.proof) \in Nat
      BY <1>1
    <2>2. /\ HashesAlong(proof)[0] = proof.transactionHash
          /\ \A j \in 1 .. Len(proof.proof) :
                 HashesAlong(proof)[j] = Above(proof.proof[j], HashesAlong(proof)[j - 1])
      BY <2>1, HashesAlongProof
    <2> QED
      BY <1>1, <2>2
  <1>3. \A j \in 0 .. h : OnPath(climb, tree, j)
    BY <1>1, ClimbStays
  <1>4. \A j \in 0 .. h - 1 : /\ Sibling(climb[j].index) < Len(tree[j])
                              /\ proof.proof[j + 1] = ElementOf(tree, j, climb[j].index)
    <2>1. h \in 0 .. h
      BY <1>1
    <2> QED
      BY <1>1, <1>3, <2>1 DEF OnPath
  <1>5. /\ climb[0] = [index |-> leaf, proof |-> <<>>]
        /\ \A j \in 1 .. h : climb[j] = Climbed(tree, j - 1, climb[j - 1])
    BY <1>1, ClimbRuns
  <1>6. /\ tree[0] = [i \in 1 .. n |-> HashOf(transactions[i])]
        /\ \A j \in 1 .. h : tree[j] = NextLevel(tree[j - 1])
    BY <1>1, TreeRuns
  <1> DEFINE Right(j) == hash[j] = tree[j][climb[j].index + 1]
             Bad == {j \in 0 .. h : ~ Right(j)}
  <1>7. SUFFICES ASSUME Bad # {}
                 PROVE  FALSE
    BY <1>1
  <1>8. PICK l \in Bad : \A j \in Bad : l <= j
    <2>1. Bad \in SUBSET Nat
      OBVIOUS
    <2> HIDE DEF Bad
    <2> QED
      BY <1>7, <2>1, LeastValue
  <1>9. l \in 0 .. h /\ ~ Right(l)
    OBVIOUS
  <1>10. CASE l = 0
    <2>1. leaf + 1 \in 1 .. n
      OBVIOUS
    <2>2. Right(0)
      BY <1>2, <1>5, <1>6, <2>1
    <2> HIDE DEF Bad, Right
    <2> QED
      BY <1>9, <1>10, <2>2
  <1>11. CASE l # 0
    <2>1. PICK b \in Nat : b = l - 1 /\ l = b + 1 /\ b \in 0 .. h - 1 /\ b \in 0 .. h /\ l \in 1 .. h
      <3>1. /\ l - 1 \in Nat /\ l = (l - 1) + 1 /\ l - 1 \in 0 .. h - 1 /\ l - 1 \in 0 .. h
            /\ l \in 1 .. h
        BY <1>9, <1>11
      <3> QED
        BY <3>1
    <2>2. Right(b)
      <3>1. ~ (l <= b)
        BY <2>1
      <3>2. b \notin Bad
        BY <1>8, <3>1
      <3> QED
        BY <2>1, <3>2
    <2> HIDE DEF Bad
    <2>3. PICK w \in Nat : IsLevel(tree[b], w)
      BY <1>1, <2>1, TreeFits DEF LevelsFit
    <2>4. PICK p \in Nat : p = climb[b].index /\ p \in 0 .. w - 1
      <3>1. climb[b].index \in 0 .. w - 1
        BY <1>3, <2>1, <2>3 DEF OnPath, IsLevel
      <3> QED
        BY <3>1
    <2>5. Sibling(p) < w
      BY <1>4, <2>1, <2>3, <2>4 DEF IsLevel
    <2>6. PICK level : level = tree[b]
      OBVIOUS
    <2>7. PICK q \in Nat : q = p \div 2
      BY SiblingFacts
    <2>8. climb[l].index = q
      <3>1. climb[l] = Climbed(tree, b, climb[b])
        BY <1>5, <2>1
      <3> QED
        BY <2>4, <2>7, <3>1 DEF Climbed
    <2>9. hash[l] = Above(ElementOf(tree, b, p), level[p + 1])
      <3>1. hash[l] = Above(proof.proof[l], hash[b])
        BY <1>2, <2>1
      <3>2. hash[b] = level[p + 1]
        BY <2>2, <2>4, <2>6
      <3>3. proof.proof[l] = ElementOf(tree, b, p)
        BY <1>4, <2>1, <2>4
      <3> QED
        BY <3>1, <3>2, <3>3
    <2>10. 2 * q + 2 <= w
      <3>1. p <= w - 1
        BY <2>4
      <3>2. CASE p = 2 * q /\ Sibling(p) = p + 1
        BY <2>5, <3>2
      <3>3. CASE p = 2 * q + 1
        BY <3>1, <3>3
      <3> QED
        BY <2>7, <3>2, <3>3, SiblingFacts
    <2>11. tree[l][q + 1] = Combined(level[2 * q + 1], level[2 * q + 2])
      <3>1. tree[l] = NextLevel(level)
        BY <1>6, <2>1, <2>6
      <3>2. q + 1 \in 1 .. (w + 1) \div 2
        BY <2>10
      <3>3. \A i \in 1 .. (w + 1) \div 2 :
                NextLevel(level)[i] =
                    Combined(level[2 * i - 1], IF 2 * i <= w THEN level[2 * i] ELSE level[2 * i - 1])
        BY <2>3, <2>6, NextLevelFacts
      <3>4. 2 * (q + 1) = 2 * q + 2 /\ 2 * (q + 1) - 1 = 2 * q + 1
        OBVIOUS
      <3>5. NextLevel(level)[q + 1] =
                Combined(level[2 * (q + 1) - 1], IF 2 * (q + 1) <= w THEN level[2 * (q + 1)] ELSE level[2 * (q + 1) - 1])
        BY <3>2, <3>3
      <3> QED
        BY <2>10, <3>1, <3>4, <3>5
    <2>12. hash[l] = Combined(level[2 * q + 1], level[2 * q + 2])
      <3>1. PICK element : element = ElementOf(tree, b, p)
        OBVIOUS
      <3>2. element.hash = level[Sibling(p) + 1] /\ element.direction = Direction(p)
        BY <2>6, <3>1 DEF ElementOf
      <3>3. CASE p = 2 * q /\ Sibling(p) = p + 1 /\ Direction(p) = "right"
        <4>1. p + 1 = 2 * q + 1 /\ Sibling(p) + 1 = 2 * q + 2
          BY <3>3
        <4>2. hash[l] = Combined(level[p + 1], level[Sibling(p) + 1])
          BY <2>9, <3>1, <3>2, <3>3 DEF Above
        <4> QED
          BY <4>1, <4>2
      <3>4. CASE p = 2 * q + 1 /\ Sibling(p) = p - 1 /\ Direction(p) = "left"
        <4>1. p + 1 = 2 * q + 2 /\ Sibling(p) + 1 = 2 * q + 1
          BY <3>4
        <4>2. hash[l] = Combined(level[Sibling(p) + 1], level[p + 1])
          BY <2>9, <3>1, <3>2, <3>4 DEF Above
        <4> QED
          BY <4>1, <4>2
      <3> QED
        BY <2>7, <3>3, <3>4, SiblingFacts
    <2>13. Right(l)
      BY <2>8, <2>11, <2>12
    <2> QED
      BY <1>9, <2>13
  <1> QED
    BY <1>10, <1>11

(* The proof of a place in a block verifies exactly if no level was filled   *)
(* with a copy on its way.                                                   *)
LEMMA VerifiesIfPaired ==
    ASSUME NEW transactions, NEW n \in Nat, IsLevel(transactions, n), NEW leaf \in 0 .. n - 1,
           NEW proof, proof.proof = ProofElements(transactions, leaf),
           proof.transactionHash = HashOf(transactions[leaf + 1])
    PROVE  VerifyProof(proof, CalculateRoot(transactions)) <=> ~ Unpaired(transactions, leaf)
  <1>1. PICK h \in Nat : h = Height(n) /\ Height(Len(transactions)) = h
    BY HeightFacts DEF IsLevel
  <1>2. PICK tree : tree = Tree(transactions)
    OBVIOUS
  <1>3. PICK climb : climb = Climb(transactions, leaf)
    OBVIOUS
  <1>4. proof.proof = climb[h].proof
    BY <1>1, <1>3 DEF ProofElements
  <1>5. /\ climb[h].index \in 0 .. Len(tree[h]) - 1
        /\ Len(proof.proof) \in Nat
        /\ (Len(proof.proof) = h) <=> (\A j \in 0 .. h - 1 : Sibling(climb[j].index) < Len(tree[j]))
    <2>1. h \in 0 .. Height(n)
      BY <1>1
    <2>2. OnPath(climb, tree, h)
      BY <1>2, <1>3, <2>1, ClimbStays
    <2>3. Len(climb[h].proof) \in Nat
      BY <2>2 DEF OnPath
    <2> QED
      BY <1>4, <2>2, <2>3 DEF OnPath
  <1>6. Unpaired(transactions, leaf) <=> ~ (\A j \in 0 .. h - 1 : Sibling(climb[j].index) < Len(tree[j]))
    <2>1. ASSUME NEW j \in 0 .. h - 1
          PROVE  (Sibling(climb[j].index) >= Len(tree[j])) <=> ~ (Sibling(climb[j].index) < Len(tree[j]))
      <3>1. j \in 0 .. Height(n)
        BY <1>1
      <3>2. OnPath(climb, tree, j)
        BY <1>2, <1>3, <3>1, ClimbStays
      <3>3. PICK w \in Nat : IsLevel(tree[j], w)
        BY <1>2, <3>1, TreeFits DEF LevelsFit
      <3>4. PICK p \in Nat : p = climb[j].index
        BY <3>2, <3>3 DEF OnPath, IsLevel
      <3>5. PICK s \in Nat : s = Sibling(climb[j].index)
        BY <3>4, SiblingFacts
      <3>6. Len(tree[j]) = w
        BY <3>3 DEF IsLevel
      <3> QED
        BY <3>5, <3>6
    <2> QED
      BY <1>1, <1>2, <1>3, <2>1 DEF Unpaired
  <1>7. ASSUME VerifyProof(proof, CalculateRoot(transactions))
        PROVE  Len(proof.proof) = h
    BY <1>1, <1>5, <1>7, OnlyMembersVerify
  <1>8. ASSUME Len(proof.proof) = h
        PROVE  VerifyProof(proof, CalculateRoot(transactions))
    <2>1. n # 0
      OBVIOUS
    <2>2. /\ CalculateRoot(transactions) = tree[h][1]
          /\ Len(tree[h]) = 1
      <3>1. n \in Nat \ {0}
        BY <2>1
      <3> QED
        BY <1>1, <1>2, <3>1, RootAtTheTop DEF IsLevel
    <2>3. climb[h].index + 1 = 1
      BY <1>5, <2>2
    <2>4. PICK hash : hash = HashesAlong(proof)
      OBVIOUS
    <2>5. hash[h] = tree[h][climb[h].index + 1]
      <3>1. /\ proof.proof = climb[Height(n)].proof
            /\ Len(proof.proof) = Height(n)
            /\ h \in 0 .. Height(n)
        BY <1>1, <1>4, <1>8
      <3> QED
        BY <1>2, <1>3, <2>4, <3>1, PairedLeadsUp
    <2> QED
      BY <1>8, <2>2, <2>3, <2>4, <2>5 DEF VerifyProof
  <1> QED
    BY <1>5, <1>6, <1>7, <1>8

-----------------------------------------------------------------------------
(* The compressed form of a proof.                                           *)

Digit(a, b, c, d) == 8 * a + 4 * b + 2 * c + d

LEMMA DigitGivesBits ==
    ASSUME NEW a \in {0, 1}, NEW b \in {0, 1}, NEW c \in {0, 1}, NEW d \in {0, 1}
    PROVE  /\ (Digit(a, b, c, d) \div 8) % 2 = a
           /\ (Digit(a, b, c, d) \div 4) % 2 = b
           /\ (Digit(a, b, c, d) \div 2) % 2 = c
           /\ (Digit(a, b, c, d) \div 1) % 2 = d
  BY DEF Digit

(* The digits hold every bit, however many of the last digit are filling.    *)
LEMMA BitsComeBack ==
    ASSUME NEW bits \in Seq({0, 1})
    PROVE  \E g \in Nat : /\ Len(HexToBits(BitsToHex(bits))) = 4 * g /\ Len(bits) <= 4 * g
                          /\ \A i \in 1 .. Len(bits) : HexToBits(BitsToHex(bits))[i] = bits[i]
  <1>1. PICK n \in Nat : n = Len(bits)
    OBVIOUS
  <1>2. PICK z \in 0 .. 3 : z = (4 - (n % 4)) % 4
    OBVIOUS
  <1>3. PICK g \in Nat : n + z = 4 * g
    <2>1. n = 4 * (n \div 4) + (n % 4) /\ n \div 4 \in Nat /\ n % 4 \in 0 .. 3
      OBVIOUS
    <2>2. CASE n % 4 = 0
      <3>1. z = 0
        BY <1>2, <2>2
      <3>2. n + z = 4 * (n \div 4)
        BY <2>1, <2>2, <3>1
      <3> QED
        BY <2>1, <3>2
    <2>3. CASE n % 4 # 0
      <3>1. z = 4 - (n % 4)
        BY <1>2, <2>1, <2>3
      <3>2. n + z = 4 * (n \div 4 + 1) /\ n \div 4 + 1 \in Nat
        BY <2>1, <3>1
      <3> QED
        BY <3>2
    <2> QED
      BY <2>2, <2>3
  <1>4. PICK fill : fill = [i \in 1 .. z |-> 0]
    OBVIOUS
  <1>5. fill \in Seq({0, 1}) /\ Len(fill) = z
    <2>1. fill \in [1 .. z -> {0, 1}]
      BY <1>4
    <2>2. fill \in Seq({0, 1})
      BY <2>1
    <2>3. fill = [i \in 1 .. z |-> fill[i]]
      BY <1>4
    <2> QED
      BY <2>2, <2>3, OnInterval
  <1>6. PICK all : all = bits \o fill
    OBVIOUS
  <1>7. /\ all \in Seq({0, 1}) /\ Len(all) = 4 * g
        /\ \A i \in 1 .. n : all[i] = bits[i]
    <2>1. all \in Seq({0, 1})
      BY <1>5, <1>6
    <2>2. Len(all) = n + z
      BY <1>1, <1>5, <1>6
    <2>3. \A i \in 1 .. n : all[i] = bits[i]
      BY <1>1, <1>5, <1>6
    <2> QED
      BY <1>3, <2>1, <2>2, <2>3
  <1>8. Padded(bits) = all
    BY <1>1, <1>2, <1>4, <1>6 DEF Padded
  <1>9. PICK hex : hex = BitsToHex(bits)
    OBVIOUS
  <1>10. hex = [i \in 1 .. g |-> Digit(all[4 * i - 3], all[4 * i - 2], all[4 * i - 1], all[4 * i])]
    <2>1. (4 * g) \div 4 = g
      OBVIOUS
    <2> QED
      BY <1>7, <1>8, <1>9, <2>1 DEF BitsToHex, Digit
  <1>11. Len(hex) = g
    <2>1. hex = [i \in 1 .. g |-> hex[i]]
      BY <1>10
    <2> QED
      BY <2>1, OnInterval
  <1>12. PICK out : out = HexToBits(hex)
    OBVIOUS
  <1>13. PICK weight : weight = <<8, 4, 2, 1>>
    OBVIOUS
  <1>14. out = [i \in 1 .. 4 * g |-> (hex[(i + 3) \div 4] \div weight[1 + ((i + 3) % 4)]) % 2]
    BY <1>11, <1>12, <1>13 DEF HexToBits
  <1>15. Len(out) = 4 * g
    <2>1. out = [i \in 1 .. 4 * g |-> out[i]]
      BY <1>14
    <2> QED
      BY <2>1, OnInterval
  <1>16. ASSUME NEW i \in 1 .. 4 * g
         PROVE  out[i] = all[i]
    <2>1. PICK q \in 1 .. g, r \in 0 .. 3 : i = 4 * q - 3 + r /\ (i + 3) \div 4 = q /\ (i + 3) % 4 = r
      <3>1. PICK q \in Int, r \in Int : q = (i + 3) \div 4 /\ r = (i + 3) % 4
        OBVIOUS
      <3>2. i + 3 = 4 * q + r /\ r \in 0 .. 3
        BY <3>1
      <3>3. q \in 1 .. g
        BY <3>2
      <3> QED
        BY <3>1, <3>2, <3>3
    <2>2. PICK a \in {0, 1}, b \in {0, 1}, c \in {0, 1}, d \in {0, 1} :
              a = all[4 * q - 3] /\ b = all[4 * q - 2] /\ c = all[4 * q - 1] /\ d = all[4 * q]
      <3>1. /\ 4 * q - 3 \in 1 .. 4 * g /\ 4 * q - 2 \in 1 .. 4 * g
            /\ 4 * q - 1 \in 1 .. 4 * g /\ 4 * q \in 1 .. 4 * g
        BY <2>1
      <3>2. \A j \in 1 .. 4 * g : all[j] \in {0, 1}
        BY <1>7
      <3>3. /\ all[4 * q - 3] \in {0, 1} /\ all[4 * q - 2] \in {0, 1}
            /\ all[4 * q - 1] \in {0, 1} /\ all[4 * q] \in {0, 1}
        BY <3>1, <3>2
      <3> QED
        BY <3>3
    <2>3. /\ (Digit(a, b, c, d) \div 8) % 2 = a
           /\ (Digit(a, b, c, d) \div 4) % 2 = b
           /\ (Digit(a, b, c, d) \div 2) % 2 = c
           /\ (Digit(a, b, c, d) \div 1) % 2 = d
      <3>1. a \in {0, 1} /\ b \in {0, 1} /\ c \in {0, 1} /\ d \in {0, 1}
        BY <2>2
      <3> QED
        BY <3>1, DigitGivesBits
    <2>4. hex[q] = Digit(a, b, c, d)
      BY <1>10, <2>1, <2>2
    <2>5. out[i] = (Digit(a, b, c, d) \div weight[1 + r]) % 2
      BY <1>14, <2>1, <2>4
    <2>6. CASE r = 0
      <3>1. weight[1 + r] = 8 /\ i = 4 * q - 3
        BY <1>13, <2>1, <2>6
      <3> QED
        BY <2>2, <2>5, <2>3, <3>1
    <2>7. CASE r = 1
      <3>1. weight[1 + r] = 4 /\ i = 4 * q - 2
        BY <1>13, <2>1, <2>7
      <3> QED
        BY <2>2, <2>5, <2>3, <3>1
    <2>8. CASE r = 2
      <3>1. weight[1 + r] = 2 /\ i = 4 * q - 1
        BY <1>13, <2>1, <2>8
      <3> QED
        BY <2>2, <2>5, <2>3, <3>1
    <2>9. CASE r = 3
      <3>1. weight[1 + r] = 1 /\ i = 4 * q
        BY <1>13, <2>1, <2>9
      <3> QED
        BY <2>2, <2>5, <2>3, <3>1
    <2>10. r = 0 \/ r = 1 \/ r = 2 \/ r = 3
      BY <2>1
    <2> QED
      BY <2>6, <2>7, <2>8, <2>9, <2>10
  <1>17. \A i \in 1 .. n : out[i] = bits[i]
    <2>1. \A i \in 1 .. n : i \in 1 .. 4 * g
      BY <1>3
    <2> QED
      BY <1>7, <1>16, <2>1
  <1>18. n <= 4 * g
    BY <1>3
  <1> QED
    BY <1>1, <1>9, <1>12, <1>15, <1>17, <1>18

LEMMA LeastOfTwo ==
    ASSUME NEW a \in Nat, NEW b \in Nat, a <= b
    PROVE  Min({b, a}) = a
  BY DEF Min

(* decompressProof gives back every proof that compressProof is given.       *)
LEMMA ProofComesBack ==
    ASSUME NEW tree, NEW p, p.proof \in Seq(ElementsOf(tree)),
           p = [transactionId |-> p.transactionId, transactionHash |-> p.transactionHash,
                merkleRoot |-> p.merkleRoot, proof |-> p.proof, leafIndex |-> p.leafIndex]
    PROVE  DecompressProof(CompressProof(p)) = p
  <1>1. PICK path : path = p.proof
    OBVIOUS
  <1>2. PICK n \in Nat : n = Len(path) /\ DOMAIN path = 1 .. n
    BY <1>1
  <1>3. \A i \in 1 .. n : /\ path[i] = [hash |-> path[i].hash, direction |-> path[i].direction]
                          /\ path[i].direction \in {"left", "right"}
    BY <1>1, <1>2 DEF ElementsOf
  <1>4. PICK bits : bits = [i \in 1 .. n |-> BitOf(path[i].direction)]
    OBVIOUS
  <1>5. bits \in Seq({0, 1}) /\ Len(bits) = n
    <2>1. bits \in [1 .. n -> {0, 1}]
      BY <1>4 DEF BitOf
    <2>2. bits \in Seq({0, 1})
      BY <2>1
    <2>3. bits = [i \in 1 .. n |-> bits[i]]
      BY <1>4
    <2> QED
      BY <2>2, <2>3, OnInterval
  <1>6. PICK hashes : hashes = [i \in 1 .. n |-> path[i].hash]
    OBVIOUS
  <1>7. Len(hashes) = n
    <2>1. hashes = [i \in 1 .. n |-> hashes[i]]
      BY <1>6
    <2> QED
      BY <2>1, OnInterval
  <1>8. PICK hex : hex = BitsToHex(bits)
    OBVIOUS
  <1>9. PICK c : c = CompressProof(p)
    OBVIOUS
  <1>10. c = [txId |-> p.transactionId, txHash |-> p.transactionHash, root |-> p.merkleRoot,
              index |-> p.leafIndex, path |-> [hex |-> hex, hashes |-> hashes]]
    BY <1>1, <1>2, <1>4, <1>6, <1>8, <1>9 DEF CompressProof
  <1>11. PICK out : out = HexToBits(hex)
    OBVIOUS
  <1>12. PICK g \in Nat : Len(out) = 4 * g /\ n <= 4 * g /\ \A i \in 1 .. n : out[i] = bits[i]
    BY <1>5, <1>8, <1>11, BitsComeBack
  <1>13. Min({Len(out), Len(hashes)}) = n
    <2>1. 4 * g \in Nat
      OBVIOUS
    <2> QED
      BY <1>7, <1>12, <2>1, LeastOfTwo
  <1>14. DecompressProof(c) =
             [transactionId |-> p.transactionId, transactionHash |-> p.transactionHash,
              merkleRoot |-> p.merkleRoot, leafIndex |-> p.leafIndex,
              proof |-> [i \in 1 .. n |-> [hash |-> hashes[i], direction |-> IF out[i] = 0 THEN "left" ELSE "right"]]]
    BY <1>10, <1>11, <1>13 DEF DecompressProof
  <1>15. \A i \in 1 .. n : path[i] = [hash |-> hashes[i], direction |-> IF out[i] = 0 THEN "left" ELSE "right"]
    <2>1. ASSUME NEW i \in 1 .. n
          PROVE  (IF out[i] = 0 THEN "left" ELSE "right") = path[i].direction
      <3>1. out[i] = BitOf(path[i].direction)
        BY <1>4, <1>12
      <3>2. CASE path[i].direction = "left"
        <4>1. out[i] = 0
          BY <3>1, <3>2 DEF BitOf
        <4> QED
          BY <3>2, <4>1
      <3>3. CASE path[i].direction = "right"
        <4>1. out[i] = 1
          BY <3>1, <3>3 DEF BitOf
        <4>2. out[i] # 0
          BY <4>1
        <4> QED
          BY <3>3, <4>2
      <3> QED
        BY <1>3, <3>2, <3>3
    <2> QED
      BY <1>3, <1>6, <2>1
  <1>16. path = [i \in 1 .. n |-> [hash |-> hashes[i], direction |-> IF out[i] = 0 THEN "left" ELSE "right"]]
    <2>1. path = [i \in 1 .. n |-> path[i]]
      BY <1>1, <1>2
    <2> QED
      BY <1>15, <2>1
  <1> QED
    BY <1>1, <1>9, <1>14, <1>16

-----------------------------------------------------------------------------
(* The block of a behaviour, and what its holder accepts.                    *)

LEMMA SequencesAreLevels ==
    ASSUME NEW s \in Seq(Nat)
    PROVE  IsLevel(s, Len(s))
  BY DEF IsLevel

LEMMA FirstPlace ==
    ASSUME NEW ts, NEW n \in Nat, IsLevel(ts, n), NEW tx \in ToSet(ts)
    PROVE  /\ SelectInSeq(ts, LAMBDA t : t = tx) \in 1 .. n
           /\ ts[SelectInSeq(ts, LAMBDA t : t = tx)] = tx
  <1>1. PICK places : places = {i \in 1 .. Len(ts) : ts[i] = tx}
    OBVIOUS
  <1>2. places \in SUBSET Nat /\ places # {}
    BY <1>1 DEF ToSet, IsLevel
  <1>3. PICK v \in places : \A x \in places : v <= x
    BY <1>2, LeastValue
  <1>4. PICK first : first = Min(places)
    OBVIOUS
  <1>5. first \in places
    BY <1>3, <1>4 DEF Min
  <1>6. SelectInSeq(ts, LAMBDA t : t = tx) = first
    BY <1>1, <1>2, <1>4 DEF SelectInSeq
  <1> QED
    BY <1>1, <1>5, <1>6 DEF IsLevel

LEMMA GeneratedProof ==
    ASSUME NEW ts, NEW n \in Nat, IsLevel(ts, n), NEW tx \in ToSet(ts)
    PROVE  \E leaf \in 0 .. n - 1 :
               /\ leaf = SelectInSeq(ts, LAMBDA t : t = tx) - 1
               /\ ts[leaf + 1] = tx
               /\ GenerateProof(ts, tx) =
                      [transactionId |-> tx, transactionHash |-> HashOf(tx), merkleRoot |-> CalculateRoot(ts),
                       proof |-> ProofElements(ts, leaf), leafIndex |-> leaf]
               /\ ProofElements(ts, leaf) \in Seq(ElementsOf(Tree(ts)))
  <1>1. PICK place \in 1 .. n : place = SelectInSeq(ts, LAMBDA t : t = tx) /\ ts[place] = tx
    BY FirstPlace
  <1>2. PICK leaf \in 0 .. n - 1 : leaf = place - 1
    <2>1. place - 1 \in 0 .. n - 1
      BY <1>1
    <2> QED
      BY <2>1
  <1>3. ts[leaf + 1] = tx
    BY <1>1, <1>2
  <1>4. GenerateProof(ts, tx) =
            [transactionId |-> tx, transactionHash |-> HashOf(tx), merkleRoot |-> CalculateRoot(ts),
             proof |-> ProofElements(ts, leaf), leafIndex |-> leaf]
    BY <1>1, <1>2 DEF GenerateProof
  <1>5. Len(ts) = n
    BY DEF IsLevel
  <1>6. Height(n) \in 0 .. Height(n)
    BY HeightFacts
  <1>7. OnPath(Climb(ts, leaf), Tree(ts), Height(n))
    BY <1>6, ClimbStays
  <1>8. ProofElements(ts, leaf) \in Seq(ElementsOf(Tree(ts)))
    BY <1>5, <1>7 DEF OnPath, ProofElements
  <1> QED
    BY <1>1, <1>2, <1>3, <1>4, <1>8

(* The transactions are all that changes of the block.                       *)
BlockInv ==
    /\ block = [index |-> 1, timestamp |-> 2, previousHash |-> "g", hash |-> "b", zeros |-> 1,
                transactions |-> block.transactions]
    /\ block.transactions \in Seq(Nat)

LEMMA BlockHeader ==
    ASSUME BlockInv
    PROVE  /\ ValidateBlockHeader(HeaderOf(block), HeaderOf(Genesis))
           /\ BasicHeaderValid(HeaderOf(block))
           /\ HeaderOf(block).merkleRoot = CalculateRoot(block.transactions)
  <1>1. PICK ts \in Seq(Nat) : ts = block.transactions
    BY DEF BlockInv
  <1>2. block = [index |-> 1, timestamp |-> 2, previousHash |-> "g", hash |-> "b", zeros |-> 1, transactions |-> ts]
    BY <1>1 DEF BlockInv
  <1>3. HeaderOf(block) = [index |-> 1, timestamp |-> 2, previousHash |-> "g", hash |-> "b",
                           merkleRoot |-> CalculateRoot(ts), transactionCount |-> Len(ts),
                           difficulty |-> 0, zeros |-> 1]
    BY <1>2 DEF HeaderOf
  <1>4. /\ HeaderOf(Genesis).index = 0
        /\ HeaderOf(Genesis).hash = "g"
        /\ HeaderOf(Genesis).timestamp = 1
    BY DEF HeaderOf, Genesis
  <1>5. BasicHeaderValid(HeaderOf(block))
    BY <1>3 DEF BasicHeaderValid
  <1>6. ValidateBlockHeader(HeaderOf(block), HeaderOf(Genesis))
    BY <1>3, <1>4, <1>5 DEF ValidateBlockHeader
  <1> QED
    BY <1>1, <1>3, <1>5, <1>6

(* With a fitting header, it is the proof that decides.                      *)
LEMMA AcceptedByProof ==
    ASSUME BlockInv, NEW tx, NEW proof
    PROVE  Accepts(tx, proof) <=> /\ VerifyProof(proof, CalculateRoot(block.transactions))
                                  /\ proof.transactionHash = HashOf(tx)
                                  /\ proof.transactionId = tx
  BY BlockHeader DEF Accepts, VerifyTransaction, VerifyTransactionInBlock

LEMMA ExactlyIfPaired ==
    ASSUME BlockInv
    PROVE  ProvableExactlyIfPaired
  <1>1. SUFFICES ASSUME NEW tx \in ToSet(block.transactions),
                        NEW proof, proof = DecompressProof(CompressProof(GenerateProof(block.transactions, tx))),
                        NEW utxo, utxo = [txId |-> tx, lockingScript |-> "key"]
                 PROVE  /\ Accepts(tx, proof) <=> ~ Unpaired(block.transactions, First(tx))
                        /\ Accepts(tx, proof) => ValidateUTXOOwnership(utxo, proof, HeaderOf(block), "key")
    BY DEF ProvableExactlyIfPaired
  <1>2. PICK ts \in Seq(Nat) : ts = block.transactions
    BY DEF BlockInv
  <1>3. PICK n \in Nat : IsLevel(ts, n)
    BY SequencesAreLevels
  <1>4. PICK leaf \in 0 .. n - 1 :
               /\ leaf = SelectInSeq(ts, LAMBDA t : t = tx) - 1
               /\ ts[leaf + 1] = tx
               /\ GenerateProof(ts, tx) =
                      [transactionId |-> tx, transactionHash |-> HashOf(tx), merkleRoot |-> CalculateRoot(ts),
                       proof |-> ProofElements(ts, leaf), leafIndex |-> leaf]
               /\ ProofElements(ts, leaf) \in Seq(ElementsOf(Tree(ts)))
    BY <1>1, <1>2, <1>3, GeneratedProof
  <1>5. First(tx) = leaf
    BY <1>2, <1>4 DEF First
  <1>6. PICK given : given = GenerateProof(ts, tx)
    OBVIOUS
  <1>7. /\ given = [transactionId |-> given.transactionId, transactionHash |-> given.transactionHash,
                    merkleRoot |-> given.merkleRoot, proof |-> given.proof, leafIndex |-> given.leafIndex]
        /\ given.proof = ProofElements(ts, leaf)
        /\ given.transactionHash = HashOf(tx)
        /\ given.transactionId = tx
    BY <1>4, <1>6
  <1>8. given.proof \in Seq(ElementsOf(Tree(ts)))
    BY <1>4, <1>7
  <1>9. proof = given
    BY <1>1, <1>2, <1>6, <1>7, <1>8, ProofComesBack
  <1>10. given.transactionHash = HashOf(ts[leaf + 1])
    BY <1>4, <1>7
  <1>11. VerifyProof(given, CalculateRoot(ts)) <=> ~ Unpaired(ts, leaf)
    BY <1>3, <1>7, <1>10, VerifiesIfPaired
  <1>12. Accepts(tx, proof) <=> VerifyProof(given, CalculateRoot(ts))
    BY <1>2, <1>7, <1>9, AcceptedByProof
  <1>13. Accepts(tx, proof) => ValidateUTXOOwnership(utxo, proof, HeaderOf(block), "key")
    BY <1>1, <1>2, <1>7, <1>9, <1>12, BlockHeader DEF ValidateUTXOOwnership
  <1> QED
    BY <1>2, <1>5, <1>11, <1>12, <1>13

LEMMA OtherBlocksAreLevels ==
    ASSUME BlockInv, NEW other \in OtherBlocks
    PROVE  \E m \in Nat : IsLevel(other, m)
  <1>1. PICK ts \in Seq(Nat) : ts = block.transactions
    BY DEF BlockInv
  <1>2. \/ other = Reverse(ts)
        \/ other = Front(ts)
        \/ other = Append(ts, 0)
    BY <1>1 DEF OtherBlocks
  <1>3. CASE other = Reverse(ts)
    <2>1. PICK n \in Nat : n = Len(ts)
      OBVIOUS
    <2>2. other = [i \in 1 .. n |-> ts[n - i + 1]]
      BY <1>3, <2>1 DEF Reverse
    <2>3. other = [i \in 1 .. n |-> other[i]]
      BY <2>2
    <2> QED
      BY <2>3, OnInterval DEF IsLevel
  <1>4. CASE other = Front(ts)
    <2>1. CASE ts = <<>>
      <3>1. other = <<>>
        BY <1>4, <2>1 DEF Front
      <3> QED
        BY <3>1 DEF IsLevel
    <2>2. CASE ts # <<>>
      <3>1. other \in Seq(Nat)
        BY <1>4, <2>2 DEF Front
      <3> QED
        BY <3>1, SequencesAreLevels
    <2> QED
      BY <2>1, <2>2
  <1>5. CASE other = Append(ts, 0)
    <2>1. other \in Seq(Nat)
      BY <1>5
    <2> QED
      BY <2>1, SequencesAreLevels
  <1> QED
    BY <1>2, <1>3, <1>4, <1>5

LEMMA OnlyOwn ==
    ASSUME BlockInv
    PROVE  OnlyOwnTransactionsAccepted
  <1>1. SUFFICES ASSUME NEW other \in OtherBlocks, NEW tx \in ToSet(other), NEW claimed,
                        Accepts(claimed, GenerateProof(other, tx))
                 PROVE  claimed \in ToSet(block.transactions)
    BY DEF OnlyOwnTransactionsAccepted
  <1>2. PICK ts \in Seq(Nat) : ts = block.transactions
    BY DEF BlockInv
  <1>3. PICK n \in Nat : IsLevel(ts, n)
    BY SequencesAreLevels
  <1>4. PICK m \in Nat : IsLevel(other, m)
    BY OtherBlocksAreLevels
  <1>5. PICK proof : proof = GenerateProof(other, tx)
    OBVIOUS
  <1>6. Len(proof.proof) \in Nat
    <2>1. PICK leaf \in 0 .. m - 1 :
               /\ GenerateProof(other, tx) =
                      [transactionId |-> tx, transactionHash |-> HashOf(tx), merkleRoot |-> CalculateRoot(other),
                       proof |-> ProofElements(other, leaf), leafIndex |-> leaf]
               /\ ProofElements(other, leaf) \in Seq(ElementsOf(Tree(other)))
      BY <1>1, <1>4, GeneratedProof
    <2>2. proof.proof \in Seq(ElementsOf(Tree(other)))
      BY <1>5, <2>1
    <2> QED
      BY <2>2
  <1>7. VerifyProof(proof, CalculateRoot(ts)) /\ proof.transactionHash = HashOf(claimed)
    BY <1>1, <1>2, <1>5, AcceptedByProof
  <1>8. PICK i \in 1 .. n : ts[i] = claimed
    BY <1>3, <1>6, <1>7, OnlyMembersVerify
  <1> QED
    BY <1>2, <1>3, <1>8 DEF ToSet, IsLevel

LEMMA BlockStep ==
    ASSUME BlockInv, [AlgorithmsNext]_algorithmVars
    PROVE  BlockInv'
  <1>1. CASE AddTransaction
    <2>1. PICK n \in Nat : block' = [block EXCEPT !.transactions = Append(@, n)]
      <3>1. PICK length \in Nat : length = Len(block.transactions)
        BY DEF BlockInv
      <3>2. PICK least \in Nat : least = IF length < 3 THEN 1 ELSE length + 1
        BY <3>1
      <3>3. PICK n \in least .. length + 1 : block' = [block EXCEPT !.transactions = Append(@, n)]
        BY <1>1, <3>1, <3>2 DEF AddTransaction
      <3>4. n \in Nat
        BY <3>3
      <3> QED
        BY <3>3, <3>4, Zenon
    <2>2. PICK ts \in Seq(Nat) : ts = block.transactions
      BY DEF BlockInv
    <2>3. block = [index |-> 1, timestamp |-> 2, previousHash |-> "g", hash |-> "b", zeros |-> 1, transactions |-> ts]
      BY <2>2 DEF BlockInv
    <2>4. /\ block' = [index |-> 1, timestamp |-> 2, previousHash |-> "g", hash |-> "b", zeros |-> 1,
                       transactions |-> Append(ts, n)]
          /\ block'.transactions = Append(ts, n)
      BY <2>1, <2>3
    <2>5. Append(ts, n) \in Seq(Nat)
      OBVIOUS
    <2>6. (block.transactions)' = Append(ts, n)
      BY <2>4
    <2> QED
      BY <2>4, <2>5, <2>6 DEF BlockInv
  <1>2. CASE UNCHANGED block
    BY <1>2 DEF BlockInv
  <1>3. AddTransaction \/ UNCHANGED block
    BY DEF AlgorithmsNext, Rest, DownloadsStep, samples, algorithmVars, Type, AddOutput
  <1> QED
    BY <1>1, <1>2, <1>3

(* A proof made for a transaction of a block convinces whoever has the header, *)
(* after it was compressed too, exactly if no level of the tree was filled     *)
(* with a copy on its way; and no proof that another block gives convinces of  *)
(* a transaction that the block does not hold (generateProof, compressProof,   *)
(* verifyProof and verifyTransaction, for blocks of any length).               *)
THEOREM ProofsSoundTheorem == AlgorithmsSpec => []ProofsSound
  <1>1. AlgorithmsInit => BlockInv
    <2>1. ASSUME AlgorithmsInit
          PROVE  BlockInv
      <3>1. block = EmptyBlock
        BY <2>1 DEF AlgorithmsInit
      <3> QED
        BY <3>1 DEF BlockInv, EmptyBlock
    <2> QED
      BY <2>1
  <1>2. BlockInv /\ [AlgorithmsNext]_algorithmVars => BlockInv'
    BY BlockStep
  <1>3. BlockInv => ProofsSound
    BY ExactlyIfPaired, OnlyOwn DEF ProofsSound
  <1> QED
    BY <1>1, <1>2, <1>3, PTL DEF AlgorithmsSpec

(***************************************************************************)
(* A recursive function does what its recursion says, for the recursion    *)
(* has a solution: one is built rank by rank                               *)
(***************************************************************************)

(* A recursion over the elements of D that takes i to the value at J[i] of a *)
(* smaller rank has a solution, whose values are in V if the step F stays in *)
(* V.  Where the recursion ends, F does not look at the value.               *)
Descends(D, V, rank, J, F) ==
    \A i \in D : rank[J[i]] < rank[i] \/ \A v, w \in V : F[<<i, v>>] = F[<<i, w>>]

IsSolution(f, D, V, J, F) ==
    f \in [D -> V] /\ \A i \in D : f[i] = F[<<i, f[J[i]]>>]

LEMMA RecursionSolved ==
    ASSUME NEW D, NEW V, V # {}, NEW m \in Nat, NEW rank \in [D -> 0 .. m],
           NEW J \in [D -> D], NEW F \in [D \X V -> V], Descends(D, V, rank, J, F)
    PROVE  \E f : IsSolution(f, D, V, J, F)
  <1> DEFINE Good(k) == \E f \in [D -> V] : \A i \in D : rank[i] < k => f[i] = F[<<i, f[J[i]]>>]
             Bad == {k \in Nat : ~Good(k)}
  <1>1. Bad = {}
    <2> SUFFICES ASSUME Bad # {}
                 PROVE  FALSE
      OBVIOUS
    <2>1. PICK k \in Bad : \A j \in Bad : k <= j
      <3>1. Bad \in SUBSET Nat
        OBVIOUS
      <3> HIDE DEF Bad
      <3> QED
        BY <3>1, LeastValue
    <2>2. k \in Nat /\ ~Good(k)
      OBVIOUS
    <2>3. k # 0
      <3>1. PICK v \in V : TRUE
        OBVIOUS
      <3>2. PICK f : f = [i \in D |-> v]
        OBVIOUS
      <3>4. f \in [D -> V]
        BY <3>1, <3>2
      <3>3. \A i \in D : ~(rank[i] < 0)
        OBVIOUS
      <3> QED
        BY <2>2, <3>3, <3>4
    <2>4. k - 1 \in Nat /\ k - 1 \notin Bad
      BY <2>1, <2>2, <2>3
    <2>5. PICK f \in [D -> V] : \A i \in D : rank[i] < k - 1 => f[i] = F[<<i, f[J[i]]>>]
      BY <2>4
    <2>6. PICK g : g = [i \in D |-> IF rank[i] = k - 1 THEN F[<<i, f[J[i]]>>] ELSE f[i]]
      OBVIOUS
    <2>7. g \in [D -> V]
      BY <2>6
    <2>8. ASSUME NEW i \in D, rank[i] < k
          PROVE  g[i] = F[<<i, g[J[i]]>>]
      <3>1. J[i] \in D /\ f[J[i]] \in V /\ g[J[i]] \in V
        BY <2>7
      <3>2. F[<<i, g[J[i]]>>] = F[<<i, f[J[i]]>>]
        <4>1. CASE rank[J[i]] < rank[i]
          <5>1. rank[J[i]] # k - 1
            BY <2>2, <2>8, <3>1, <4>1
          <5>2. g[J[i]] = f[J[i]]
            BY <2>6, <3>1, <5>1
          <5> QED
            BY <5>2
        <4>2. CASE ~(rank[J[i]] < rank[i])
          BY <3>1, <4>2 DEF Descends
        <4> QED
          BY <4>1, <4>2
      <3>3. CASE rank[i] = k - 1
        BY <2>6, <3>2, <3>3
      <3>4. CASE rank[i] # k - 1
        <4>1. rank[i] < k - 1
          BY <2>2, <2>8, <3>4
        <4> QED
          BY <2>5, <2>6, <3>2, <3>4, <4>1
      <3> QED
        BY <3>3, <3>4
    <2> QED
      BY <2>2, <2>7, <2>8
  <1>2. Good(m + 1)
    <2>1. m + 1 \in Nat
      OBVIOUS
    <2> HIDE DEF Good
    <2> QED
      BY <1>1, <2>1
  <1>3. PICK f \in [D -> V] : \A i \in D : rank[i] < m + 1 => f[i] = F[<<i, f[J[i]]>>]
    BY <1>2
  <1> QED
    BY <1>3 DEF IsSolution

LEMMA OfPairs ==
    ASSUME NEW D, NEW V, NEW F, F = [p \in D \X V |-> F[p]],
           \A i \in D : \A v \in V : F[<<i, v>>] \in V
    PROVE  F \in [D \X V -> V]
  BY SMTT(30)

(* From 0 up, from the value before.                                        *)
IsAscent(f, n, V, base, F) ==
    f \in [0 .. n -> V] /\ \A k \in 0 .. n : f[k] = IF k = 0 THEN base ELSE F[<<k, f[k - 1]>>]

LEMMA AscentSolved ==
    ASSUME NEW n \in Nat, NEW V, NEW base \in V, NEW F \in [(0 .. n) \X V -> V]
    PROVE  \E f : IsAscent(f, n, V, base, F)
  <1>1. PICK D : D = 0 .. n
    OBVIOUS
  <1>2. PICK rank : rank = [k \in D |-> k]
    OBVIOUS
  <1>3. PICK J : J = [k \in D |-> IF k = 0 THEN 0 ELSE k - 1]
    OBVIOUS
  <1>4. PICK G : G = [p \in D \X V |-> IF p[1] = 0 THEN base ELSE F[p]]
    OBVIOUS
  <1>5. rank \in [D -> 0 .. n] /\ J \in [D -> D]
    BY <1>1, <1>2, <1>3
  <1>6. \A k \in D : \A v \in V : G[<<k, v>>] = IF k = 0 THEN base ELSE F[<<k, v>>]
    BY <1>4
  <1>7. G \in [D \X V -> V]
    BY <1>1, <1>4
  <1>8. Descends(D, V, rank, J, G)
    <2>1. ASSUME NEW i \in D, i # 0
          PROVE  rank[J[i]] < rank[i]
      BY <1>1, <1>2, <1>3, <2>1
    <2> QED
      BY <1>6, <2>1 DEF Descends
  <1>9. PICK f : IsSolution(f, D, V, J, G)
    <2>1. V # {}
      OBVIOUS
    <2> QED
      BY <1>5, <1>7, <1>8, <2>1, RecursionSolved
  <1>10. \A k \in D : f[k] = IF k = 0 THEN base ELSE F[<<k, f[k - 1]>>]
    BY <1>3, <1>5, <1>6, <1>9 DEF IsSolution
  <1> QED
    BY <1>1, <1>9, <1>10 DEF IsSolution, IsAscent

(* From b down to a, from the value after.                                  *)
IsDescent(f, a, b, V, base, F) ==
    f \in [a .. b -> V] /\ \A k \in a .. b : f[k] = IF k = b THEN base ELSE F[<<k, f[k + 1]>>]

LEMMA DescentSolved ==
    ASSUME NEW a \in Int, NEW b \in Int, a <= b, NEW V, NEW base \in V,
           NEW F \in [(a .. b) \X V -> V]
    PROVE  \E f : IsDescent(f, a, b, V, base, F)
  <1>1. PICK D : D = a .. b
    OBVIOUS
  <1>2. PICK rank : rank = [k \in D |-> b - k]
    OBVIOUS
  <1>3. PICK J : J = [k \in D |-> IF k = b THEN b ELSE k + 1]
    OBVIOUS
  <1>4. PICK G : G = [p \in D \X V |-> IF p[1] = b THEN base ELSE F[p]]
    OBVIOUS
  <1>5. rank \in [D -> 0 .. b - a] /\ J \in [D -> D] /\ b - a \in Nat
    BY <1>1, <1>2, <1>3
  <1>6. \A k \in D : \A v \in V : G[<<k, v>>] = IF k = b THEN base ELSE F[<<k, v>>]
    BY <1>4
  <1>7. G \in [D \X V -> V]
    BY <1>1, <1>4
  <1>8. Descends(D, V, rank, J, G)
    <2>1. ASSUME NEW i \in D, i # b
          PROVE  rank[J[i]] < rank[i]
      BY <1>1, <1>2, <1>3, <2>1
    <2> QED
      BY <1>6, <2>1 DEF Descends
  <1>9. PICK f : IsSolution(f, D, V, J, G)
    <2>1. V # {}
      OBVIOUS
    <2> QED
      BY <1>5, <1>7, <1>8, <2>1, RecursionSolved
  <1>10. \A k \in D : f[k] = IF k = b THEN base ELSE F[<<k, f[k + 1]>>]
    BY <1>3, <1>5, <1>6, <1>9 DEF IsSolution
  <1> QED
    BY <1>1, <1>9, <1>10 DEF IsSolution, IsDescent

(***************************************************************************)
(* Amounts written in groups of seven bits, and read back from wherever    *)
(* they are                                                                *)
(***************************************************************************)

LEMMA SevenBitsOff ==
    ASSUME NEW v \in Nat
    PROVE  /\ v \div 128 \in Nat
           /\ v % 128 \in 0 .. 127
           /\ v = (v % 128) + 128 * (v \div 128)
           /\ v >= 128 => v \div 128 < v
           /\ v < 128 => v % 256 = v
  OBVIOUS

(* The bytes s of v, each with what is left of v when it is written.        *)
IsVarint(s, left, v) ==
    /\ s \in Seq(0 .. 255) /\ left \in Seq(Nat)
    /\ Len(left) = Len(s) /\ Len(s) >= 1 /\ left[1] = v
    /\ \A j \in 1 .. Len(s) - 1 :
           /\ s[j] = 128 + (left[j] % 128)
           /\ left[j + 1] = left[j] \div 128
    /\ left[Len(s)] < 128 /\ s[Len(s)] = left[Len(s)]

LEMMA OneMoreByte ==
    ASSUME NEW s, NEW left, NEW v \in Nat, v >= 128, IsVarint(s, left, v \div 128)
    PROVE  \E more : IsVarint(<<128 + (v % 128)>> \o s, more, v)
  <1>1. PICK n \in Nat : n = Len(s) /\ n >= 1
    BY DEF IsVarint
  <1>2. PICK t, more : t = <<128 + (v % 128)>> \o s /\ more = <<v>> \o left
    OBVIOUS
  <1>3. /\ s \in Seq(0 .. 255) /\ left \in Seq(Nat) /\ Len(left) = n
    BY <1>1 DEF IsVarint
  <1>4. 128 + (v % 128) \in 0 .. 255
    BY SevenBitsOff
  <1>5. /\ t \in Seq(0 .. 255) /\ Len(t) = n + 1 /\ t[1] = 128 + (v % 128)
        /\ \A j \in 1 .. n : t[j + 1] = s[j]
    BY <1>1, <1>2, <1>3, <1>4
  <1>6. /\ more \in Seq(Nat) /\ Len(more) = n + 1 /\ more[1] = v
        /\ \A j \in 1 .. n : more[j + 1] = left[j]
    BY <1>1, <1>2, <1>3
  <1>7. ASSUME NEW j \in 1 .. n
        PROVE  /\ t[j] = 128 + (more[j] % 128)
               /\ more[j + 1] = more[j] \div 128
    <2>1. CASE j = 1
      <3>1. more[2] = v \div 128
        BY <1>1, <1>6, <2>1 DEF IsVarint
      <3> QED
        BY <1>5, <1>6, <2>1, <3>1
    <2>2. CASE j # 1
      <3>1. PICK k \in 1 .. n - 1 : j = k + 1
        BY <2>2
      <3>2. s[k] = 128 + (left[k] % 128) /\ left[k + 1] = left[k] \div 128
        BY <1>1, <3>1 DEF IsVarint
      <3>3. k \in 1 .. n /\ k + 1 \in 1 .. n
        BY <1>1, <3>1
      <3>4. t[k + 1] = s[k] /\ more[k + 1] = left[k] /\ more[(k + 1) + 1] = left[k + 1]
        BY <1>5, <1>6, <3>3
      <3> QED
        BY <3>1, <3>2, <3>4
    <2> QED
      BY <2>1, <2>2
  <1>8. left[n] < 128 /\ s[n] = left[n]
    BY <1>1 DEF IsVarint
  <1>9. more[n + 1] < 128 /\ t[n + 1] = more[n + 1]
    BY <1>1, <1>5, <1>6, <1>8
  <1>10. Len(t) - 1 = n
    BY <1>1, <1>5
  <1>11. IsVarint(t, more, v)
    BY <1>1, <1>5, <1>6, <1>7, <1>9, <1>10 DEF IsVarint
  <1> QED
    BY <1>2, <1>11

LEMMA VarintBytes ==
    ASSUME NEW value \in Nat
    PROVE  \E left : IsVarint(EncodeVarint(value), left, value)
  <1> DEFINE D == 0 .. value
             V == Seq(0 .. 255)
             Body(g) == [v \in 0 .. value |->
                            IF FitsOneByte(v) THEN <<v % 256>> ELSE <<128 + (v % 128)>> \o g[v \div 128]]
  <1>1. PICK rank : rank = [v \in D |-> v]
    OBVIOUS
  <1>2. PICK J : J = [v \in D |-> IF v < 128 THEN v ELSE v \div 128]
    OBVIOUS
  <1>3. PICK F : F = [p \in D \X V |-> IF p[1] < 128 THEN <<p[1] % 256>> ELSE <<128 + (p[1] % 128)>> \o p[2]]
    OBVIOUS
  <1>4. rank \in [D -> 0 .. value]
    BY <1>1
  <1>5. ASSUME NEW v \in D, v >= 128
        PROVE  v \div 128 \in D /\ v \div 128 < v
    BY <1>5, SevenBitsOff
  <1>6. J \in [D -> D]
    BY <1>2, <1>5
  <1>7. \A v \in D : \A s \in V :
            F[<<v, s>>] = IF v < 128 THEN <<v % 256>> ELSE <<128 + (v % 128)>> \o s
    BY <1>3
  <1>8. F \in [D \X V -> V]
    <2>1. ASSUME NEW v \in D, NEW s \in V
          PROVE  F[<<v, s>>] \in V
      <3>1. v % 256 \in 0 .. 255 /\ 128 + (v % 128) \in 0 .. 255
        OBVIOUS
      <3>2. <<v % 256>> \in V /\ <<128 + (v % 128)>> \o s \in V
        BY <3>1
      <3> QED
        BY <1>7, <3>2, ZenonT(60)
    <2>2. F = [p \in D \X V |-> F[p]]
      BY <1>3
    <2> HIDE DEF V, D
    <2> QED
      BY <2>1, <2>2, OfPairs
  <1>9. Descends(D, V, rank, J, F)
    <2>1. ASSUME NEW v \in D, v >= 128
          PROVE  rank[J[v]] < rank[v]
      BY <1>1, <1>2, <1>5, <2>1
    <2>2. ASSUME NEW v \in D, ~(v >= 128), NEW s \in V, NEW t \in V
          PROVE  F[<<v, s>>] = F[<<v, t>>]
      <3>1. v < 128
        BY <2>2
      <3>2. \A r \in V : F[<<v, r>>] = <<v % 256>>
        BY <1>7, <3>1
      <3> HIDE DEF V, D
      <3> QED
        BY <3>2
    <2> HIDE DEF V, D
    <2> QED
      BY <2>1, <2>2 DEF Descends
  <1>10. <<>> \in V
    OBVIOUS
  <1>11. PICK f : IsSolution(f, D, V, J, F)
    <2>1. V # {}
      BY <1>10
    <2> HIDE DEF V, D
    <2> QED
      BY <1>4, <1>6, <1>8, <1>9, <2>1, RecursionSolved
  <1>12. \A v \in D : f[v] = IF FitsOneByte(v) THEN <<v % 256>> ELSE <<128 + (v % 128)>> \o f[v \div 128]
    <2>1. f \in [D -> V] /\ \A v \in D : f[v] = F[<<v, f[J[v]]>>]
      BY <1>11 DEF IsSolution
    <2>2. ASSUME NEW v \in D
          PROVE  f[v] = IF v < 128 THEN <<v % 256>> ELSE <<128 + (v % 128)>> \o f[J[v]]
      <3>1. f[J[v]] \in V
        BY <1>6, <2>1
      <3> HIDE DEF V, D
      <3> QED
        BY <1>7, <2>1, <3>1, ZenonT(60)
    <2>3. \A v \in D : ~(v < 128) => J[v] = v \div 128
      BY <1>2
    <2> QED
      BY <2>2, <2>3, ZenonT(60) DEF FitsOneByte
  <1>13. f = Body(f)
    <2>1. f = [v \in D |-> f[v]]
      BY <1>11 DEF IsSolution
    <2> QED
      BY <1>12, <2>1
  <1>14. PICK g : g = CHOOSE h : h = Body(h)
    OBVIOUS
  <1>15. EncodeVarint(value) = g[value]
    BY <1>14 DEF EncodeVarint
  <1> HIDE DEF Body
  <1>16. g = Body(g)
    BY <1>13, <1>14
  <1>17. \A v \in D : g[v] = IF v < 128 THEN <<v % 256>> ELSE <<128 + (v % 128)>> \o g[v \div 128]
    BY <1>16 DEF Body, FitsOneByte
  <1> DEFINE Bad == {v \in D : ~ \E left : IsVarint(g[v], left, v)}
  <1>18. Bad = {}
    <2> SUFFICES ASSUME Bad # {}
                 PROVE  FALSE
      OBVIOUS
    <2>1. PICK v \in Bad : \A j \in Bad : v <= j
      <3>1. Bad \in SUBSET Nat
        OBVIOUS
      <3> HIDE DEF Bad
      <3> QED
        BY <3>1, LeastValue
    <2>2. v \in D /\ v \in Nat /\ ~ \E left : IsVarint(g[v], left, v)
      OBVIOUS
    <2>3. CASE v < 128
      <3>1. g[v] = <<v>>
        BY <1>17, <2>2, <2>3, SevenBitsOff
      <3>2. PICK left : left = <<v>>
        OBVIOUS
      <3>3. IsVarint(g[v], left, v)
        BY <2>2, <2>3, <3>1, <3>2 DEF IsVarint
      <3> QED
        BY <2>2, <3>3
    <2>4. CASE ~(v < 128)
      <3>1. v \div 128 \in D /\ v \div 128 < v /\ v \div 128 \in Nat
        BY <1>5, <2>2, <2>4
      <3>2. v \div 128 \notin Bad
        BY <2>1, <2>2, <3>1
      <3>3. PICK left : IsVarint(g[v \div 128], left, v \div 128)
        BY <3>1, <3>2
      <3>4. g[v] = <<128 + (v % 128)>> \o g[v \div 128]
        BY <1>17, <2>2, <2>4
      <3>5. v >= 128
        BY <2>2, <2>4
      <3>6. \E more : IsVarint(<<128 + (v % 128)>> \o g[v \div 128], more, v)
        BY <2>2, <3>3, <3>5, OneMoreByte
      <3> QED
        BY <2>2, <3>4, <3>6
    <2> QED
      BY <2>3, <2>4
  <1>19. value \in D
    OBVIOUS
  <1> QED
    BY <1>15, <1>18, <1>19

(* s is in z from place i.                                                  *)
Holds(z, i, s) ==
    i + Len(s) - 1 <= Len(z) /\ \A j \in 1 .. Len(s) : z[i + j - 1] = s[j]

LEMMA VarintRead ==
    ASSUME NEW U, NEW z \in Seq(U), NEW i \in Nat \ {0}, NEW v \in Nat,
           NEW s, NEW left, IsVarint(s, left, v), Holds(z, i, s)
    PROVE  ReadVarint(z, i) = [value |-> v, read |-> Len(s)]
  <1> DEFINE EndBody(g) == [k \in i .. Len(z) + 1 |->
                               IF k > Len(z) THEN 0 ELSE IF z[k] < 128 THEN k ELSE g[k + 1]]
             ValueBody(g, last) == [k \in i .. last |->
                               IF k = last THEN z[k] ELSE (z[k] % 128) + 128 * g[k + 1]]
  <1>1. PICK n \in Nat : n = Len(s) /\ n >= 1
    BY DEF IsVarint
  <1>2. PICK m \in Nat : m = Len(z)
    OBVIOUS
  <1>3. PICK b \in Nat : b = i + n - 1 /\ b >= i
    BY <1>1
  <1>18. s \in Seq(0 .. 255) /\ left \in Seq(Nat) /\ Len(left) = n
    BY <1>1 DEF IsVarint
  <1>4. /\ \A j \in 1 .. n : s[j] \in 0 .. 255 /\ left[j] \in Nat /\ z[i + j - 1] = s[j]
        /\ b <= m
    <2>1. \A j \in 1 .. n : s[j] \in 0 .. 255 /\ left[j] \in Nat
      BY <1>1, <1>18
    <2>2. (\A j \in 1 .. n : z[i + j - 1] = s[j]) /\ i + n - 1 <= m
      BY <1>1, <1>2 DEF Holds
    <2> QED
      BY <1>3, <2>1, <2>2
  <1>5. ASSUME NEW j \in 1 .. n - 1
        PROVE  /\ z[i + j - 1] = 128 + (left[j] % 128)
               /\ left[j + 1] = left[j] \div 128
    <2>1. j \in 1 .. n
      BY <1>1
    <2> QED
      BY <1>1, <1>4, <2>1 DEF IsVarint
  <1>6. z[b] = left[n] /\ left[n] < 128 /\ left[n] \in Nat /\ left[1] = v
    BY <1>1, <1>3, <1>4 DEF IsVarint
  <1>7. \A k \in i .. b : z[k] \in Nat
    <2>1. ASSUME NEW k \in i .. b
          PROVE  z[k] \in Nat
      <3>1. PICK j \in 1 .. n : k = i + j - 1
        <4>1. k - i + 1 \in 1 .. n /\ k = i + (k - i + 1) - 1
          BY <1>1, <1>3
        <4> QED
          BY <4>1
      <3>3. z[i + j - 1] = s[j]
        BY <1>4, <3>1
      <3>4. s[j] \in Nat
        <4>1. s[j] \in 0 .. 255
          BY <1>4, <3>1
        <4>2. \A x \in 0 .. 255 : x \in Nat
          OBVIOUS
        <4> QED
          BY <4>1, <4>2
      <3>2. z[i + j - 1] \in Nat
        BY Zenon, <3>3, <3>4
      <3> QED
        BY Zenon, <3>1, <3>2
    <2> QED
      BY <2>1
  <1>8. PICK e : e = CHOOSE h : h = EndBody(h)
    OBVIOUS
  <1>9. e = EndBody(e)
    <2>1. PICK F : F = [p \in (i .. m + 1) \X Int |-> IF z[p[1]] < 128 THEN p[1] ELSE p[2]]
      OBVIOUS
    <2>2. \A k \in i .. m + 1 : \A w \in Int : F[<<k, w>>] = IF z[k] < 128 THEN k ELSE w
      BY <2>1
    <2>3. F \in [(i .. m + 1) \X Int -> Int]
      <3>1. ASSUME NEW k \in i .. m + 1, NEW w \in Int
            PROVE  F[<<k, w>>] \in Int
        <4>1. F[<<k, w>>] = IF z[k] < 128 THEN k ELSE w
          BY <2>2
        <4>2. k \in Int
          OBVIOUS
        <4> QED
          BY Zenon, <4>1, <4>2
      <3>2. F = [p \in (i .. m + 1) \X Int |-> F[p]]
        BY <2>1
      <3> QED
        BY <3>1, <3>2, OfPairs
    <2>4. i <= m + 1
      BY <1>3, <1>4
    <2>6. PICK f : IsDescent(f, i, m + 1, Int, 0, F)
      <3>1. i \in Int /\ m + 1 \in Int /\ 0 \in Int
        OBVIOUS
      <3> QED
        BY <2>3, <2>4, <3>1, DescentSolved
    <2>5. /\ f \in [i .. m + 1 -> Int]
          /\ \A k \in i .. m + 1 : f[k] = IF k = m + 1 THEN 0 ELSE F[<<k, f[k + 1]>>]
      BY <2>6 DEF IsDescent
    <2>7. f = EndBody(f)
      <3>1. ASSUME NEW k \in i .. m + 1
            PROVE  f[k] = IF k > m THEN 0 ELSE IF z[k] < 128 THEN k ELSE f[k + 1]
        <4>1. CASE k = m + 1
          <5>1. f[k] = 0
            BY <2>5, <4>1
          <5>2. k > m
            BY <4>1
          <5> QED
            BY Zenon, <5>1, <5>2
        <4>2. CASE k # m + 1
          <5>1. k + 1 \in i .. m + 1 /\ ~(k > m)
            BY <4>2
          <5>2. f[k + 1] \in Int
            BY <2>5, <5>1
          <5> QED
            BY <2>2, <2>5, <4>2, <5>1, <5>2, ZenonT(60)
        <4> QED
          BY <4>1, <4>2
      <3> QED
        BY <1>2, <2>5, <3>1
    <2> QED
      BY <1>8, <2>7
  <1>10. PICK w : w = CHOOSE h : h = ValueBody(h, b)
    OBVIOUS
  <1>11. w = ValueBody(w, b)
    <2>1. PICK F : F = [p \in (i .. b) \X Nat |-> (z[p[1]] % 128) + 128 * p[2]]
      OBVIOUS
    <2>2. \A k \in i .. b : \A x \in Nat : F[<<k, x>>] = (z[k] % 128) + 128 * x
      BY <2>1
    <2>3. F \in [(i .. b) \X Nat -> Nat]
      <3>1. ASSUME NEW k \in i .. b, NEW x \in Nat
            PROVE  F[<<k, x>>] \in Nat
        <4>1. PICK y \in Nat : y = z[k]
          BY <1>7
        <4>2. F[<<k, x>>] = (y % 128) + 128 * x
          BY <2>2, <4>1
        <4>3. (y % 128) + 128 * x \in Nat
          OBVIOUS
        <4> QED
          BY Zenon, <4>2, <4>3
      <3>2. F = [p \in (i .. b) \X Nat |-> F[p]]
        BY <2>1
      <3> QED
        BY <3>1, <3>2, OfPairs
    <2>4. z[b] \in Nat
      BY <1>3, <1>7
    <2>7. PICK f : IsDescent(f, i, b, Nat, z[b], F)
      <3>1. i \in Int /\ b \in Int /\ i <= b
        BY <1>3
      <3> QED
        BY <2>3, <2>4, <3>1, DescentSolved
    <2>5. /\ f \in [i .. b -> Nat]
          /\ \A k \in i .. b : f[k] = IF k = b THEN z[b] ELSE F[<<k, f[k + 1]>>]
      BY <2>7 DEF IsDescent
    <2>6. f = ValueBody(f, b)
      <3>1. ASSUME NEW k \in i .. b
            PROVE  f[k] = IF k = b THEN z[k] ELSE (z[k] % 128) + 128 * f[k + 1]
        <4>1. CASE k = b
          BY <2>5, <4>1
        <4>2. CASE k # b
          <5>1. k + 1 \in i .. b
            BY <4>2
          <5>2. f[k + 1] \in Nat
            BY <2>5, <5>1
          <5> QED
            BY <2>2, <2>5, <4>2, <5>2, ZenonT(60)
        <4> QED
          BY <4>1, <4>2
      <3> QED
        BY <2>5, <3>1
    <2> QED
      BY <1>10, <2>6, ZenonT(60)
  <1>12. ReadVarint(z, i) = LET last == e[i]
                                x == CHOOSE h : h = ValueBody(h, last)
                            IN IF last = 0 THEN [value |-> -1, read |-> 0]
                               ELSE [value |-> x[i], read |-> last - i + 1]
    BY <1>8 DEF ReadVarint
  <1>13. \A k \in i .. b : e[k] = IF z[k] < 128 THEN k ELSE e[k + 1]
    BY <1>2, <1>4, <1>9
  <1>14. \A k \in i .. b : w[k] = IF k = b THEN z[k] ELSE (z[k] % 128) + 128 * w[k + 1]
    BY <1>11
  <1> HIDE DEF EndBody, ValueBody
  (* The place where the number ends, and what is read from j on.           *)
  <1> DEFINE Bad == {j \in 0 .. n - 1 : ~(e[b - j] = b /\ w[b - j] = left[n - j])}
  <1>15. Bad = {}
    <2> SUFFICES ASSUME Bad # {}
                 PROVE  FALSE
      OBVIOUS
    <2>1. PICK j \in Bad : \A k \in Bad : j <= k
      <3>1. Bad \in SUBSET Nat
        OBVIOUS
      <3> HIDE DEF Bad
      <3> QED
        BY <3>1, LeastValue
    <2>2. j \in 0 .. n - 1 /\ ~(e[b - j] = b /\ w[b - j] = left[n - j])
      OBVIOUS
    <2>3. b - j \in i .. b
      BY <1>3, <2>2
    <2>4. CASE j = 0
      <3>1. e[b] = b
        BY <1>3, <1>6, <1>13
      <3>2. w[b] = z[b]
        BY <1>3, <1>14
      <3> QED
        BY <1>1, <1>3, <1>6, <2>2, <2>4, <3>1, <3>2
    <2>5. CASE j # 0
      <3>1. PICK k \in 0 .. n - 1 : j = k + 1
        <4>1. j - 1 \in 0 .. n - 1 /\ j = (j - 1) + 1
          BY <1>1, <2>2, <2>5
        <4> QED
          BY <4>1
      <3>2. e[b - k] = b /\ w[b - k] = left[n - k]
        <4>1. k \notin Bad
          BY <2>1, <2>2, <3>1
        <4> QED
          BY <4>1
      <3>3. PICK q \in 1 .. n - 1 : q = n - j
        BY <2>2, <2>5
      <3>4. z[b - j] = 128 + (left[q] % 128) /\ left[q + 1] = left[q] \div 128
        <4>1. b - j = i + q - 1
          BY <1>3, <3>3
        <4> QED
          BY <1>5, <4>1
      <3>5. left[q] \in Nat
        BY <1>4, <3>3
      <3>6. b - k = (b - j) + 1 /\ n - k = q + 1
        BY <1>1, <1>3, <3>1, <3>3
      <3>7. PICK x \in 0 .. 127 : x = left[q] % 128
        BY <3>5, SevenBitsOff
      <3>8. ~(z[b - j] < 128) /\ z[b - j] % 128 = x
        <4>1. z[b - j] = 128 + x
          BY <3>4, <3>7
        <4>2. ~(128 + x < 128) /\ (128 + x) % 128 = x
          OBVIOUS
        <4> QED
          BY Zenon, <4>1, <4>2
      <3>9. e[b - j] = b
        BY <1>13, <2>3, <3>2, <3>6, <3>8
      <3>10. w[b - j] = x + 128 * (left[q] \div 128)
        <4>1. b - j # b
          BY <1>3, <2>2, <2>5
        <4> QED
          BY <1>14, <2>3, <3>2, <3>4, <3>6, <3>8, <4>1, SMTT(30)
      <3>11. w[b - j] = left[q]
        BY <3>5, <3>7, <3>10, SevenBitsOff
      <3> QED
        BY <2>2, <3>3, <3>9, <3>11
    <2> QED
      BY <2>4, <2>5
  <1>16. e[i] = b /\ w[i] = v
    <2>1. n - 1 \in 0 .. n - 1 /\ b - (n - 1) = i /\ n - (n - 1) = 1
      BY <1>1, <1>3
    <2>2. e[b - (n - 1)] = b /\ w[b - (n - 1)] = left[n - (n - 1)]
      BY <1>15, <2>1
    <2> QED
      BY <1>6, <2>1, <2>2
  <1>17. b # 0 /\ b - i + 1 = n
    BY <1>3
  <1> QED
    BY <1>1, <1>10, <1>12, <1>16, <1>17

(***************************************************************************)
(* What a sequence holds at a place: parts of a concatenation              *)
(***************************************************************************)

LEMMA HoldsSelf ==
    ASSUME NEW U, NEW z \in Seq(U)
    PROVE  Holds(z, 1, z)
  BY DEF Holds

LEMMA HoldsLeft ==
    ASSUME NEW U, NEW z \in Seq(U), NEW t \in Seq(U), NEW s \in Seq(U), NEW i \in Nat \ {0},
           Holds(z, i, s)
    PROVE  Holds(z \o t, i, s)
  <1>1. PICK n \in Nat : n = Len(s)
    OBVIOUS
  <1>2. PICK m \in Nat : m = Len(z)
    OBVIOUS
  <1>3. PICK l \in Nat : l = Len(t)
    OBVIOUS
  <1>4. Len(z \o t) = m + l /\ \A j \in 1 .. m : (z \o t)[j] = z[j]
    BY <1>2, <1>3
  <1>5. i + n - 1 <= m /\ \A j \in 1 .. n : z[i + j - 1] = s[j]
    BY <1>1, <1>2 DEF Holds
  <1>6. \A j \in 1 .. n : (z \o t)[i + j - 1] = s[j]
    <2>1. ASSUME NEW j \in 1 .. n
          PROVE  (z \o t)[i + j - 1] = s[j]
      <3>1. i + j - 1 \in 1 .. m
        BY <1>5
      <3> QED
        BY <1>4, <1>5, <3>1
    <2> QED
      BY <2>1
  <1> QED
    BY <1>1, <1>3, <1>4, <1>5, <1>6 DEF Holds

LEMMA HoldsRight ==
    ASSUME NEW U, NEW z \in Seq(U), NEW t \in Seq(U)
    PROVE  Holds(z \o t, Len(z) + 1, t)
  <1>1. PICK m \in Nat : m = Len(z)
    OBVIOUS
  <1>2. PICK l \in Nat : l = Len(t)
    OBVIOUS
  <1>3. Len(z \o t) = m + l /\ \A j \in 1 .. l : (z \o t)[m + j] = t[j]
    BY <1>1, <1>2
  <1>4. \A j \in 1 .. l : m + 1 + j - 1 = m + j
    OBVIOUS
  <1> QED
    BY <1>1, <1>2, <1>3, <1>4 DEF Holds

(* What holds a concatenation holds its parts.                              *)
LEMMA HoldsParts ==
    ASSUME NEW U, NEW z \in Seq(U), NEW s \in Seq(U), NEW t \in Seq(U), NEW i \in Nat \ {0},
           Holds(z, i, s \o t)
    PROVE  Holds(z, i, s) /\ Holds(z, i + Len(s), t)
  <1>1. PICK n \in Nat : n = Len(s)
    OBVIOUS
  <1>2. PICK l \in Nat : l = Len(t)
    OBVIOUS
  <1>3. PICK m \in Nat : m = Len(z)
    OBVIOUS
  <1>4. /\ Len(s \o t) = n + l
        /\ \A j \in 1 .. n : (s \o t)[j] = s[j]
        /\ \A j \in 1 .. l : (s \o t)[n + j] = t[j]
    BY <1>1, <1>2
  <1>5. i + (n + l) - 1 <= m /\ \A j \in 1 .. n + l : z[i + j - 1] = (s \o t)[j]
    BY <1>3, <1>4 DEF Holds
  <1>6. \A j \in 1 .. n : z[i + j - 1] = s[j]
    <2>1. ASSUME NEW j \in 1 .. n
          PROVE  z[i + j - 1] = s[j]
      <3>1. j \in 1 .. n + l
        OBVIOUS
      <3> QED
        BY <1>4, <1>5, <3>1
    <2> QED
      BY <2>1
  <1>7. \A j \in 1 .. l : z[(i + n) + j - 1] = t[j]
    <2>1. ASSUME NEW j \in 1 .. l
          PROVE  z[(i + n) + j - 1] = t[j]
      <3>1. n + j \in 1 .. n + l /\ i + (n + j) - 1 = (i + n) + j - 1
        OBVIOUS
      <3>2. z[i + (n + j) - 1] = (s \o t)[n + j]
        BY <1>5, <3>1
      <3>3. (s \o t)[n + j] = t[j]
        BY <1>4
      <3> QED
        BY <3>1, <3>2, <3>3
    <2> QED
      BY <2>1
  <1>8. i + n - 1 <= m /\ (i + n) + l - 1 <= m
    BY <1>5
  <1> QED
    BY <1>1, <1>2, <1>3, <1>6, <1>7, <1>8 DEF Holds

LEMMA HoldsTransitive ==
    ASSUME NEW U, NEW z \in Seq(U), NEW s \in Seq(U), NEW t \in Seq(U), NEW i \in Nat \ {0}, NEW k \in Nat \ {0},
           Holds(z, i, s), Holds(s, k, t)
    PROVE  Holds(z, i + k - 1, t)
  <1>1. PICK n \in Nat : n = Len(s)
    OBVIOUS
  <1>2. PICK l \in Nat : l = Len(t)
    OBVIOUS
  <1>3. PICK m \in Nat : m = Len(z)
    OBVIOUS
  <1>4. i + n - 1 <= m /\ \A j \in 1 .. n : z[i + j - 1] = s[j]
    BY <1>1, <1>3 DEF Holds
  <1>5. k + l - 1 <= n /\ \A j \in 1 .. l : s[k + j - 1] = t[j]
    BY <1>1, <1>2 DEF Holds
  <1>6. \A j \in 1 .. l : z[(i + k - 1) + j - 1] = t[j]
    <2>1. ASSUME NEW j \in 1 .. l
          PROVE  z[(i + k - 1) + j - 1] = t[j]
      <3>1. k + j - 1 \in 1 .. n /\ i + (k + j - 1) - 1 = (i + k - 1) + j - 1
        BY <1>5
      <3>2. z[i + (k + j - 1) - 1] = s[k + j - 1]
        BY <1>4, <3>1
      <3>3. s[k + j - 1] = t[j]
        BY <1>5
      <3> QED
        BY <3>1, <3>2, <3>3
    <2> QED
      BY <2>1
  <1>7. (i + k - 1) + l - 1 <= m
    BY <1>4, <1>5
  <1> QED
    BY <1>2, <1>3, <1>6, <1>7 DEF Holds

LEMMA EmptyLength ==
    ASSUME NEW S, NEW s \in Seq(S), Len(s) = 0
    PROVE  s = <<>>
  OBVIOUS

(* Where each part begins in the concatenation of all.                      *)
IsLayout(pos, parts, flat) ==
    /\ pos \in [0 .. Len(parts) -> Nat] /\ pos[0] = 0 /\ Len(flat) = pos[Len(parts)]
    /\ \A k \in 1 .. Len(parts) :
           pos[k] = pos[k - 1] + Len(parts[k]) /\ Holds(flat, pos[k - 1] + 1, parts[k])

LEMMA Flattened ==
    ASSUME NEW U, NEW parts \in Seq(Seq(U))
    PROVE  FlattenSeq(parts) \in Seq(U) /\ \E pos : IsLayout(pos, parts, FlattenSeq(parts))
  <1> DEFINE Body(g) == [i \in 1 .. Len(parts) |-> IF i = 1 THEN parts[i] ELSE g[i - 1] \o parts[i]]
  <1>1. PICK n \in Nat : n = Len(parts)
    OBVIOUS
  <1>2. \A k \in 1 .. n : parts[k] \in Seq(U)
    BY <1>1
  <1>3. PICK size : size = [k \in 0 .. n |-> IF k = 0 THEN 0 ELSE Len(parts[k])]
    OBVIOUS
  <1>4. size \in [0 .. n -> Nat] /\ \A k \in 1 .. n : size[k] = Len(parts[k]) /\ size[k] \in Nat
    BY <1>2, <1>3
  <1>5. PICK pos : pos \in [0 .. n -> Nat] /\ \A k \in 0 .. n : pos[k] = IF k = 0 THEN 0 ELSE pos[k - 1] + size[k]
    <2>1. PICK F : F = [p \in (0 .. n) \X Nat |-> size[p[1]] + p[2]]
      OBVIOUS
    <2>2. \A k \in 0 .. n : \A x \in Nat : F[<<k, x>>] = size[k] + x
      BY <2>1
    <2>3. F \in [(0 .. n) \X Nat -> Nat]
      <3>1. ASSUME NEW k \in 0 .. n, NEW x \in Nat
            PROVE  F[<<k, x>>] \in Nat
        <4>1. size[k] \in Nat
          BY <1>4
        <4> QED
          BY <2>2, <4>1
      <3>2. F = [p \in (0 .. n) \X Nat |-> F[p]]
        BY <2>1
      <3> QED
        BY <3>1, <3>2, OfPairs
    <2>4. PICK f : IsAscent(f, n, Nat, 0, F)
      BY <2>3, AscentSolved
    <2>5. ASSUME NEW k \in 0 .. n
          PROVE  f[k] = IF k = 0 THEN 0 ELSE f[k - 1] + size[k]
      <3>1. CASE k = 0
        BY <2>4, <3>1 DEF IsAscent
      <3>2. CASE k # 0
        <4>1. k - 1 \in 0 .. n /\ size[k] \in Nat
          BY <1>4, <3>2
        <4>2. f[k - 1] \in Nat /\ f[k] = F[<<k, f[k - 1]>>]
          BY <2>4, <3>2, <4>1 DEF IsAscent
        <4>3. f[k] = size[k] + f[k - 1]
          BY <2>2, <4>2
        <4> QED
          BY <3>2, <4>1, <4>2, <4>3
      <3> QED
        BY <3>1, <3>2
    <2> QED
      BY <2>4, <2>5 DEF IsAscent
  <1>6. PICK h : /\ h \in [0 .. n -> Seq(U)] /\ h[0] = <<>>
                 /\ \A k \in 1 .. n : h[k] = h[k - 1] \o parts[k]
    <2>1. PICK W : W = Seq(U)
      OBVIOUS
    <2>2. PICK F : F = [p \in (0 .. n) \X W |-> IF p[1] = 0 THEN <<>> ELSE p[2] \o parts[p[1]]]
      OBVIOUS
    <2>3. \A k \in 0 .. n : \A x \in W : F[<<k, x>>] = IF k = 0 THEN <<>> ELSE x \o parts[k]
      BY <2>2
    <2>4. F \in [(0 .. n) \X W -> W]
      <3>1. ASSUME NEW k \in 0 .. n, NEW x \in W
            PROVE  F[<<k, x>>] \in W
        <4>1. CASE k = 0
          <5>1. <<>> \in W
            BY <2>1
          <5>2. F[<<k, x>>] = <<>>
            BY <2>3, <4>1
          <5> QED
            BY <5>1, <5>2
        <4>2. CASE k # 0
          <5>1. parts[k] \in Seq(U)
            BY <1>2, <4>2
          <5>2. x \o parts[k] \in W
            BY <2>1, <5>1
          <5> QED
            BY <2>3, <4>2, <5>2
        <4> QED
          BY <4>1, <4>2
      <3>2. F = [p \in (0 .. n) \X W |-> F[p]]
        BY <2>2
      <3> QED
        BY <3>1, <3>2, OfPairs
    <2>5. <<>> \in W
      BY <2>1
    <2>6. PICK f : IsAscent(f, n, W, <<>>, F)
      BY <2>4, <2>5, AscentSolved
    <2>7. f \in [0 .. n -> Seq(U)] /\ f[0] = <<>>
      <3>1. 0 \in 0 .. n
        OBVIOUS
      <3> QED
        BY Zenon, <2>1, <2>6, <3>1 DEF IsAscent
    <2>8. ASSUME NEW k \in 1 .. n
          PROVE  f[k] = f[k - 1] \o parts[k]
      <3>1. k \in 0 .. n /\ k - 1 \in 0 .. n /\ k # 0
        OBVIOUS
      <3>2. f[k - 1] \in W /\ f[k] = F[<<k, f[k - 1]>>]
        BY <2>6, <3>1 DEF IsAscent
      <3> QED
        BY <2>3, <3>1, <3>2
    <2> QED
      BY <2>7, <2>8
  <1>7. FlattenSeq(parts) = h[n]
    <2>1. CASE n = 0
      <3>1. parts = <<>>
        BY <1>1, <2>1, EmptyLength
      <3>2. FlattenSeq(parts) = parts
        BY <1>1, <2>1 DEF FlattenSeq
      <3> QED
        BY <1>6, <2>1, <3>1, <3>2
    <2>2. CASE n # 0
      <3>1. PICK f : f = [i \in 1 .. n |-> h[i]]
        OBVIOUS
      <3>2. f = Body(f)
        <4>1. ASSUME NEW i \in 1 .. n
              PROVE  f[i] = IF i = 1 THEN parts[i] ELSE f[i - 1] \o parts[i]
          <5>1. h[i] = h[i - 1] \o parts[i]
            BY <1>6
          <5>2. CASE i = 1
            <6>4. i - 1 = 0
              BY <5>2
            <6>1. h[1] = <<>> \o parts[1]
              BY Zenon, <1>6, <5>1, <5>2, <6>4
            <6>2. parts[1] \in Seq(U)
              BY <1>2, <5>2
            <6>3. <<>> \o parts[1] = parts[1]
              BY <6>2
            <6> QED
              BY <3>1, <5>2, <6>1, <6>3
          <5>3. CASE i # 1
            <6>1. i - 1 \in 1 .. n
              BY <5>3
            <6> QED
              BY <3>1, <5>1, <5>3, <6>1
          <5> QED
            BY <5>2, <5>3
        <4> QED
          BY <1>1, <3>1, <4>1
      <3>3. PICK g : g = CHOOSE x : x = Body(x)
        OBVIOUS
      <3>4. FlattenSeq(parts) = g[n]
        BY <1>1, <2>2, <3>3 DEF FlattenSeq
      <3> HIDE DEF Body
      <3>5. g = Body(g)
        BY <3>2, <3>3
      <3>6. \A i \in 1 .. n : g[i] = IF i = 1 THEN parts[i] ELSE g[i - 1] \o parts[i]
        BY <1>1, <3>5 DEF Body
      <3>7. \A i \in 1 .. n : f[i] = IF i = 1 THEN parts[i] ELSE f[i - 1] \o parts[i]
        BY <1>1, <3>2 DEF Body
      <3> DEFINE Bad == {i \in 1 .. n : g[i] # f[i]}
      <3>8. Bad = {}
        <4> SUFFICES ASSUME Bad # {}
                     PROVE  FALSE
          OBVIOUS
        <4>1. PICK i \in Bad : \A j \in Bad : i <= j
          <5>1. Bad \in SUBSET Nat
            OBVIOUS
          <5> HIDE DEF Bad
          <5> QED
            BY <5>1, LeastValue
        <4>2. i \in 1 .. n /\ g[i] # f[i]
          OBVIOUS
        <4>3. i # 1
          BY <3>6, <3>7, <4>2
        <4>4. i - 1 \in 1 .. n /\ i - 1 \notin Bad
          BY <4>1, <4>2, <4>3
        <4>5. g[i - 1] = f[i - 1]
          BY <4>4
        <4> QED
          BY <3>6, <3>7, <4>2, <4>3, <4>5
      <3>9. n \in 1 .. n
        BY <2>2
      <3> QED
        BY <3>1, <3>4, <3>8, <3>9
    <2> QED
      BY <2>1, <2>2
  <1> DEFINE Laid(k) == /\ Len(h[k]) = pos[k]
                        /\ \A q \in 1 .. k : Holds(h[k], pos[q - 1] + 1, parts[q])
             Wrong == {k \in 0 .. n : ~Laid(k)}
  <1>8. Wrong = {}
    <2> SUFFICES ASSUME Wrong # {}
                 PROVE  FALSE
      OBVIOUS
    <2>1. PICK k \in Wrong : \A j \in Wrong : k <= j
      <3>1. Wrong \in SUBSET Nat
        OBVIOUS
      <3> HIDE DEF Wrong
      <3> QED
        BY <3>1, LeastValue
    <2>2. k \in 0 .. n /\ ~Laid(k)
      OBVIOUS
    <2>3. k # 0
      <3>1. Len(h[0]) = 0 /\ pos[0] = 0
        BY <1>5, <1>6
      <3> QED
        BY <2>2, <3>1
    <2>4. k - 1 \in 0 .. n /\ k \in 1 .. n /\ k - 1 \notin Wrong
      BY <2>1, <2>2, <2>3
    <2>5. Laid(k - 1)
      BY <2>4
    <2>6. h[k] = h[k - 1] \o parts[k] /\ h[k - 1] \in Seq(U) /\ parts[k] \in Seq(U)
      BY <1>2, <1>6, <2>4
    <2>7. pos[k] = pos[k - 1] + Len(parts[k]) /\ pos[k - 1] \in Nat
      BY <1>4, <1>5, <2>4
    <2>8. Len(h[k]) = pos[k]
      <3>1. Len(h[k]) = Len(h[k - 1]) + Len(parts[k])
        BY <2>6
      <3> QED
        BY <2>5, <2>7, <3>1
    <2>9. ASSUME NEW q \in 1 .. k
          PROVE  Holds(h[k], pos[q - 1] + 1, parts[q])
      <3>1. CASE q = k
        <4>1. Holds(h[k - 1] \o parts[k], Len(h[k - 1]) + 1, parts[k])
          BY <2>6, HoldsRight
        <4> QED
          BY <2>5, <2>6, <3>1, <4>1
      <3>2. CASE q # k
        <4>1. q \in 1 .. k - 1 /\ q - 1 \in 0 .. n /\ q \in 1 .. n
          BY <2>4, <3>2
        <4>2. Holds(h[k - 1], pos[q - 1] + 1, parts[q])
          BY <2>5, <4>1
        <4>3. pos[q - 1] + 1 \in Nat \ {0} /\ parts[q] \in Seq(U)
          <5>1. pos[q - 1] \in Nat
            BY <1>5, <4>1
          <5> QED
            BY <1>2, <4>1, <5>1, SMTT(30)
        <4>4. Holds(h[k - 1] \o parts[k], pos[q - 1] + 1, parts[q])
          BY <2>6, <4>2, <4>3, HoldsLeft
        <4> QED
          BY <2>6, <4>4
      <3> QED
        BY <3>1, <3>2
    <2> QED
      BY <2>2, <2>8, <2>9
  <1>9. Laid(n)
    <2>1. n \in 0 .. n
      OBVIOUS
    <2> HIDE DEF Laid
    <2> QED
      BY <1>8, <2>1
  <1>10. h[n] \in Seq(U)
    BY <1>6
  <1>11. ASSUME NEW k \in 1 .. n
         PROVE  pos[k] = pos[k - 1] + Len(parts[k])
    <2>1. k \in 0 .. n /\ k # 0
      OBVIOUS
    <2> QED
      BY <1>4, <1>5, <2>1
  <1>12. pos[0] = 0
    BY <1>5
  <1>13. IsLayout(pos, parts, h[n])
    BY <1>1, <1>5, <1>9, <1>11, <1>12 DEF IsLayout
  <1> QED
    BY <1>7, <1>10, <1>13

(***************************************************************************)
(* Items written one after the other, each read from where the one before  *)
(* ended                                                                   *)
(***************************************************************************)

LEMMA WiderSequence ==
    ASSUME NEW S, NEW T, S \subseteq T, NEW s \in Seq(S)
    PROVE  s \in Seq(T)
  OBVIOUS

(* indexOf.                                                                 *)
Place(s, x) == SelectInSeq(s, LAMBDA t : t = x)

LEMMA PlaceOf ==
    ASSUME NEW S, NEW s \in Seq(S), NEW x, NEW at, at = Place(s, x)
    PROVE  \/ at = 0 /\ ~Contains(s, x)
           \/ at \in 1 .. Len(s) /\ s[at] = x /\ Contains(s, x)
  <1>1. PICK places : places = {i \in 1 .. Len(s) : s[i] = x}
    OBVIOUS
  <1>2. places \in SUBSET Nat
    BY <1>1
  <1>3. at = IF places # {} THEN Min(places) ELSE 0
    BY <1>1 DEF SelectInSeq, Place
  <1>4. CASE places = {}
    BY <1>1, <1>3, <1>4 DEF Contains
  <1>5. CASE places # {}
    <2>1. PICK v \in places : \A y \in places : v <= y
      BY <1>2, <1>5, LeastValue
    <2>2. at \in places
      BY <1>3, <1>5, <2>1 DEF Min
    <2> QED
      BY <1>1, <2>2 DEF Contains
  <1> QED
    BY <1>4, <1>5

LEMMA HoldsSubSeq ==
    ASSUME NEW U, NEW z \in Seq(U), NEW i \in Nat \ {0}, NEW s \in Seq(U), Holds(z, i, s)
    PROVE  SubSeq(z, i, i + Len(s) - 1) = s
  <1>1. PICK n \in Nat : n = Len(s)
    OBVIOUS
  <1>2. i + n - 1 <= Len(z) /\ \A j \in 1 .. n : z[i + j - 1] = s[j]
    BY <1>1 DEF Holds
  <1>3. PICK t : t = SubSeq(z, i, i + n - 1)
    OBVIOUS
  <1>4. t \in Seq(U) /\ Len(t) = n /\ \A j \in 1 .. n : t[j] = z[i + j - 1]
    BY <1>2, <1>3
  <1>5. \A j \in 1 .. n : t[j] = s[j]
    BY <1>2, <1>4
  <1>6. t = s
    BY <1>1, <1>4, <1>5
  <1> QED
    BY <1>1, <1>3, <1>6

LEMMA VarintIsBytes ==
    ASSUME NEW v \in Nat
    PROVE  EncodeVarint(v) \in Seq(0 .. 255)
  BY VarintBytes DEF IsVarint

LEMMA VarintComesBack ==
    ASSUME NEW U, NEW z \in Seq(U), NEW i \in Nat \ {0}, NEW v \in Nat, Holds(z, i, EncodeVarint(v))
    PROVE  ReadVarint(z, i) = [value |-> v, read |-> Len(EncodeVarint(v))]
  <1>1. PICK left : IsVarint(EncodeVarint(v), left, v)
    BY VarintBytes
  <1> QED
    BY <1>1, VarintRead

LEMMA OneMoreRead ==
    ASSUME NEW a, NEW n \in Nat
    PROVE  [[value |-> a, read |-> n] EXCEPT !.read = @ + 1] = [value |-> a, read |-> n + 1]
  OBVIOUS

LEMMA AmountRead ==
    ASSUME NEW U, 0 .. 255 \subseteq U, NEW z \in Seq(U), NEW i \in Nat \ {0}, NEW amount \in Nat,
           NEW common \in Seq(Nat), Holds(z, i, EncodeCompressedAmount(amount, common))
    PROVE  ReadCompressedAmount(z, i, common)
               = [value |-> amount, read |-> Len(EncodeCompressedAmount(amount, common))]
  <1>1. PICK at : at = Place(common, amount)
    OBVIOUS
  <1>2. PICK s : s = EncodeCompressedAmount(amount, common)
    OBVIOUS
  <1>3. s = IF at # 0 /\ at <= 128 THEN <<128 + at - 1>> ELSE <<0>> \o EncodeVarint(amount)
    BY <1>1, <1>2 DEF EncodeCompressedAmount, Place
  <1>4. Holds(z, i, s)
    BY <1>2
  <1>5. CASE at # 0 /\ at <= 128
    <2>1. at \in 1 .. Len(common) /\ common[at] = amount
      BY <1>1, <1>5, PlaceOf
    <2>2. s = <<128 + at - 1>> /\ Len(s) = 1 /\ s[1] = 128 + at - 1
      BY <1>3, <1>5
    <2>3. z[i] = 127 + at
      <3>1. z[i + 1 - 1] = s[1]
        BY <1>4, <2>2 DEF Holds
      <3> QED
        BY <2>1, <2>2, <3>1
    <2>4. z[i] >= 128 /\ z[i] - 127 = at
      BY <2>1, <2>3
    <2>5. at \in DOMAIN common
      <3>1. DOMAIN common = 1 .. Len(common)
        OBVIOUS
      <3> QED
        BY <2>1, <3>1
    <2> QED
      BY <1>2, <2>1, <2>2, <2>4, <2>5 DEF ReadCompressedAmount
  <1>6. CASE ~(at # 0 /\ at <= 128)
    <2>1. PICK v : v = EncodeVarint(amount) /\ v \in Seq(0 .. 255)
      BY VarintIsBytes
    <2>2. s = <<0>> \o v
      BY <1>3, <1>6, <2>1
    <2>10. PICK one : one = <<0>>
      OBVIOUS
    <2>11. 0 \in U
      OBVIOUS
    <2>12. one \in Seq(U) /\ Len(one) = 1 /\ one[1] = 0
      BY <2>10, <2>11
    <2>13. v \in Seq(U)
      BY <2>1, WiderSequence, ZenonT(60)
    <2>3. Len(s) = 1 + Len(v) /\ Len(v) \in Nat
      BY <2>2, <2>10, <2>12, <2>13
    <2>4. Holds(z, i, one) /\ Holds(z, i + 1, v)
      BY <1>4, <2>2, <2>10, <2>12, <2>13, HoldsParts
    <2>5. z[i] = 0
      <3>1. z[i + 1 - 1] = one[1]
        BY <2>4, <2>12 DEF Holds
      <3> QED
        BY <2>12, <3>1
    <2>6. i + 1 \in Nat \ {0}
      OBVIOUS
    <2>7. ReadVarint(z, i + 1) = [value |-> amount, read |-> Len(v)]
      BY <2>1, <2>4, <2>6, VarintComesBack
    <2>8. ~(z[i] >= 128)
      BY <2>5
    <2>9. ReadCompressedAmount(z, i, common) = [value |-> amount, read |-> Len(v) + 1]
      <3>1. PICK l \in Nat : l = Len(v)
        BY <2>3
      <3>2. [[value |-> amount, read |-> l] EXCEPT !.read = @ + 1] = [value |-> amount, read |-> l + 1]
        BY OneMoreRead
      <3>3. ReadCompressedAmount(z, i, common) = [ReadVarint(z, i + 1) EXCEPT !.read = @ + 1]
        BY <2>8 DEF ReadCompressedAmount
      <3> QED
        BY <2>7, <3>1, <3>2, <3>3
    <2> QED
      BY <1>2, <2>3, <2>9
  <1> QED
    BY <1>5, <1>6

(* One item after the other: read tells what is at an offset.               *)
IsReading(g, read, n, offset) ==
    /\ g[0] = [items |-> <<>>, offset |-> offset]
    /\ \A k \in 1 .. n :
           g[k - 1].offset \in Nat =>
               g[k] = [items |-> Append(g[k - 1].items, read[g[k - 1].offset].value),
                       offset |-> g[k - 1].offset + read[g[k - 1].offset].read]

Follows(read, items, pos, n) ==
    \A k \in 1 .. n : read[pos[k - 1]] = [value |-> items[k], read |-> pos[k] - pos[k - 1]]

LEMMA ReadingEnds ==
    ASSUME NEW n \in Nat, NEW S, NEW items \in Seq(S), Len(items) = n, NEW pos \in [0 .. n -> Nat],
           NEW read, Follows(read, items, pos, n), NEW g, IsReading(g, read, n, pos[0])
    PROVE  g[n] = [items |-> items, offset |-> pos[n]]
  <1> DEFINE Right(k) == g[k] = [items |-> SubSeq(items, 1, k), offset |-> pos[k]]
             Bad == {k \in 0 .. n : ~Right(k)}
  <1>1. Bad = {}
    <2> SUFFICES ASSUME Bad # {}
                 PROVE  FALSE
      OBVIOUS
    <2>1. PICK k \in Bad : \A j \in Bad : k <= j
      <3>1. Bad \in SUBSET Nat
        OBVIOUS
      <3> HIDE DEF Bad
      <3> QED
        BY <3>1, LeastValue
    <2>2. k \in 0 .. n /\ ~Right(k)
      OBVIOUS
    <2>3. k # 0
      <3>1. SubSeq(items, 1, 0) = <<>>
        OBVIOUS
      <3>2. g[0] = [items |-> <<>>, offset |-> pos[0]]
        BY DEF IsReading
      <3> QED
        BY <2>2, <3>1, <3>2
    <2>4. k - 1 \in 0 .. n /\ k \in 1 .. n /\ k - 1 \notin Bad
      <3>1. k - 1 \in 0 .. n /\ k \in 1 .. n /\ ~(k <= k - 1)
        BY <2>2, <2>3
      <3> HIDE DEF Bad
      <3> QED
        BY <2>1, <3>1
    <2>5. Right(k - 1)
      BY <2>4
    <2>6. pos[k - 1] \in Nat /\ pos[k] \in Nat
      BY <2>2, <2>4
    <2>7. read[pos[k - 1]] = [value |-> items[k], read |-> pos[k] - pos[k - 1]]
      BY <2>4 DEF Follows
    <2>8. g[k] = [items |-> Append(SubSeq(items, 1, k - 1), items[k]), offset |-> pos[k - 1] + (pos[k] - pos[k - 1])]
      <3>1. g[k - 1].offset = pos[k - 1] /\ g[k - 1].items = SubSeq(items, 1, k - 1)
        BY <2>5
      <3>2. g[k] = [items |-> Append(g[k - 1].items, read[g[k - 1].offset].value),
                    offset |-> g[k - 1].offset + read[g[k - 1].offset].read]
        BY <2>4, <2>6, <3>1 DEF IsReading
      <3> QED
        BY <2>7, <3>1, <3>2
    <2>9. Append(SubSeq(items, 1, k - 1), items[k]) = SubSeq(items, 1, k)
      BY <2>4
    <2>10. pos[k - 1] + (pos[k] - pos[k - 1]) = pos[k]
      BY <2>6
    <2> QED
      BY <2>2, <2>8, <2>9, <2>10
  <1>2. Right(n)
    <2>1. n \in 0 .. n
      OBVIOUS
    <2> HIDE DEF Right
    <2> QED
      BY <1>1, <2>1
  <1>3. SubSeq(items, 1, n) = items
    OBVIOUS
  <1> QED
    BY <1>2, <1>3

LEMMA ReadingStarts ==
    ASSUME NEW n \in Nat, NEW S, NEW items \in Seq(S), Len(items) = n, NEW pos \in [0 .. n -> Nat],
           NEW read, Follows(read, items, pos, n)
    PROVE  \E g : /\ g = [k \in 0 .. n |-> g[k]]
                  /\ \A k \in 0 .. n : g[k].offset \in Nat
                  /\ IsReading(g, read, n, pos[0])
  <1>1. PICK g : g = [k \in 0 .. n |-> [items |-> SubSeq(items, 1, k), offset |-> pos[k]]]
    OBVIOUS
  <1>2. \A k \in 0 .. n : g[k] = [items |-> SubSeq(items, 1, k), offset |-> pos[k]] /\ pos[k] \in Nat
    BY <1>1
  <1>3. g[0] = [items |-> <<>>, offset |-> pos[0]]
    <2>1. SubSeq(items, 1, 0) = <<>>
      OBVIOUS
    <2>2. 0 \in 0 .. n
      OBVIOUS
    <2> QED
      BY <1>2, <2>1, <2>2
  <1>4. ASSUME NEW k \in 1 .. n
        PROVE  g[k] = [items |-> Append(g[k - 1].items, read[g[k - 1].offset].value),
                       offset |-> g[k - 1].offset + read[g[k - 1].offset].read]
    <2>1. k - 1 \in 0 .. n /\ k \in 0 .. n
      OBVIOUS
    <2>2. pos[k - 1] \in Nat /\ pos[k] \in Nat
      BY <2>1
    <2>3. read[pos[k - 1]] = [value |-> items[k], read |-> pos[k] - pos[k - 1]]
      BY DEF Follows
    <2>4. Append(SubSeq(items, 1, k - 1), items[k]) = SubSeq(items, 1, k)
      OBVIOUS
    <2>5. pos[k - 1] + (pos[k] - pos[k - 1]) = pos[k]
      BY <2>2
    <2>8. g[k - 1] = [items |-> SubSeq(items, 1, k - 1), offset |-> pos[k - 1]]
      BY <1>2, <2>1
    <2>6. g[k - 1].offset = pos[k - 1] /\ g[k - 1].items = SubSeq(items, 1, k - 1)
      BY <2>8
    <2>7. g[k] = [items |-> SubSeq(items, 1, k), offset |-> pos[k]]
      BY <1>2, <2>1
    <2>9. read[g[k - 1].offset].value = items[k] /\ read[g[k - 1].offset].read = pos[k] - pos[k - 1]
      BY <2>3, <2>6
    <2> QED
      BY Zenon, <2>4, <2>5, <2>6, <2>7, <2>9
  <1>5. \A k \in 0 .. n : g[k].offset \in Nat
    BY <1>2
  <1>6. g = [k \in 0 .. n |-> g[k]]
    BY <1>1
  <1>7. IsReading(g, read, n, pos[0])
    BY <1>3, <1>4 DEF IsReading
  <1> QED
    BY <1>5, <1>6, <1>7

InputsAt(z, n, offset) == ReadAll(LAMBDA i : ReadInput(z, i), n, offset)

OutputsAt(z, n, offset, common) == ReadAll(LAMBDA i : ReadOutput(z, i, common), n, offset)

ReadsInputs(z, items, pos, n) ==
    \A k \in 1 .. n : ReadInput(z, pos[k - 1]) = [value |-> items[k], read |-> pos[k] - pos[k - 1]]

ReadsOutputs(z, common, items, pos, n) ==
    \A k \in 1 .. n : ReadOutput(z, pos[k - 1], common) = [value |-> items[k], read |-> pos[k] - pos[k - 1]]

LEMMA AllInputs ==
    ASSUME NEW z, NEW n \in Nat, NEW S, NEW items \in Seq(S), Len(items) = n, NEW pos \in [0 .. n -> Nat],
           ReadsInputs(z, items, pos, n)
    PROVE  InputsAt(z, n, pos[0]) = [items |-> items, offset |-> pos[n]]
  <1> DEFINE Body(g) ==
          [k \in 0 .. n |->
              IF k = 0 THEN [items |-> <<>>, offset |-> pos[0]]
              ELSE [items |-> Append(g[k - 1].items, ReadInput(z, g[k - 1].offset).value),
                    offset |-> g[k - 1].offset + ReadInput(z, g[k - 1].offset).read]]
  <1>1. PICK read : read = [o \in Nat |-> ReadInput(z, o)]
    OBVIOUS
  <1>2. \A o \in Nat : read[o] = ReadInput(z, o)
    BY <1>1
  <1>3. Follows(read, items, pos, n)
    <2>1. \A k \in 1 .. n : pos[k - 1] \in Nat
      OBVIOUS
    <2> QED
      BY <1>2, <2>1 DEF Follows, ReadsInputs
  <1>4. PICK w : /\ w = [k \in 0 .. n |-> w[k]]
                 /\ \A k \in 0 .. n : w[k].offset \in Nat
                 /\ IsReading(w, read, n, pos[0])
    BY <1>3, ReadingStarts
  <1>5. w = Body(w)
    <2>1. ASSUME NEW k \in 0 .. n
          PROVE  w[k] = IF k = 0 THEN [items |-> <<>>, offset |-> pos[0]]
                        ELSE [items |-> Append(w[k - 1].items, ReadInput(z, w[k - 1].offset).value),
                              offset |-> w[k - 1].offset + ReadInput(z, w[k - 1].offset).read]
      <3>1. CASE k = 0
        BY <1>4, <3>1 DEF IsReading
      <3>2. CASE k # 0
        <4>1. k \in 1 .. n /\ k - 1 \in 0 .. n
          BY <3>2
        <4>2. w[k - 1].offset \in Nat
          BY <1>4, <4>1
        <4>3. read[w[k - 1].offset] = ReadInput(z, w[k - 1].offset)
          BY <1>2, <4>2
        <4>4. w[k] = [items |-> Append(w[k - 1].items, read[w[k - 1].offset].value),
                      offset |-> w[k - 1].offset + read[w[k - 1].offset].read]
          BY <1>4, <4>1, <4>2 DEF IsReading
        <4> QED
          BY <3>2, <4>3, <4>4
      <3> QED
        BY <3>1, <3>2
    <2> QED
      BY <1>4, <2>1
  <1>6. PICK g : g = CHOOSE h : h = Body(h)
    OBVIOUS
  <1>7. InputsAt(z, n, pos[0]) = g[n]
    BY <1>6 DEF InputsAt, ReadAll
  <1> HIDE DEF Body
  <1>8. g = Body(g)
    BY <1>5, <1>6
  <1>9. IsReading(g, read, n, pos[0])
    <2>1. g[0] = [items |-> <<>>, offset |-> pos[0]]
      BY <1>8 DEF Body
    <2>2. ASSUME NEW k \in 1 .. n, g[k - 1].offset \in Nat
          PROVE  g[k] = [items |-> Append(g[k - 1].items, read[g[k - 1].offset].value),
                         offset |-> g[k - 1].offset + read[g[k - 1].offset].read]
      <3>3. k \in 0 .. n /\ k # 0
        OBVIOUS
      <3>1. g[k] = [items |-> Append(g[k - 1].items, ReadInput(z, g[k - 1].offset).value),
                    offset |-> g[k - 1].offset + ReadInput(z, g[k - 1].offset).read]
        BY <1>8, <3>3 DEF Body
      <3>2. read[g[k - 1].offset] = ReadInput(z, g[k - 1].offset)
        BY <1>2, <2>2
      <3> QED
        BY <3>1, <3>2
    <2> QED
      BY <2>1, <2>2 DEF IsReading
  <1> QED
    BY <1>3, <1>7, <1>9, ReadingEnds

LEMMA AllOutputs ==
    ASSUME NEW z, NEW common, NEW n \in Nat, NEW S, NEW items \in Seq(S), Len(items) = n,
           NEW pos \in [0 .. n -> Nat],
           ReadsOutputs(z, common, items, pos, n)
    PROVE  OutputsAt(z, n, pos[0], common) = [items |-> items, offset |-> pos[n]]
  <1> DEFINE Body(g) ==
          [k \in 0 .. n |->
              IF k = 0 THEN [items |-> <<>>, offset |-> pos[0]]
              ELSE [items |-> Append(g[k - 1].items, ReadOutput(z, g[k - 1].offset, common).value),
                    offset |-> g[k - 1].offset + ReadOutput(z, g[k - 1].offset, common).read]]
  <1>1. PICK read : read = [o \in Nat |-> ReadOutput(z, o, common)]
    OBVIOUS
  <1>2. \A o \in Nat : read[o] = ReadOutput(z, o, common)
    BY <1>1
  <1>3. Follows(read, items, pos, n)
    <2>1. \A k \in 1 .. n : pos[k - 1] \in Nat
      OBVIOUS
    <2> QED
      BY <1>2, <2>1 DEF Follows, ReadsOutputs
  <1>4. PICK w : /\ w = [k \in 0 .. n |-> w[k]]
                 /\ \A k \in 0 .. n : w[k].offset \in Nat
                 /\ IsReading(w, read, n, pos[0])
    BY <1>3, ReadingStarts
  <1>5. w = Body(w)
    <2>1. ASSUME NEW k \in 0 .. n
          PROVE  w[k] = IF k = 0 THEN [items |-> <<>>, offset |-> pos[0]]
                        ELSE [items |-> Append(w[k - 1].items, ReadOutput(z, w[k - 1].offset, common).value),
                              offset |-> w[k - 1].offset + ReadOutput(z, w[k - 1].offset, common).read]
      <3>1. CASE k = 0
        BY <1>4, <3>1 DEF IsReading
      <3>2. CASE k # 0
        <4>1. k \in 1 .. n /\ k - 1 \in 0 .. n
          BY <3>2
        <4>2. w[k - 1].offset \in Nat
          BY <1>4, <4>1
        <4>3. read[w[k - 1].offset] = ReadOutput(z, w[k - 1].offset, common)
          BY <1>2, <4>2
        <4>4. w[k] = [items |-> Append(w[k - 1].items, read[w[k - 1].offset].value),
                      offset |-> w[k - 1].offset + read[w[k - 1].offset].read]
          BY <1>4, <4>1, <4>2 DEF IsReading
        <4> QED
          BY <3>2, <4>3, <4>4
      <3> QED
        BY <3>1, <3>2
    <2> QED
      BY <1>4, <2>1
  <1>6. PICK g : g = CHOOSE h : h = Body(h)
    OBVIOUS
  <1>7. OutputsAt(z, n, pos[0], common) = g[n]
    BY <1>6 DEF OutputsAt, ReadAll
  <1> HIDE DEF Body
  <1>8. g = Body(g)
    BY <1>5, <1>6
  <1>9. IsReading(g, read, n, pos[0])
    <2>1. g[0] = [items |-> <<>>, offset |-> pos[0]]
      BY <1>8 DEF Body
    <2>2. ASSUME NEW k \in 1 .. n, g[k - 1].offset \in Nat
          PROVE  g[k] = [items |-> Append(g[k - 1].items, read[g[k - 1].offset].value),
                         offset |-> g[k - 1].offset + read[g[k - 1].offset].read]
      <3>3. k \in 0 .. n /\ k # 0
        OBVIOUS
      <3>1. g[k] = [items |-> Append(g[k - 1].items, ReadOutput(z, g[k - 1].offset, common).value),
                    offset |-> g[k - 1].offset + ReadOutput(z, g[k - 1].offset, common).read]
        BY <1>8, <3>3 DEF Body
      <3>2. read[g[k - 1].offset] = ReadOutput(z, g[k - 1].offset, common)
        BY <1>2, <2>2
      <3> QED
        BY <3>1, <3>2
    <2> QED
      BY <2>1, <2>2 DEF IsReading
  <1> QED
    BY <1>3, <1>7, <1>9, ReadingEnds

-----------------------------------------------------------------------------
(* The table of addresses only grows, and keeps the number of an address.   *)
AddsAddress(t, a, A) ==
    /\ WithAddress(t, a) \in Seq(A)
    /\ AddressId(t, a) \in Nat /\ AddressId(t, a) + 1 <= Len(WithAddress(t, a))
    /\ WithAddress(t, a)[AddressId(t, a) + 1] = a
    /\ Len(t) <= Len(WithAddress(t, a))
    /\ \A j \in 1 .. Len(t) : WithAddress(t, a)[j] = t[j]

LEMMA AddressAdded ==
    ASSUME NEW A, NEW t \in Seq(A), NEW a \in A
    PROVE  AddsAddress(t, a, A)
  <1> USE DEF AddsAddress
  <1>1. PICK n \in Nat : n = Len(t)
    OBVIOUS
  <1>2. PICK at : at = Place(t, a)
    OBVIOUS
  <1>3. CASE Contains(t, a)
    <2>1. at \in 1 .. n /\ t[at] = a
      BY <1>1, <1>2, <1>3, PlaceOf
    <2>2. AddressId(t, a) = at - 1 /\ WithAddress(t, a) = t
      BY <1>2, <1>3 DEF AddressId, WithAddress, Place
    <2>3. at - 1 \in Nat /\ (at - 1) + 1 = at /\ at <= n
      BY <2>1
    <2> QED
      BY <1>1, <2>1, <2>2, <2>3
  <1>4. CASE ~Contains(t, a)
    <2>1. AddressId(t, a) = n /\ WithAddress(t, a) = Append(t, a)
      BY <1>1, <1>4 DEF AddressId, WithAddress
    <2>2. /\ Append(t, a) \in Seq(A) /\ Len(Append(t, a)) = n + 1 /\ Append(t, a)[n + 1] = a
          /\ \A j \in 1 .. n : Append(t, a)[j] = t[j]
      BY <1>1
    <2> QED
      BY <1>1, <2>1, <2>2
  <1> QED
    BY <1>3, <1>4

IsPayment(table, paid, A) ==
    table \in Seq(A) /\ (\E O : paid \in Seq(O)) /\ \A i \in 1 .. Len(paid) : paid[i].address \in A

AddressesKept(paid, tables) ==
    \A i \in 1 .. Len(paid) :
        /\ AddressId(tables[i], paid[i].address) \in Nat
        /\ tables[Len(paid) + 1][AddressId(tables[i], paid[i].address) + 1] = paid[i].address

LEMMA TablesKeepAddresses ==
    ASSUME NEW A, NEW table, NEW paid, IsPayment(table, paid, A),
           NEW tables, tables = AddressTables(table, paid)
    PROVE  tables \in [1 .. Len(paid) + 1 -> Seq(A)] /\ AddressesKept(paid, tables)
  <1> SUFFICES ASSUME table \in Seq(A), NEW O, paid \in Seq(O), \A i \in 1 .. Len(paid) : paid[i].address \in A,
                      NEW n \in Nat, n = Len(paid)
               PROVE  /\ tables \in [1 .. n + 1 -> Seq(A)]
                      /\ \A i \in 1 .. n :
                             /\ AddressId(tables[i], paid[i].address) \in Nat
                             /\ tables[n + 1][AddressId(tables[i], paid[i].address) + 1] = paid[i].address
    BY DEF IsPayment, AddressesKept
  <1> DEFINE Body(g) == [i \in 1 .. Len(paid) + 1 |->
                            IF i = 1 THEN table ELSE WithAddress(g[i - 1], paid[i - 1].address)]
  <1>1. PICK W : W = Seq(A)
    OBVIOUS
  <1>2. PICK F : F = [p \in (0 .. n) \X W |-> IF p[1] = 0 THEN table ELSE WithAddress(p[2], paid[p[1]].address)]
    OBVIOUS
  <1>3. \A k \in 0 .. n : \A t \in W : F[<<k, t>>] = IF k = 0 THEN table ELSE WithAddress(t, paid[k].address)
    BY <1>2
  <1>4. F \in [(0 .. n) \X W -> W]
    <2>1. ASSUME NEW k \in 0 .. n, NEW t \in W
          PROVE  F[<<k, t>>] \in W
      <3>1. CASE k = 0
        <4>1. F[<<k, t>>] = table
          BY <1>3, <3>1
        <4> QED
          BY <1>1, <4>1
      <3>2. CASE k # 0
        <4>1. paid[k].address \in A
          BY <3>2
        <4>2. WithAddress(t, paid[k].address) \in Seq(A)
          BY <1>1, <4>1, AddressAdded DEF AddsAddress
        <4> QED
          BY <1>1, <1>3, <3>2, <4>2
      <3> QED
        BY <3>1, <3>2
    <2>2. F = [p \in (0 .. n) \X W |-> F[p]]
      BY <1>2
    <2> QED
      BY <2>1, <2>2, OfPairs
  <1>5. table \in W
    BY <1>1
  <1>6. PICK h : IsAscent(h, n, W, table, F)
    BY <1>4, <1>5, AscentSolved
  <1>7. PICK f : f = [i \in 1 .. n + 1 |-> h[i - 1]]
    OBVIOUS
  <1>8. f = Body(f)
    <2>1. ASSUME NEW i \in 1 .. n + 1
          PROVE  f[i] = IF i = 1 THEN table ELSE WithAddress(f[i - 1], paid[i - 1].address)
      <3>1. i - 1 \in 0 .. n /\ f[i] = h[i - 1]
        BY <1>7
      <3>2. CASE i = 1
        <4>3. 0 \in 0 .. n
          OBVIOUS
        <4>1. h[0] = table
          BY <1>6, <4>3 DEF IsAscent
        <4>2. i - 1 = 0
          BY <3>2
        <4> QED
          BY <3>1, <3>2, <4>1, <4>2
      <3>3. CASE i # 1
        <4>1. i - 1 # 0 /\ (i - 1) - 1 \in 0 .. n /\ i - 1 \in 1 .. n + 1
          BY <3>3
        <4>2. h[i - 1] = F[<<i - 1, h[(i - 1) - 1]>>] /\ h[(i - 1) - 1] \in W
          BY <1>6, <3>1, <4>1 DEF IsAscent
        <4>3. h[i - 1] = WithAddress(h[(i - 1) - 1], paid[i - 1].address)
          BY <1>3, <3>1, <4>1, <4>2
        <4>4. f[i - 1] = h[(i - 1) - 1]
          BY <1>7, <4>1
        <4> QED
          BY <3>1, <3>3, <4>3, <4>4
      <3> QED
        BY <3>2, <3>3
    <2> QED
      BY <1>7, <2>1
  <1>9. tables = CHOOSE g : g = Body(g)
    BY DEF AddressTables
  <1>10. tables = Body(tables)
    <2> HIDE DEF Body
    <2> QED
      BY <1>8, <1>9
  <1>11. /\ DOMAIN tables = 1 .. n + 1
         /\ \A i \in 1 .. n + 1 : tables[i] = IF i = 1 THEN table ELSE WithAddress(tables[i - 1], paid[i - 1].address)
    BY <1>10
  <1> HIDE DEF Body
  <1> DEFINE Id(q) == AddressId(tables[q], paid[q].address)
             Right(i) == /\ tables[i] \in Seq(A)
                         /\ \A q \in 1 .. i - 1 : /\ Id(q) \in Nat /\ Id(q) + 1 <= Len(tables[i])
                                                  /\ tables[i][Id(q) + 1] = paid[q].address
             Bad == {i \in 1 .. n + 1 : ~Right(i)}
  <1>12. Bad = {}
    <2> SUFFICES ASSUME Bad # {}
                 PROVE  FALSE
      OBVIOUS
    <2>1. PICK i \in Bad : \A j \in Bad : i <= j
      <3>1. Bad \in SUBSET Nat
        OBVIOUS
      <3> HIDE DEF Bad
      <3> QED
        BY <3>1, LeastValue
    <2>2. i \in 1 .. n + 1 /\ ~Right(i)
      OBVIOUS
    <2>3. CASE i = 1
      <3>1. tables[i] = table
        BY <1>11, <2>2, <2>3
      <3>2. 1 .. i - 1 = {}
        BY <2>3
      <3> QED
        BY <2>2, <3>1, <3>2
    <2>4. CASE i # 1
      <3>1. PICK k \in 1 .. n : i = k + 1
        <4>1. i - 1 \in 1 .. n /\ i = (i - 1) + 1
          BY <2>2, <2>4
        <4> QED
          BY <4>1
      <3>2. Right(k)
        <4>1. k \in 1 .. n + 1 /\ ~(i <= k)
          BY <3>1
        <4>2. k \notin Bad
          <5> HIDE DEF Bad
          <5> QED
            BY <2>1, <4>1
        <4> HIDE DEF Right
        <4> QED
          BY <4>1, <4>2
      <3>3. PICK a \in A : a = paid[k].address
        BY <3>1
      <3>4. tables[i] = WithAddress(tables[k], a) /\ tables[k] \in Seq(A)
        <4>1. i - 1 = k
          BY <3>1
        <4> QED
          BY <1>11, <2>2, <2>4, <3>2, <3>3, <4>1
      <3>8. /\ WithAddress(tables[k], a) \in Seq(A)
            /\ AddressId(tables[k], a) \in Nat
            /\ AddressId(tables[k], a) + 1 <= Len(WithAddress(tables[k], a))
            /\ WithAddress(tables[k], a)[AddressId(tables[k], a) + 1] = a
            /\ Len(tables[k]) <= Len(WithAddress(tables[k], a))
            /\ \A j \in 1 .. Len(tables[k]) : WithAddress(tables[k], a)[j] = tables[k][j]
        <4>1. tables[k] \in Seq(A)
          BY <3>4
        <4>2. a \in A
          BY <3>3
        <4>3. AddsAddress(tables[k], a, A)
          BY <4>1, <4>2, AddressAdded
        <4> QED
          BY <4>3 DEF AddsAddress
      <3>5. PICK old \in Nat, new \in Nat : old = Len(tables[k]) /\ new = Len(tables[i]) /\ old <= new
        <4>1. Len(tables[k]) \in Nat
          BY <3>4
        <4>2. tables[i] \in Seq(A) /\ Len(tables[k]) <= Len(tables[i])
          BY <3>4, <3>8
        <4>3. Len(tables[i]) \in Nat
          BY <4>2
        <4> QED
          BY <4>1, <4>2, <4>3
      <3>6. ASSUME NEW q \in 1 .. i - 1
            PROVE  /\ Id(q) \in Nat /\ Id(q) + 1 <= new
                   /\ tables[i][Id(q) + 1] = paid[q].address
        <4>1. CASE q = k
          <5>1. Id(q) = AddressId(tables[k], a)
            BY <3>3, <4>1
          <5>2. /\ AddressId(tables[k], a) \in Nat
                /\ AddressId(tables[k], a) + 1 <= Len(WithAddress(tables[k], a))
                /\ WithAddress(tables[k], a)[AddressId(tables[k], a) + 1] = a
            BY <3>4, <3>8
          <5> HIDE DEF Id
          <5> QED
            BY <3>3, <3>4, <3>5, <4>1, <5>1, <5>2
        <4>2. CASE q # k
          <5>1. q \in 1 .. k - 1
            BY <3>1, <4>2
          <5>2. Id(q) \in Nat /\ Id(q) + 1 <= old /\ tables[k][Id(q) + 1] = paid[q].address
            BY <3>2, <3>5, <5>1
          <5>3. \A j \in 1 .. old : tables[i][j] = tables[k][j]
            BY <3>4, <3>5, <3>8
          <5>4. PICK j \in 1 .. old : j = Id(q) + 1
            BY <5>2
          <5>5. Id(q) + 1 <= new
            BY <3>5, <5>2
          <5> HIDE DEF Id
          <5> QED
            BY <5>2, <5>3, <5>4, <5>5
        <4> QED
          BY <4>1, <4>2
      <3>7. tables[i] \in Seq(A)
        BY <3>4, <3>8
      <3> HIDE DEF Id
      <3> QED
        BY <2>2, <3>5, <3>6, <3>7
    <2> QED
      BY <2>3, <2>4
  <1>13. \A i \in 1 .. n + 1 : Right(i)
    BY <1>12
  <1>14. tables \in [1 .. n + 1 -> Seq(A)]
    <2>1. tables = [i \in 1 .. n + 1 |-> tables[i]]
      BY <1>10 DEF Body
    <2> QED
      BY <1>13, <2>1
  <1>15. n + 1 \in 1 .. n + 1 /\ (n + 1) - 1 = n
    OBVIOUS
  <1> QED
    BY <1>13, <1>14, <1>15

(***************************************************************************)
(* The inputs and outputs of a compact transaction                         *)
(***************************************************************************)

(* An input and an output after the way through the compact form.           *)
ShortInput(input) ==
    [previousTxId |-> ShortHash(input.previousTxId), outputIndex |-> input.outputIndex, script |-> input.script]

NumberedOutput(output, table) ==
    [value |-> output.value, address |-> AddressId(table, output.address)]

CompactOutput(output, table, common) ==
    EncodeCompressedAmount(output.value, common) \o <<AddressId(table, output.address)>>

(* What fits into the fields of the compact form.                           *)
Fits(input, U) ==
    /\ ShortHash(input.previousTxId) \in U /\ input.outputIndex \in U
    /\ input.script \in Seq(U) /\ Len(input.script) < ScriptModulus

LEMMA OneAfterTheOther ==
    ASSUME NEW U, NEW s \in Seq(U), NEW t \in Seq(U)
    PROVE  s \o t \in Seq(U) /\ Len(s \o t) = Len(s) + Len(t)
  OBVIOUS

LEMMA InputRead ==
    ASSUME NEW U, Nat \subseteq U, NEW z \in Seq(U), NEW i \in Nat \ {0}, NEW input, Fits(input, U),
           Holds(z, i, CompactInput(input))
    PROVE  ReadInput(z, i) = [value |-> ShortInput(input), read |-> Len(CompactInput(input))]
  <1>1. PICK short \in U, index \in U, script \in Seq(U) :
            short = ShortHash(input.previousTxId) /\ index = input.outputIndex /\ script = input.script
    BY DEF Fits
  <1>2. PICK n \in Nat : n = Len(script)
    OBVIOUS
  <1>3. n % ScriptModulus = n
    <2>1. n < ScriptModulus
      BY <1>1, <1>2 DEF Fits
    <2>2. ScriptModulus \in Nat
      BY EnginesAssumption
    <2>3. \A m \in Nat : n < m => n % m = n
      OBVIOUS
    <2> QED
      BY <2>1, <2>2, <2>3
  <1>4. PICK head : head = <<short, index, n>>
    OBVIOUS
  <1>5. CompactInput(input) = head \o script
    BY <1>1, <1>2, <1>3, <1>4 DEF CompactInput
  <1>6. head \in Seq(U) /\ Len(head) = 3 /\ head[1] = short /\ head[2] = index /\ head[3] = n
    <2>1. n \in U
      OBVIOUS
    <2> QED
      BY <1>1, <1>4, <2>1
  <1>7. Len(CompactInput(input)) = 3 + n
    <2>1. Len(head \o script) = Len(head) + Len(script)
      BY <1>1, <1>6, OneAfterTheOther
    <2> QED
      BY <1>2, <1>5, <1>6, <2>1
  <1>8. Holds(z, i, head) /\ Holds(z, i + 3, script)
    <2>1. Holds(z, i, head \o script)
      BY <1>5
    <2>2. Holds(z, i, head) /\ Holds(z, i + Len(head), script)
      BY <1>1, <1>6, <2>1, HoldsParts
    <2> QED
      BY <1>6, <2>2
  <1>9. z[i] = short /\ z[i + 1] = index /\ z[i + 2] = n
    <2>1. \A j \in 1 .. 3 : z[i + j - 1] = head[j]
      BY <1>6, <1>8 DEF Holds
    <2>2. i + 1 - 1 = i /\ i + 2 - 1 = i + 1 /\ i + 3 - 1 = i + 2
      OBVIOUS
    <2>3. z[i + 1 - 1] = head[1] /\ z[i + 2 - 1] = head[2] /\ z[i + 3 - 1] = head[3]
      BY <2>1
    <2> QED
      BY <1>6, <2>2, <2>3
  <1>10. SubSeq(z, i + 3, i + 2 + n) = script
    <2>1. i + 3 \in Nat \ {0} /\ (i + 3) + n - 1 = i + 2 + n
      OBVIOUS
    <2>2. SubSeq(z, i + 3, (i + 3) + Len(script) - 1) = script
      BY <1>1, <1>8, <2>1, HoldsSubSeq
    <2> QED
      BY <1>2, <2>1, <2>2
  <1>11. ShortInput(input) = [previousTxId |-> short, outputIndex |-> index, script |-> script]
    BY <1>1 DEF ShortInput
  <1>12. ReadInput(z, i)
             = [value |-> [previousTxId |-> z[i], outputIndex |-> z[i + 1], script |-> SubSeq(z, i + 3, i + 2 + n)],
                read |-> 3 + n]
    BY <1>9 DEF ReadInput
  <1> QED
    BY <1>7, <1>9, <1>10, <1>11, <1>12

LEMMA AmountIsBytes ==
    ASSUME NEW amount \in Nat, NEW common \in Seq(Nat)
    PROVE  EncodeCompressedAmount(amount, common) \in Seq(0 .. 255)
  <1>1. PICK at : at = Place(common, amount)
    OBVIOUS
  <1>2. EncodeCompressedAmount(amount, common)
            = IF at # 0 /\ at <= 128 THEN <<128 + at - 1>> ELSE <<0>> \o EncodeVarint(amount)
    BY <1>1 DEF EncodeCompressedAmount, Place
  <1>3. CASE at # 0 /\ at <= 128
    <2>1. at \in 1 .. Len(common)
      BY <1>1, <1>3, PlaceOf
    <2>2. 128 + at - 1 \in 0 .. 255
      BY <1>3, <2>1
    <2> QED
      BY <1>2, <1>3, <2>2
  <1>4. CASE ~(at # 0 /\ at <= 128)
    <2>1. PICK v \in Seq(0 .. 255) : v = EncodeVarint(amount)
      BY VarintIsBytes
    <2>2. <<0>> \o v \in Seq(0 .. 255)
      OBVIOUS
    <2> QED
      BY <1>2, <1>4, <2>1, <2>2
  <1> QED
    BY <1>3, <1>4

AreAmounts(common) == common \in Seq(Nat)

LEMMA OutputRead ==
    ASSUME NEW U, Nat \subseteq U, NEW z \in Seq(U), NEW i \in Nat \ {0}, NEW output, output.value \in Nat,
           NEW common, AreAmounts(common), NEW table, AddressId(table, output.address) \in Nat,
           Holds(z, i, CompactOutput(output, table, common))
    PROVE  /\ CompactOutput(output, table, common) \in Seq(U)
           /\ ReadOutput(z, i, common) = [value |-> NumberedOutput(output, table),
                                          read |-> Len(CompactOutput(output, table, common))]
  <1>1. PICK value \in Nat, id \in Nat : value = output.value /\ id = AddressId(table, output.address)
    OBVIOUS
  <1>2. PICK s : s = EncodeCompressedAmount(value, common)
    OBVIOUS
  <1>3. s \in Seq(U)
    <2>1. s \in Seq(0 .. 255)
      BY <1>1, <1>2, AmountIsBytes DEF AreAmounts
    <2>2. 0 .. 255 \subseteq U
      <3>1. \A x \in 0 .. 255 : x \in Nat
        OBVIOUS
      <3> QED
        BY <3>1
    <2> QED
      BY <2>1, <2>2, WiderSequence, ZenonT(60)
  <1>4. PICK n \in Nat : n = Len(s)
    BY <1>3
  <1>5. PICK last : last = <<id>>
    OBVIOUS
  <1>6. last \in Seq(U) /\ Len(last) = 1 /\ last[1] = id
    <2>1. id \in U
      BY <1>1
    <2> QED
      BY <1>5, <2>1
  <1>7. CompactOutput(output, table, common) = s \o last
    BY <1>1, <1>2, <1>5 DEF CompactOutput
  <1>8. s \o last \in Seq(U) /\ Len(s \o last) = n + 1
    <2>1. \A t \in Seq(U) : s \o t \in Seq(U) /\ Len(s \o t) = Len(s) + Len(t)
      BY <1>3
    <2> QED
      BY <1>4, <1>6, <2>1
  <1>9. Holds(z, i, s) /\ Holds(z, i + n, last)
    <2>1. Holds(z, i, s \o last)
      BY <1>7
    <2> QED
      BY <1>3, <1>4, <1>6, <2>1, HoldsParts
  <1>10. z[i + n] = id
    <2>1. z[(i + n) + 1 - 1] = last[1]
      BY <1>6, <1>9 DEF Holds
    <2>2. (i + n) + 1 - 1 = i + n
      OBVIOUS
    <2> QED
      BY <1>6, <2>1, <2>2
  <1>11. ReadCompressedAmount(z, i, common) = [value |-> value, read |-> n]
    <2>1. 0 .. 255 \subseteq U
      <3>1. \A x \in 0 .. 255 : x \in Nat
        OBVIOUS
      <3> QED
        BY <3>1
    <2>2. Holds(z, i, EncodeCompressedAmount(value, common))
      BY <1>2, <1>9
    <2> QED
      BY <1>1, <1>2, <1>4, <2>1, <2>2, AmountRead DEF AreAmounts
  <1>12. ReadOutput(z, i, common) = [value |-> [value |-> value, address |-> z[i + n]], read |-> n + 1]
    BY <1>11 DEF ReadOutput
  <1>13. NumberedOutput(output, table) = [value |-> value, address |-> id]
    BY <1>1 DEF NumberedOutput
  <1> QED
    BY <1>7, <1>8, <1>10, <1>12, <1>13

(* The parts of a compact transaction, one after the other.                 *)
AreParts(z, common, inputCount, spent, outputCount, paid) ==
    /\ inputCount = ReadVarint(z, 2)
    /\ spent = InputsAt(z, inputCount.value, 2 + inputCount.read)
    /\ outputCount = ReadVarint(z, spent.offset)
    /\ paid = OutputsAt(z, outputCount.value, spent.offset + outputCount.read, common)

TransactionFrom(z, spent, paid, t) ==
    [id |-> z[1], inputs |-> spent, outputs |-> paid, fee |-> DecompressFee(z[t]),
     timestamp |-> z[t + 1] * 1000, lockTime |-> z[t + 2]]

LEMMA TransactionRead ==
    ASSUME NEW z, NEW common, NEW inputCount, NEW spent, NEW outputCount, NEW paid,
           AreParts(z, common, inputCount, spent, outputCount, paid)
    PROVE  DecompressUTXOTransaction(z, common) = TransactionFrom(z, spent.items, paid.items, paid.offset)
  <1> DEFINE P1 == ReadVarint(z, 2)
             P2 == InputsAt(z, P1.value, 2 + P1.read)
             P3 == ReadVarint(z, P2.offset)
             P4 == OutputsAt(z, P3.value, P2.offset + P3.read, common)
  <1>1. DecompressUTXOTransaction(z, common) = TransactionFrom(z, P2.items, P4.items, P4.offset)
    BY Zenon DEF DecompressUTXOTransaction, InputsAt, OutputsAt, TransactionFrom
  <1>2. inputCount = P1
    BY DEF AreParts
  <1>3. spent = P2
    BY <1>2, Zenon DEF AreParts
  <1>4. outputCount = P3
    BY <1>3, Zenon DEF AreParts
  <1>5. paid = P4
    BY <1>3, <1>4, Zenon DEF AreParts
  <1> HIDE DEF P1, P2, P3, P4
  <1> QED
    BY <1>1, <1>3, <1>5, Zenon

LEMMA CompactInputTyped ==
    ASSUME NEW U, Nat \subseteq U, NEW input, Fits(input, U)
    PROVE  CompactInput(input) \in Seq(U)
  <1>1. PICK short \in U, index \in U, script \in Seq(U) :
            short = ShortHash(input.previousTxId) /\ index = input.outputIndex /\ script = input.script
    BY DEF Fits
  <1>2. PICK n \in Nat : n = Len(script) % ScriptModulus
    <2>1. Len(script) \in Nat /\ Len(script) < ScriptModulus /\ ScriptModulus \in Nat
      BY <1>1, EnginesAssumption, SMTT(30) DEF Fits
    <2>2. \A k, m \in Nat : k < m => k % m \in Nat
      OBVIOUS
    <2> QED
      BY <2>1, <2>2
  <1>3. PICK head : head = <<short, index, n>>
    OBVIOUS
  <1>4. head \in Seq(U)
    <2>1. n \in U
      OBVIOUS
    <2> QED
      BY <1>1, <1>3, <2>1
  <1>5. CompactInput(input) = head \o script
    BY <1>1, <1>2, <1>3 DEF CompactInput
  <1> QED
    BY <1>1, <1>4, <1>5, OneAfterTheOther

LEMMA CompactOutputTyped ==
    ASSUME NEW U, Nat \subseteq U, NEW output, output.value \in Nat, NEW common, AreAmounts(common), NEW table,
           AddressId(table, output.address) \in Nat
    PROVE  CompactOutput(output, table, common) \in Seq(U)
  <1>1. PICK value \in Nat, id \in Nat : value = output.value /\ id = AddressId(table, output.address)
    OBVIOUS
  <1>2. PICK s \in Seq(0 .. 255) : s = EncodeCompressedAmount(value, common)
    BY AmountIsBytes DEF AreAmounts
  <1>3. s \in Seq(U)
    <2>1. \A x \in 0 .. 255 : x \in Nat
      OBVIOUS
    <2>2. 0 .. 255 \subseteq U
      BY <2>1
    <2> QED
      BY <2>2, WiderSequence
  <1>4. <<id>> \in Seq(U)
    <2>1. id \in U
      OBVIOUS
    <2> QED
      BY <2>1
  <1>5. CompactOutput(output, table, common) = s \o <<id>>
    BY <1>1, <1>2 DEF CompactOutput
  <1> QED
    BY <1>3, <1>4, <1>5, OneAfterTheOther

AllFit(inputs, n, U) == \A i \in 1 .. n : Fits(inputs[i], U)

CompactInputs(inputs, n) == [i \in 1 .. n |-> CompactInput(inputs[i])]

ShortInputs(inputs, n) == [i \in 1 .. n |-> ShortInput(inputs[i])]

LEMMA InputsRead ==
    ASSUME NEW U, Nat \subseteq U, NEW z \in Seq(U), NEW p \in Nat \ {0}, NEW n \in Nat, NEW inputs,
           AllFit(inputs, n, U),
           NEW parts, parts = CompactInputs(inputs, n),
           Holds(z, p, FlattenSeq(parts)),
           NEW items, items = ShortInputs(inputs, n)
    PROVE  InputsAt(z, n, p) = [items |-> items, offset |-> p + Len(FlattenSeq(parts))]
  <1>1. parts \in Seq(Seq(U)) /\ Len(parts) = n /\ \A i \in 1 .. n : parts[i] = CompactInput(inputs[i]) /\ parts[i] \in Seq(U)
    <2>1. PICK W : W = Seq(U)
      OBVIOUS
    <2>2. \A i \in 1 .. n : CompactInput(inputs[i]) \in W
      BY <2>1, CompactInputTyped DEF AllFit
    <2>3. parts \in Seq(W) /\ Len(parts) = n
      BY <2>2 DEF CompactInputs
    <2> QED
      BY <2>1, <2>2, <2>3 DEF CompactInputs
  <1>2. PICK flat \in Seq(U) : flat = FlattenSeq(parts)
    BY <1>1, Flattened
  <1>3. PICK pos : IsLayout(pos, parts, flat)
    BY <1>1, <1>2, Flattened
  <1>4. pos \in [0 .. n -> Nat] /\ pos[0] = 0 /\ Len(flat) = pos[n]
    BY <1>1, <1>3 DEF IsLayout
  <1>5. PICK at : at = [k \in 0 .. n |-> p + pos[k]]
    OBVIOUS
  <1>6. at \in [0 .. n -> Nat] /\ at[0] = p /\ at[n] = p + Len(flat)
    BY <1>4, <1>5
  <1>7. PICK S : S = {ShortInput(inputs[i]) : i \in 1 .. n}
    OBVIOUS
  <1>8. items \in Seq(S) /\ Len(items) = n /\ \A i \in 1 .. n : items[i] = ShortInput(inputs[i])
    BY <1>7 DEF ShortInputs
  <1>9. ASSUME NEW k \in 1 .. n
        PROVE  ReadInput(z, at[k - 1]) = [value |-> items[k], read |-> at[k] - at[k - 1]]
    <2>1. k - 1 \in 0 .. n /\ k \in 0 .. n
      OBVIOUS
    <2>2. PICK a \in Nat, b \in Nat : a = pos[k - 1] /\ b = pos[k]
      BY <1>4, <2>1
    <2>3. PICK piece \in Seq(U) : piece = CompactInput(inputs[k]) /\ piece = parts[k]
      BY <1>1
    <2>4. b = a + Len(piece) /\ Holds(flat, a + 1, piece)
      BY <1>1, <1>3, <2>2, <2>3 DEF IsLayout
    <2>5. Holds(z, p + (a + 1) - 1, piece)
      <3>1. a + 1 \in Nat \ {0}
        OBVIOUS
      <3>2. Holds(z, p, flat)
        BY <1>2
      <3> QED
        BY <2>4, <3>1, <3>2, HoldsTransitive
    <2>6. p + (a + 1) - 1 = p + a /\ p + a \in Nat \ {0}
      OBVIOUS
    <2>7. Holds(z, p + a, CompactInput(inputs[k]))
      BY <2>3, <2>5, <2>6
    <2>8. ReadInput(z, p + a) = [value |-> ShortInput(inputs[k]), read |-> Len(CompactInput(inputs[k]))]
      <3>1. Fits(inputs[k], U)
        BY DEF AllFit
      <3> QED
        BY <2>6, <2>7, <3>1, InputRead
    <2>9. at[k - 1] = p + a /\ at[k] = p + b
      BY <1>5, <2>1, <2>2
    <2>10. at[k] - at[k - 1] = Len(piece)
      BY <2>3, <2>4, <2>9
    <2> QED
      BY <1>8, <2>3, <2>8, <2>9, <2>10
  <1>10. InputsAt(z, n, at[0]) = [items |-> items, offset |-> at[n]]
    <2>1. ReadsInputs(z, items, at, n)
      BY <1>9 DEF ReadsInputs
    <2>2. at \in [0 .. n -> Nat] /\ items \in Seq(S) /\ Len(items) = n
      BY <1>6, <1>8
    <2> QED
      BY <2>1, <2>2, AllInputs, ZenonT(60)
  <1> QED
    BY <1>2, <1>6, <1>10

Payable(paid, tables, n) ==
    \A i \in 1 .. n : paid[i].value \in Nat /\ AddressId(tables[i], paid[i].address) \in Nat

CompactOutputs(paid, tables, common, n) == [i \in 1 .. n |-> CompactOutput(paid[i], tables[i], common)]

NumberedOutputs(paid, tables, n) == [i \in 1 .. n |-> NumberedOutput(paid[i], tables[i])]

IsRun(at, items, n) ==
    n \in Nat /\ at \in [0 .. n -> Nat] /\ Len(items) = n /\ \E S : items \in Seq(S)

LEMMA OutputsOfRun ==
    ASSUME NEW z, NEW common, NEW items, NEW at, NEW n, IsRun(at, items, n), ReadsOutputs(z, common, items, at, n)
    PROVE  OutputsAt(z, n, at[0], common) = [items |-> items, offset |-> at[n]]
  <1>1. PICK S : n \in Nat /\ at \in [0 .. n -> Nat] /\ Len(items) = n /\ items \in Seq(S)
    BY DEF IsRun
  <1> QED
    BY <1>1, AllOutputs, SMTT(30)

AreOutputs(U, z, p, n, paid, tables, common) ==
    /\ Nat \subseteq U /\ z \in Seq(U) /\ p \in Nat \ {0} /\ n \in Nat
    /\ AreAmounts(common) /\ Payable(paid, tables, n)
    /\ Holds(z, p, FlattenSeq(CompactOutputs(paid, tables, common, n)))

LEMMA OutputsRead ==
    ASSUME NEW U, NEW z, NEW p, NEW n, NEW paid, NEW tables, NEW common, AreOutputs(U, z, p, n, paid, tables, common)
    PROVE  OutputsAt(z, n, p, common)
               = [items |-> NumberedOutputs(paid, tables, n),
                  offset |-> p + Len(FlattenSeq(CompactOutputs(paid, tables, common, n)))]
  <1> DEFINE parts == CompactOutputs(paid, tables, common, n)
             items == NumberedOutputs(paid, tables, n)
  <1>0. /\ Nat \subseteq U /\ z \in Seq(U) /\ p \in Nat \ {0} /\ n \in Nat
        /\ AreAmounts(common) /\ Payable(paid, tables, n) /\ Holds(z, p, FlattenSeq(parts))
    BY DEF AreOutputs
  <1>1. parts \in Seq(Seq(U)) /\ Len(parts) = n
            /\ \A i \in 1 .. n : parts[i] = CompactOutput(paid[i], tables[i], common) /\ parts[i] \in Seq(U)
    <2>1. PICK W : W = Seq(U)
      BY <1>0
    <2>2. \A i \in 1 .. n : CompactOutput(paid[i], tables[i], common) \in W
      BY <1>0, <2>1, CompactOutputTyped DEF Payable
    <2>3. parts \in Seq(W) /\ Len(parts) = n
      BY <1>0, <2>2 DEF CompactOutputs
    <2> QED
      BY <1>0, <2>1, <2>2, <2>3 DEF CompactOutputs
  <1>2. PICK flat \in Seq(U) : flat = FlattenSeq(parts)
    BY <1>0, <1>1, Flattened
  <1>3. PICK pos : IsLayout(pos, parts, flat)
    BY <1>0, <1>1, <1>2, Flattened
  <1>4. pos \in [0 .. n -> Nat] /\ pos[0] = 0 /\ Len(flat) = pos[n]
    BY <1>0, <1>1, <1>3 DEF IsLayout
  <1>5. PICK at : at = [k \in 0 .. n |-> p + pos[k]]
    BY <1>0
  <1>6. at \in [0 .. n -> Nat] /\ at[0] = p /\ at[n] = p + Len(flat)
    BY <1>0, <1>4, <1>5
  <1>7. PICK S : S = {NumberedOutput(paid[i], tables[i]) : i \in 1 .. n}
    BY <1>0
  <1>8. items \in Seq(S) /\ Len(items) = n /\ \A i \in 1 .. n : items[i] = NumberedOutput(paid[i], tables[i])
    BY <1>0, <1>7 DEF NumberedOutputs
  <1>9. ASSUME NEW k \in 1 .. n
        PROVE  ReadOutput(z, at[k - 1], common) = [value |-> items[k], read |-> at[k] - at[k - 1]]
    <2>1. k - 1 \in 0 .. n /\ k \in 0 .. n
      BY <1>0
    <2>2. PICK a \in Nat, b \in Nat : a = pos[k - 1] /\ b = pos[k]
      BY <1>0, <1>4, <2>1
    <2>3. PICK piece \in Seq(U) : piece = CompactOutput(paid[k], tables[k], common) /\ piece = parts[k]
      BY <1>0, <1>1
    <2>4. b = a + Len(piece) /\ Holds(flat, a + 1, piece)
      BY <1>0, <1>1, <1>3, <2>2, <2>3 DEF IsLayout
    <2>5. Holds(z, p + (a + 1) - 1, piece)
      <3>1. a + 1 \in Nat \ {0}
        BY <1>0
      <3>2. Holds(z, p, flat)
        BY <1>0, <1>2
      <3> QED
        BY <1>0, <2>4, <3>1, <3>2, HoldsTransitive
    <2>6. p + (a + 1) - 1 = p + a /\ p + a \in Nat \ {0}
      BY <1>0
    <2>7. Holds(z, p + a, CompactOutput(paid[k], tables[k], common))
      BY <1>0, <2>3, <2>5, <2>6
    <2>8. ReadOutput(z, p + a, common)
              = [value |-> NumberedOutput(paid[k], tables[k]), read |-> Len(CompactOutput(paid[k], tables[k], common))]
      <3>1. PICK output, table : output = paid[k] /\ table = tables[k]
        BY <1>0
      <3>2. output.value \in Nat /\ AddressId(table, output.address) \in Nat
        BY <1>0, <3>1 DEF Payable
      <3>3. PICK i \in Nat \ {0} : i = p + a
        BY <1>0, <2>6
      <3>4. Holds(z, i, CompactOutput(output, table, common))
        BY <1>0, <2>7, <3>1, <3>3
      <3>5. ReadOutput(z, i, common) = [value |-> NumberedOutput(output, table),
                                       read |-> Len(CompactOutput(output, table, common))]
        BY <1>0, <3>2, <3>3, <3>4, OutputRead
      <3> QED
        BY <1>0, <3>1, <3>3, <3>5
    <2>9. at[k - 1] = p + a /\ at[k] = p + b
      BY <1>0, <1>5, <2>1, <2>2
    <2>10. at[k] - at[k - 1] = Len(piece)
      BY <1>0, <2>3, <2>4, <2>9
    <2> QED
      BY <1>0, <1>8, <2>3, <2>8, <2>9, <2>10
  <1>10. OutputsAt(z, n, at[0], common) = [items |-> items, offset |-> at[n]]
    <2>1. ReadsOutputs(z, common, items, at, n)
      BY <1>0, <1>9 DEF ReadsOutputs
    <2>2. IsRun(at, items, n)
      BY <1>0, <1>6, <1>8 DEF IsRun
    <2> QED
      BY <1>0, <2>1, <2>2, OutputsOfRun
  <1> QED
    BY <1>0, <1>2, <1>6, <1>10

LEMMA HoldsFirstParts ==
    ASSUME NEW U, NEW z \in Seq(U), NEW s \in Seq(U), NEW t \in Seq(U), NEW whole, whole = s \o t, Holds(z, 1, whole)
    PROVE  Holds(z, 1, s) /\ Holds(z, 1 + Len(s), t)
  <1>1. 1 \in Nat \ {0} /\ Holds(z, 1, s \o t)
    OBVIOUS
  <1> QED
    BY <1>1, HoldsParts

IsSixParts(z, U, a, b, c, d, e, f) ==
    /\ a \in Seq(U) /\ b \in Seq(U) /\ c \in Seq(U) /\ d \in Seq(U) /\ e \in Seq(U) /\ f \in Seq(U)
    /\ z = a \o b \o c \o d \o e \o f

ArePlaces(p, q, r, s, t, a, b, c, d, e) ==
    p = 1 + Len(a) /\ q = p + Len(b) /\ r = q + Len(c) /\ s = r + Len(d) /\ t = s + Len(e)

LEMMA SixParts ==
    ASSUME NEW U, NEW z, NEW a, NEW b, NEW c, NEW d, NEW e, NEW f, IsSixParts(z, U, a, b, c, d, e, f),
           NEW p, NEW q, NEW r, NEW s, NEW t, ArePlaces(p, q, r, s, t, a, b, c, d, e)
    PROVE  /\ z \in Seq(U)
           /\ Holds(z, 1, a) /\ Holds(z, p, b) /\ Holds(z, q, c) /\ Holds(z, r, d) /\ Holds(z, s, e) /\ Holds(z, t, f)
  <1>0. /\ a \in Seq(U) /\ b \in Seq(U) /\ c \in Seq(U) /\ d \in Seq(U) /\ e \in Seq(U) /\ f \in Seq(U)
        /\ z = a \o b \o c \o d \o e \o f
    BY DEF IsSixParts
  <1>1. PICK ab \in Seq(U) : ab = a \o b /\ Len(ab) = Len(a) + Len(b)
    BY <1>0, OneAfterTheOther
  <1>2. PICK abc \in Seq(U) : abc = ab \o c /\ Len(abc) = Len(ab) + Len(c)
    BY <1>0, OneAfterTheOther
  <1>3. PICK abcd \in Seq(U) : abcd = abc \o d /\ Len(abcd) = Len(abc) + Len(d)
    BY <1>0, OneAfterTheOther
  <1>4. PICK five \in Seq(U) : five = abcd \o e /\ Len(five) = Len(abcd) + Len(e)
    BY <1>0, OneAfterTheOther
  <1>5. z = five \o f /\ z \in Seq(U)
    BY <1>0, <1>1, <1>2, <1>3, <1>4, OneAfterTheOther
  <1>6. Holds(z, 1, five) /\ Holds(z, 1 + Len(five), f)
    <2>1. Holds(z, 1, z)
      BY <1>5, HoldsSelf
    <2> QED
      BY <1>4, <1>5, <2>1, <1>0, HoldsFirstParts
  <1>7. Holds(z, 1, abcd) /\ Holds(z, 1 + Len(abcd), e)
    BY <1>3, <1>4, <1>5, <1>6, <1>0, HoldsFirstParts
  <1>8. Holds(z, 1, abc) /\ Holds(z, 1 + Len(abc), d)
    BY <1>2, <1>3, <1>5, <1>7, <1>0, HoldsFirstParts
  <1>9. Holds(z, 1, ab) /\ Holds(z, 1 + Len(ab), c)
    BY <1>1, <1>2, <1>5, <1>8, <1>0, HoldsFirstParts
  <1>10. Holds(z, 1, a) /\ Holds(z, 1 + Len(a), b)
    BY <1>1, <1>5, <1>9, <1>0, HoldsFirstParts
  <1>11. 1 + Len(a) = p /\ 1 + Len(ab) = q /\ 1 + Len(abc) = r /\ 1 + Len(abcd) = s /\ 1 + Len(five) = t
    <2>1. Len(a) \in Nat /\ Len(b) \in Nat /\ Len(c) \in Nat /\ Len(d) \in Nat /\ Len(e) \in Nat
      BY <1>0
    <2> QED
      BY <1>1, <1>2, <1>3, <1>4, <2>1 DEF ArePlaces
  <1> QED
    BY <1>5, <1>6, <1>7, <1>8, <1>9, <1>10, <1>11

(* What the compact form has room for.                                      *)
Compactable(tx, table, common, U, A) ==
    /\ Nat \subseteq U /\ tx.id \in U /\ tx.fee \in Nat /\ tx.timestamp \in Nat /\ tx.lockTime \in Nat
    /\ \E I : tx.inputs \in Seq(I)
    /\ \A i \in 1 .. Len(tx.inputs) : Fits(tx.inputs[i], U)
    /\ \E O : tx.outputs \in Seq(O)
    /\ \A i \in 1 .. Len(tx.outputs) : tx.outputs[i].value \in Nat /\ tx.outputs[i].address \in A
    /\ table \in Seq(A) /\ AreAmounts(common)

KeptOf(tx, tables) ==
    [id |-> tx.id, inputs |-> ShortInputs(tx.inputs, Len(tx.inputs)),
     outputs |-> NumberedOutputs(tx.outputs, tables, Len(tx.outputs)),
     fee |-> DecompressFee(CompressFee(tx.fee)), timestamp |-> (tx.timestamp \div 1000) * 1000, lockTime |-> tx.lockTime]

LEMMA FeeTier ==
    ASSUME NEW fee \in Nat
    PROVE  CompressFee(fee) \in 0 .. 4 /\ (fee <= 10000 => DecompressFee(CompressFee(fee)) >= fee)
  <1>1. PICK enough : enough = {i \in 1 .. 5 : fee <= FeeTiers[i]}
    OBVIOUS
  <1>2. CASE enough = {}
    <2>1. CompressFee(fee) = 4
      BY <1>1, <1>2 DEF CompressFee
    <2>2. ~ (fee <= FeeTiers[5])
      BY <1>1, <1>2
    <2>3. ~ (fee <= 10000)
      BY <2>2 DEF FeeTiers
    <2> QED
      BY <2>1, <2>3
  <1>3. CASE enough # {}
    <2>1. \E i \in enough : \A j \in enough : i <= j
      <3>1. enough \subseteq 1 .. 5
        BY <1>1
      <3>2. enough \in SUBSET Nat
        BY <3>1
      <3> QED
        BY <1>3, <3>2, LeastValue
    <2>2. PICK i \in enough : i = CHOOSE k \in enough : \A j \in enough : k <= j
      BY <2>1
    <2>3. CompressFee(fee) = i - 1
      BY <1>1, <1>3, <2>2 DEF CompressFee
    <2>4. i \in 1 .. 5 /\ fee <= FeeTiers[i]
      BY <1>1, <2>2
    <2>5. DecompressFee(i - 1) = FeeTiers[i]
      <3>1. i - 1 < 5 /\ (i - 1) + 1 = i
        BY <2>4
      <3> QED
        BY <3>1 DEF DecompressFee
    <2>6. FeeTiers[i] \in Nat
      BY <2>4 DEF FeeTiers
    <2> QED
      BY <2>3, <2>4, <2>5, <2>6
  <1> QED
    BY <1>2, <1>3

LEMMA TransactionComesBack ==
    ASSUME NEW tx, NEW table, NEW common, NEW U, NEW A, Compactable(tx, table, common, U, A),
           NEW tables, tables = AddressTables(table, tx.outputs)
    PROVE  DecompressUTXOTransaction(CompressUTXOTransaction(tx, table, common), common) = KeptOf(tx, tables)
  <1>1. PICK z : z = CompressUTXOTransaction(tx, table, common)
    OBVIOUS
  <1>2. PICK n \in Nat, m \in Nat : n = Len(tx.inputs) /\ m = Len(tx.outputs) /\ DOMAIN tx.inputs = 1 .. n /\ DOMAIN tx.outputs = 1 .. m
    BY DEF Compactable
  <1>3. PICK left : left = CompactInputs(tx.inputs, n)
    OBVIOUS
  <1>4. PICK right : right = CompactOutputs(tx.outputs, tables, common, m)
    OBVIOUS
  <1>5. PICK ends : ends = <<CompressFee(tx.fee), tx.timestamp \div 1000, tx.lockTime>>
    OBVIOUS
  <1>6. z = <<tx.id>> \o EncodeVarint(n) \o FlattenSeq(left) \o EncodeVarint(m) \o FlattenSeq(right) \o ends
    <2>1. z = <<tx.id>> \o EncodeVarint(Len(tx.inputs))
                  \o FlattenSeq([i \in DOMAIN tx.inputs |-> CompactInput(tx.inputs[i])])
                  \o EncodeVarint(Len(tx.outputs))
                  \o FlattenSeq([i \in DOMAIN tx.outputs |-> CompactOutput(tx.outputs[i], AddressTables(table, tx.outputs)[i], common)])
                  \o <<CompressFee(tx.fee), tx.timestamp \div 1000, tx.lockTime>>
      BY <1>1, Zenon DEF CompressUTXOTransaction, CompactOutput
    <2>2. right = [i \in DOMAIN tx.outputs |-> CompactOutput(tx.outputs[i], AddressTables(table, tx.outputs)[i], common)]
      BY <1>2, <1>4, Zenon DEF CompactOutputs
    <2>3. left = [i \in DOMAIN tx.inputs |-> CompactInput(tx.inputs[i])]
      BY <1>2, <1>3, Zenon DEF CompactInputs
    <2> QED
      BY <1>2, <1>5, <2>1, <2>2, <2>3, SMTT(30)
  <1>7. Payable(tx.outputs, tables, m) /\ AreAmounts(common) /\ Nat \subseteq U
    <2>1. IsPayment(table, tx.outputs, A)
      BY DEF Compactable, IsPayment
    <2>2. AddressesKept(tx.outputs, tables)
      BY <2>1, TablesKeepAddresses
    <2> QED
      BY <1>2, <2>2 DEF Compactable, Payable, AddressesKept
  <1>8. FlattenSeq(left) \in Seq(U)
    <2>1. PICK W : W = Seq(U)
      OBVIOUS
    <2>2. \A i \in 1 .. n : CompactInput(tx.inputs[i]) \in W
      BY <1>2, <1>7, <2>1, CompactInputTyped DEF Compactable
    <2>3. left \in Seq(Seq(U))
      BY <1>3, <2>1, <2>2 DEF CompactInputs
    <2> QED
      BY <2>3, Flattened
  <1>9. FlattenSeq(right) \in Seq(U)
    <2>1. PICK W : W = Seq(U)
      OBVIOUS
    <2>2. \A i \in 1 .. m : CompactOutput(tx.outputs[i], tables[i], common) \in W
      BY <1>7, <2>1, CompactOutputTyped DEF Payable
    <2>3. right \in Seq(Seq(U))
      BY <1>4, <2>1, <2>2 DEF CompactOutputs
    <2> QED
      BY <2>3, Flattened
  <1>10. \A v \in Nat : EncodeVarint(v) \in Seq(U)
    <2>1. \A x \in 0 .. 255 : x \in Nat
      OBVIOUS
    <2>2. 0 .. 255 \subseteq U
      BY <1>7, <2>1
    <2> QED
      BY <2>2, VarintIsBytes, WiderSequence, ZenonT(60)
  <1>11. PICK id \in Seq(U) : id = <<tx.id>> /\ Len(id) = 1 /\ id[1] = tx.id
    <2>1. PICK own \in U : own = tx.id
      BY DEF Compactable
    <2>2. <<own>> \in Seq(U) /\ Len(<<own>>) = 1 /\ <<own>>[1] = own
      OBVIOUS
    <2> QED
      BY <2>1, <2>2
  <1>12. ends \in Seq(U) /\ Len(ends) = 3 /\ ends[1] = CompressFee(tx.fee) /\ ends[2] = tx.timestamp \div 1000
             /\ ends[3] = tx.lockTime
    <2>1. tx.fee \in Nat /\ tx.timestamp \in Nat /\ tx.lockTime \in Nat
      BY DEF Compactable
    <2>2. CompressFee(tx.fee) \in Nat
      BY <2>1, FeeTier
    <2>3. tx.timestamp \div 1000 \in Nat
      BY <2>1
    <2>4. CompressFee(tx.fee) \in U /\ tx.timestamp \div 1000 \in U /\ tx.lockTime \in U
      BY <1>7, <2>1, <2>2, <2>3
    <2> QED
      BY <1>5, <2>4
  <1>13. PICK b \in Seq(U), c \in Seq(U), d \in Seq(U), e \in Seq(U) :
             b = EncodeVarint(n) /\ c = FlattenSeq(left) /\ d = EncodeVarint(m) /\ e = FlattenSeq(right)
    BY <1>8, <1>9, <1>10
  <1>14. z = id \o b \o c \o d \o e \o ends
    BY <1>6, <1>11, <1>13
  <1>15. PICK p \in Nat, q \in Nat, r \in Nat, s \in Nat, t \in Nat :
             p = 1 + Len(id) /\ q = p + Len(b) /\ r = q + Len(c) /\ s = r + Len(d) /\ t = s + Len(e)
    <2>1. Len(id) \in Nat /\ Len(b) \in Nat /\ Len(c) \in Nat /\ Len(d) \in Nat /\ Len(e) \in Nat
      BY <1>11, <1>13
    <2>2. \A x, y \in Nat : x + y \in Nat
      OBVIOUS
    <2>3. 1 + Len(id) \in Nat
      BY <2>1, <2>2
    <2> QED
      BY <2>1, <2>2, <2>3
  <1>16. /\ z \in Seq(U)
         /\ Holds(z, 1, id) /\ Holds(z, p, b) /\ Holds(z, q, c) /\ Holds(z, r, d) /\ Holds(z, s, e) /\ Holds(z, t, ends)
    <2>1. IsSixParts(z, U, id, b, c, d, e, ends)
      BY <1>11, <1>12, <1>13, <1>14 DEF IsSixParts
    <2>2. ArePlaces(p, q, r, s, t, id, b, c, d, e)
      BY <1>15 DEF ArePlaces
    <2> QED
      BY <2>1, <2>2, SixParts
  <1>17. p = 2 /\ q \in Nat \ {0} /\ r \in Nat \ {0} /\ s \in Nat \ {0} /\ t \in Nat \ {0}
    BY <1>11, <1>15
  <1>18. ReadVarint(z, 2) = [value |-> n, read |-> Len(b)]
    BY <1>13, <1>16, <1>17, VarintComesBack
  <1>19. ReadVarint(z, r) = [value |-> m, read |-> Len(d)]
    BY <1>13, <1>16, <1>17, VarintComesBack
  <1>20. PICK items : items = ShortInputs(tx.inputs, n)
    OBVIOUS
  <1>21. InputsAt(z, n, q) = [items |-> items, offset |-> r]
    <2>1. AllFit(tx.inputs, n, U)
      BY <1>2 DEF Compactable, AllFit
    <2>2. Holds(z, q, FlattenSeq(left))
      BY <1>13, <1>16
    <2>3. InputsAt(z, n, q) = [items |-> items, offset |-> q + Len(FlattenSeq(left))]
      BY <1>3, <1>7, <1>16, <1>17, <1>20, <2>1, <2>2, InputsRead, Z3
    <2> QED
      BY <1>13, <1>15, <2>3
  <1>22. PICK paid : paid = NumberedOutputs(tx.outputs, tables, m)
    OBVIOUS
  <1>23. OutputsAt(z, m, s, common) = [items |-> paid, offset |-> t]
    <2>2. Holds(z, s, FlattenSeq(right))
      BY <1>13, <1>16
    <2>3. OutputsAt(z, m, s, common) = [items |-> paid, offset |-> s + Len(FlattenSeq(right))]
      <3>1. AreOutputs(U, z, s, m, tx.outputs, tables, common)
        BY <1>4, <1>7, <1>16, <1>17, <2>2 DEF AreOutputs
      <3> QED
        BY <1>4, <1>22, <3>1, OutputsRead
    <2> QED
      BY <1>13, <1>15, <2>3
  <1>24. z[1] = tx.id
    <2>1. z[1 + 1 - 1] = id[1]
      BY <1>11, <1>16 DEF Holds
    <2> QED
      BY <1>11, <2>1
  <1>25. z[t] = ends[1] /\ z[t + 1] = ends[2] /\ z[t + 2] = ends[3]
    <2>1. \A j \in 1 .. 3 : z[t + j - 1] = ends[j]
      BY <1>12, <1>16, ZenonT(60) DEF Holds
    <2>2. z[t + 1 - 1] = ends[1] /\ z[t + 2 - 1] = ends[2] /\ z[t + 3 - 1] = ends[3]
      BY <2>1
    <2>3. t + 1 - 1 = t /\ t + 2 - 1 = t + 1 /\ t + 3 - 1 = t + 2
      OBVIOUS
    <2> QED
      BY <2>2, <2>3
  <1>26. DecompressUTXOTransaction(z, common)
             = [id |-> z[1], inputs |-> items, outputs |-> paid, fee |-> DecompressFee(z[t]),
                timestamp |-> z[t + 1] * 1000, lockTime |-> z[t + 2]]
    <2>1. PICK c1, i1, c2, o1, rest :
              /\ c1 = ReadVarint(z, 2) /\ i1 = InputsAt(z, c1.value, 2 + c1.read)
              /\ c2 = ReadVarint(z, i1.offset) /\ o1 = OutputsAt(z, c2.value, i1.offset + c2.read, common)
              /\ rest = o1.offset
      OBVIOUS
    <2>2. c1.value = n /\ 2 + c1.read = q
      BY <1>15, <1>17, <1>18, <2>1
    <2>3. i1.items = items /\ i1.offset = r
      BY <1>21, <2>1, <2>2
    <2>4. c2.value = m /\ i1.offset + c2.read = s
      <3>1. c2 = [value |-> m, read |-> Len(d)]
        BY <1>19, <2>1, <2>3
      <3> QED
        BY <1>15, <2>3, <3>1
    <2>5. o1.items = paid /\ rest = t
      BY <1>23, <2>1, <2>4
    <2>6. AreParts(z, common, c1, i1, c2, o1)
      BY <2>1, Zenon DEF AreParts
    <2>7. DecompressUTXOTransaction(z, common) = TransactionFrom(z, i1.items, o1.items, o1.offset)
      BY <2>6, TransactionRead, Zenon
    <2>8. DecompressUTXOTransaction(z, common) = TransactionFrom(z, items, paid, t)
      BY <2>1, <2>3, <2>5, <2>7, Zenon
    <2> QED
      BY <2>8 DEF TransactionFrom
  <1> QED
    BY <1>1, <1>2, <1>12, <1>20, <1>22, <1>24, <1>25, <1>26 DEF KeptOf

(***************************************************************************)
(* What a fold computes                                                    *)
(***************************************************************************)

(* What FoldLeft computes: from a set of places without its last place.    *)
IsFold(f, n, V, base, F) ==
    /\ f \in [SUBSET (1 .. n) -> V]
    /\ \A s \in SUBSET (1 .. n) : f[s] = IF s = {} THEN base ELSE F[<<Max(s), f[s \ {Max(s)}]>>]

LEMMA LastPlace ==
    ASSUME NEW n \in Nat, NEW s \in SUBSET (1 .. n), s # {}
    PROVE  Max(s) \in s /\ \A i \in s : i <= Max(s)
  <1> DEFINE V == {n - i : i \in s}
  <1>1. V \in SUBSET Nat /\ V # {}
    OBVIOUS
  <1>2. PICK v \in V : \A x \in V : v <= x
    <2> HIDE DEF V
    <2> QED
      BY <1>1, LeastValue
  <1>3. PICK i \in s : v = n - i
    BY <1>2
  <1>4. ASSUME NEW j \in s
        PROVE  i >= j
    <2>1. v <= n - j
      BY <1>2
    <2>2. i \in 1 .. n /\ j \in 1 .. n
      OBVIOUS
    <2> QED
      BY <1>3, <2>1, <2>2
  <1>5. PICK top \in s : top = Max(s) /\ \A j \in s : top >= j
    BY <1>3, <1>4 DEF Max
  <1>6. top \in Nat /\ s \subseteq Int
    OBVIOUS
  <1> QED
    BY <1>5, <1>6

LEMMA FoldSolved ==
    ASSUME NEW n \in Nat, NEW V, NEW base \in V, NEW F \in [(0 .. n) \X V -> V]
    PROVE  \E f : IsFold(f, n, V, base, F)
  <1> DEFINE D == SUBSET (1 .. n)
  <1>1. PICK rank : rank = [s \in D |-> IF s = {} THEN 0 ELSE Max(s)]
    OBVIOUS
  <1>2. PICK J : J = [s \in D |-> IF s = {} THEN {} ELSE s \ {Max(s)}]
    OBVIOUS
  <1>3. PICK G : G = [p \in D \X V |-> IF p[1] = {} THEN base ELSE F[<<Max(p[1]), p[2]>>]]
    OBVIOUS
  <1>4. \A s \in D : s # {} => Max(s) \in s /\ Max(s) \in 1 .. n /\ \A i \in s : i <= Max(s)
    BY LastPlace
  <1>5. rank \in [D -> 0 .. n]
    BY <1>1, <1>4
  <1>6. J \in [D -> D]
    BY <1>2
  <1>7. \A s \in D : \A v \in V : G[<<s, v>>] = IF s = {} THEN base ELSE F[<<Max(s), v>>]
    BY <1>3
  <1>8. G \in [D \X V -> V]
    <2>1. ASSUME NEW s \in D, NEW v \in V
          PROVE  G[<<s, v>>] \in V
      <3>1. CASE s = {}
        BY <1>7, <3>1
      <3>2. CASE s # {}
        <4>1. Max(s) \in 0 .. n
          BY <1>4, <3>2
        <4> QED
          BY <1>7, <3>2, <4>1
      <3> QED
        BY <3>1, <3>2
    <2>2. G = [p \in D \X V |-> G[p]]
      BY <1>3
    <2> HIDE DEF D
    <2> QED
      BY <2>1, <2>2, OfPairs
  <1>9. Descends(D, V, rank, J, G)
    <2>1. ASSUME NEW s \in D
          PROVE  rank[J[s]] < rank[s] \/ \A v, w \in V : G[<<s, v>>] = G[<<s, w>>]
      <3>1. CASE s = {}
        BY <1>7, <3>1
      <3>2. CASE s # {}
        <4>1. PICK top \in 1 .. n : top = Max(s) /\ rank[s] = top /\ J[s] = s \ {top} /\ \A i \in s : i <= top
          BY <1>1, <1>2, <1>4, <3>2
        <4>2. CASE J[s] = {}
          BY <1>1, <1>6, <4>1, <4>2
        <4>3. CASE J[s] # {}
          <5>1. rank[J[s]] = Max(J[s]) /\ Max(J[s]) \in J[s] /\ J[s] \in D
            BY <1>1, <1>4, <1>6, <4>3
          <5>2. Max(J[s]) <= top /\ Max(J[s]) # top /\ Max(J[s]) \in 1 .. n
            BY <4>1, <5>1
          <5> QED
            BY <4>1, <5>1, <5>2
        <4> QED
          BY <4>2, <4>3
      <3> QED
        BY <3>1, <3>2
    <2> QED
      BY <2>1 DEF Descends
  <1>10. PICK f : IsSolution(f, D, V, J, G)
    <2> HIDE DEF D
    <2>1. V # {}
      OBVIOUS
    <2> QED
      BY <1>5, <1>6, <1>8, <1>9, <2>1, RecursionSolved
  <1>11. f \in [D -> V] /\ \A s \in D : f[s] = G[<<s, f[J[s]]>>] /\ f[J[s]] \in V
    BY <1>6, <1>10 DEF IsSolution
  <1>12. ASSUME NEW s \in D
         PROVE  f[s] = IF s = {} THEN base ELSE F[<<Max(s), f[s \ {Max(s)}]>>]
    <2>1. CASE s = {}
      BY <1>7, <1>11, <2>1
    <2>2. CASE s # {}
      <3>1. J[s] = s \ {Max(s)}
        BY <1>2, <2>2
      <3>2. G[<<s, f[J[s]]>>] = F[<<Max(s), f[J[s]]>>]
        BY <1>7, <1>11, <2>2
      <3> QED
        BY <1>11, <2>2, <3>1, <3>2
    <2> QED
      BY <2>1, <2>2
  <1> QED
    BY <1>11, <1>12 DEF IsFold

(* The fold of a sequence goes through the folds of its beginnings.         *)
FoldsBeginnings(g, n, V, base, F) ==
    /\ g[{}] = base
    /\ \A k \in 1 .. n : g[1 .. k - 1] \in V => g[1 .. k] = F[<<k, g[1 .. k - 1]>>]

IsFolding(g, n, V, base, F) ==
    n \in Nat /\ base \in V /\ F \in [(0 .. n) \X V -> V] /\ FoldsBeginnings(g, n, V, base, F)

Reaches(result, n, V, base, F) == \E f : IsAscent(f, n, V, base, F) /\ f[n] = result

LEMMA FoldAscends ==
    ASSUME NEW n, NEW V, NEW base, NEW F, NEW g, IsFolding(g, n, V, base, F)
    PROVE  Reaches(g[1 .. n], n, V, base, F)
  <1> SUFFICES ASSUME n \in Nat, base \in V, F \in [(0 .. n) \X V -> V], FoldsBeginnings(g, n, V, base, F)
               PROVE  \E f : IsAscent(f, n, V, base, F) /\ f[n] = g[1 .. n]
    BY DEF IsFolding, Reaches
  <1>1. PICK f : f = [k \in 0 .. n |-> g[1 .. k]]
    OBVIOUS
  <1>2. f[0] = base
    <2>1. 1 .. 0 = {} /\ 0 \in 0 .. n
      OBVIOUS
    <2> QED
      BY <1>1, <2>1 DEF FoldsBeginnings
  <1>3. \A k \in 1 .. n : f[k - 1] \in V => f[k] = F[<<k, f[k - 1]>>]
    <2>1. ASSUME NEW k \in 1 .. n, f[k - 1] \in V
          PROVE  f[k] = F[<<k, f[k - 1]>>]
      <3>1. k - 1 \in 0 .. n /\ k \in 0 .. n
        OBVIOUS
      <3>2. f[k - 1] = g[1 .. k - 1] /\ f[k] = g[1 .. k]
        BY <1>1, <3>1
      <3> QED
        BY <2>1, <3>2 DEF FoldsBeginnings
    <2> QED
      BY <2>1
  <1> DEFINE Bad == {k \in 0 .. n : f[k] \notin V}
  <1>4. Bad = {}
    <2> SUFFICES ASSUME Bad # {}
                 PROVE  FALSE
      OBVIOUS
    <2>1. PICK k \in Bad : \A j \in Bad : k <= j
      <3>1. Bad \in SUBSET Nat
        OBVIOUS
      <3> HIDE DEF Bad
      <3> QED
        BY <3>1, LeastValue
    <2>2. k \in 0 .. n /\ f[k] \notin V
      OBVIOUS
    <2>3. k # 0
      BY <1>2, <2>2
    <2>4. k - 1 \in 0 .. n /\ k \in 1 .. n /\ ~(k <= k - 1)
      BY <2>2, <2>3
    <2>5. f[k - 1] \in V
      BY <2>1, <2>4
    <2>6. f[k] = F[<<k, f[k - 1]>>] /\ <<k, f[k - 1]>> \in (0 .. n) \X V
      BY <1>3, <2>2, <2>4, <2>5
    <2> QED
      BY <2>2, <2>6
  <1>5. f \in [0 .. n -> V]
    BY <1>1, <1>4
  <1>6. ASSUME NEW k \in 0 .. n
        PROVE  f[k] = IF k = 0 THEN base ELSE F[<<k, f[k - 1]>>]
    <2>1. CASE k = 0
      BY <1>2, <2>1
    <2>2. CASE k # 0
      <3>1. k \in 1 .. n /\ k - 1 \in 0 .. n
        BY <2>2
      <3> QED
        BY <1>3, <1>5, <2>2, <3>1
    <2> QED
      BY <2>1, <2>2
  <1>7. f[n] = g[1 .. n]
    BY <1>1
  <1> QED
    BY <1>5, <1>6, <1>7 DEF IsAscent

LEMMA LastOfBeginning ==
    ASSUME NEW k \in Nat \ {0}
    PROVE  Max(1 .. k) = k /\ (1 .. k) \ {k} = 1 .. k - 1 /\ 1 .. k # {}
  <1>1. k \in 1 .. k /\ (1 .. k) \in SUBSET (1 .. k) /\ 1 .. k # {}
    OBVIOUS
  <1>2. Max(1 .. k) \in 1 .. k /\ k <= Max(1 .. k)
    BY <1>1, LastPlace
  <1> QED
    BY <1>1, <1>2

(***************************************************************************)
(* The engine that collapses runs of blanks                                *)
(***************************************************************************)

Collapse(done, c) ==
    IF c \notin Whitespace THEN Append(done, c)
    ELSE IF done # <<>> /\ Last(done) = SPACE THEN done
    ELSE Append(done, SPACE)

CollapseStep(d, p) == IF p[1] = 0 THEN p[2] ELSE Collapse(p[2], d[p[1]])

LEMMA CollapseTyped ==
    ASSUME NEW done \in Seq(Codes), NEW c \in Codes
    PROVE  /\ Collapse(done, c) \in Seq(Codes)
           /\ Collapse(done, c) = Append(done, c) \/ Collapse(done, c) = done
  <1>1. SPACE \in Codes
    BY DEF SPACE, Codes
  <1>2. c \in Whitespace => c = SPACE
    BY DEF Codes, Whitespace
  <1>3. Append(done, c) \in Seq(Codes)
    OBVIOUS
  <1> QED
    BY <1>1, <1>2, <1>3 DEF Collapse

LEMMA CollapsedRuns ==
    ASSUME NEW d \in Seq(Codes), NEW n \in Nat, n = Len(d), NEW V, V = Seq(Codes),
           NEW F, F = [p \in (0 .. n) \X V |-> CollapseStep(d, p)]
    PROVE  \E run : IsAscent(run, n, V, <<>>, F) /\ run[n] = Collapsed(d)
  <1> DEFINE Body(g) == [s \in SUBSET DOMAIN d |-> IF s = {} THEN <<>> ELSE Collapse(g[s \ {Max(s)}], d[Max(s)])]
  <1>1. Collapsed(d) = (CHOOSE g : g = Body(g))[DOMAIN d]
    BY Zenon DEF Collapsed, FoldLeft, MapThenFoldSet, Collapse
  <1>2. PICK iter : iter = CHOOSE g : g = Body(g)
    OBVIOUS
  <1>3. \A k \in 0 .. n : \A v \in V : F[<<k, v>>] = IF k = 0 THEN v ELSE Collapse(v, d[k])
    BY DEF CollapseStep
  <1>4. F \in [(0 .. n) \X V -> V]
    <2>1. ASSUME NEW k \in 0 .. n, NEW v \in V
          PROVE  F[<<k, v>>] \in V
      <3>1. CASE k = 0
        BY <1>3, <3>1
      <3>2. CASE k # 0
        <4>1. d[k] \in Codes
          BY <3>2
        <4>2. Collapse(v, d[k]) \in Seq(Codes)
          BY <4>1, CollapseTyped
        <4> QED
          BY <1>3, <3>2, <4>2
      <3> QED
        BY <3>1, <3>2
    <2>2. F = [p \in (0 .. n) \X V |-> F[p]]
      OBVIOUS
    <2> QED
      BY ONLY <2>1, <2>2, OfPairs
  <1>5. PICK f : IsFold(f, n, V, <<>>, F)
    <2>1. <<>> \in V
      OBVIOUS
    <2> QED
      BY <1>4, <2>1, FoldSolved
  <1>6. DOMAIN d = 1 .. n
    OBVIOUS
  <1>7. f = Body(f)
    <2>1. ASSUME NEW s \in SUBSET (1 .. n)
          PROVE  f[s] = IF s = {} THEN <<>> ELSE Collapse(f[s \ {Max(s)}], d[Max(s)])
      <3>1. CASE s = {}
        BY <1>5, <3>1 DEF IsFold
      <3>2. CASE s # {}
        <4>1. Max(s) \in 1 .. n /\ s \ {Max(s)} \in SUBSET (1 .. n)
          BY <3>2, LastPlace
        <4>2. f[s] = F[<<Max(s), f[s \ {Max(s)}]>>] /\ f[s \ {Max(s)}] \in V
          BY <1>5, <3>2, <4>1 DEF IsFold
        <4>3. Max(s) \in 0 .. n /\ Max(s) # 0
          BY <4>1
        <4> QED
          BY <1>3, <3>2, <4>2, <4>3
      <3> QED
        BY <3>1, <3>2
    <2>2. f = [s \in SUBSET (1 .. n) |-> f[s]]
      BY <1>5 DEF IsFold
    <2> QED
      BY <1>6, <2>1, <2>2
  <1>8. iter = Body(iter)
    <2> HIDE DEF Body
    <2> QED
      BY <1>2, <1>7
  <1>9. \A s \in SUBSET (1 .. n) : iter[s] = IF s = {} THEN <<>> ELSE Collapse(iter[s \ {Max(s)}], d[Max(s)])
    BY <1>6, <1>8
  <1>10. FoldsBeginnings(iter, n, V, <<>>, F)
    <2>1. iter[{}] = <<>>
      BY <1>9
    <2>2. ASSUME NEW k \in 1 .. n, iter[1 .. k - 1] \in V
          PROVE  iter[1 .. k] = F[<<k, iter[1 .. k - 1]>>]
      <3>1. k \in Nat \ {0} /\ k \in 0 .. n /\ 1 .. k \in SUBSET (1 .. n)
        OBVIOUS
      <3>2. iter[1 .. k] = Collapse(iter[1 .. k - 1], d[k])
        BY <1>9, <3>1, LastOfBeginning
      <3> QED
        BY <1>3, <2>2, <3>1, <3>2
    <2> QED
      BY <2>1, <2>2 DEF FoldsBeginnings
  <1>11. PICK base \in V : base = <<>>
    <2>1. <<>> \in V
      OBVIOUS
    <2> QED
      BY ONLY <2>1
  <1>12. PICK run : IsAscent(run, n, V, base, F) /\ run[n] = iter[1 .. n]
    <2>1. IsFolding(iter, n, V, base, F)
      BY <1>4, <1>10, <1>11 DEF IsFolding
    <2>2. Reaches(iter[1 .. n], n, V, base, F)
      BY <2>1, FoldAscends
    <2> QED
      BY <2>2 DEF Reaches
  <1>13. Collapsed(d) = iter[1 .. n]
    <2> HIDE DEF Body
    <2> QED
      BY <1>1, <1>2, <1>6
  <1> QED
    BY <1>11, <1>12, <1>13

LEMMA CollapsedOnce ==
    ASSUME NEW d \in Seq(Codes)
    PROVE  /\ Collapsed(d) \in Seq(Codes) /\ Len(Collapsed(d)) <= Len(d)
           /\ Len(Collapsed(d)) = Len(d) => Collapsed(d) = d
  <1>1. PICK n \in Nat : n = Len(d)
    OBVIOUS
  <1>2. PICK V : V = Seq(Codes)
    OBVIOUS
  <1>3. PICK F : F = [p \in (0 .. n) \X V |-> CollapseStep(d, p)]
    OBVIOUS
  <1>4. PICK run : IsAscent(run, n, V, <<>>, F) /\ run[n] = Collapsed(d)
    BY <1>1, <1>2, <1>3, CollapsedRuns
  <1>5. /\ run \in [0 .. n -> V] /\ run[0] = <<>>
        /\ \A k \in 1 .. n : run[k] = Collapse(run[k - 1], d[k])
    <2>1. run \in [0 .. n -> V] /\ run[0] = <<>>
      <3>1. 0 \in 0 .. n
        OBVIOUS
      <3>2. run \in [0 .. n -> V]
        BY <1>4 DEF IsAscent
      <3>3. \A k \in 0 .. n : k = 0 => run[k] = <<>>
        BY <1>4 DEF IsAscent
      <3> QED
        BY <3>1, <3>2, <3>3
    <2>2. ASSUME NEW k \in 1 .. n
          PROVE  run[k] = Collapse(run[k - 1], d[k])
      <3>1. k \in 0 .. n /\ k - 1 \in 0 .. n /\ k # 0
        OBVIOUS
      <3>2. run[k] = F[<<k, run[k - 1]>>] /\ run[k - 1] \in V
        BY <1>4, <3>1 DEF IsAscent
      <3> QED
        BY <1>3, <3>1, <3>2 DEF CollapseStep
    <2> QED
      BY <2>1, <2>2
  <1> DEFINE Right(k) == Len(run[k]) <= k /\ (Len(run[k]) = k => \A j \in 1 .. k : run[k][j] = d[j])
             Bad == {k \in 0 .. n : ~Right(k)}
  <1>6. Bad = {}
    <2> SUFFICES ASSUME Bad # {}
                 PROVE  FALSE
      OBVIOUS
    <2>1. PICK k \in Bad : \A j \in Bad : k <= j
      <3>1. Bad \in SUBSET Nat
        OBVIOUS
      <3> HIDE DEF Bad
      <3> QED
        BY <3>1, LeastValue
    <2>2. k \in 0 .. n /\ ~Right(k)
      OBVIOUS
    <2>3. k # 0
      BY <1>5, <2>2
    <2>4. k - 1 \in 0 .. n /\ k \in 1 .. n /\ ~(k <= k - 1)
      BY <2>2, <2>3
    <2>5. Right(k - 1)
      <3>1. k - 1 \notin Bad
        <4> HIDE DEF Bad
        <4> QED
          BY <2>1, <2>4
      <3> HIDE DEF Right
      <3> QED
        BY <2>4, <3>1
    <2>6. PICK before \in Seq(Codes), c \in Codes : before = run[k - 1] /\ c = d[k] /\ run[k] = Collapse(before, c)
      BY <1>1, <1>2, <1>5, <2>4, SMTT(30)
    <2>7. CASE run[k] = before
      <3>1. Len(run[k]) <= k - 1
        BY <2>5, <2>6, <2>7
      <3>2. Len(run[k]) \in Nat
        BY <2>7
      <3> QED
        BY <2>2, <2>4, <3>1, <3>2
    <2>8. CASE run[k] = Append(before, c)
      <3>1. Len(run[k]) = Len(before) + 1 /\ \A j \in 1 .. Len(before) : run[k][j] = before[j]
        BY <2>8
      <3>2. run[k][Len(before) + 1] = c
        BY <2>8
      <3>3. Len(before) \in Nat /\ Len(before) <= k - 1
        BY <2>5, <2>6
      <3>4. ASSUME Len(before) = k - 1, NEW j \in 1 .. k
            PROVE  run[k][j] = d[j]
        <4>1. CASE j = k
          BY <2>6, <3>2, <3>4, <4>1, <2>4
        <4>2. CASE j # k
          <5>1. j \in 1 .. k - 1
            BY <2>4, <4>2
          <5>2. before[j] = d[j]
            BY <2>5, <2>6, <3>4, <5>1
          <5> QED
            BY <3>1, <3>4, <5>1, <5>2
        <4> QED
          BY <4>1, <4>2
      <3>5. Len(run[k]) = k => Len(before) = k - 1
        BY <2>4, <3>1, <3>3
      <3>6. Len(run[k]) <= k
        BY <2>4, <3>1, <3>3
      <3> QED
        BY <2>2, <3>4, <3>5, <3>6
    <2> QED
      BY <2>6, <2>7, <2>8, CollapseTyped
  <1>7. Right(n)
    BY <1>6
  <1>8. Collapsed(d) \in Seq(Codes)
    BY <1>2, <1>4, <1>5
  <1>9. ASSUME Len(Collapsed(d)) = Len(d)
        PROVE  Collapsed(d) = d
    <2>1. \A j \in 1 .. n : Collapsed(d)[j] = d[j]
      BY <1>1, <1>4, <1>7, <1>9
    <2> QED
      BY <1>1, <1>8, <1>9, <2>1
  <1> QED
    BY <1>1, <1>4, <1>7, <1>8, <1>9

LEMMA TrimmedEnds ==
    ASSUME NEW S, NEW d \in Seq(S)
    PROVE  /\ Trimmed(d) \in Seq(S) /\ Len(Trimmed(d)) <= Len(d)
           /\ Len(Trimmed(d)) = Len(d) => Trimmed(d) = d
  <1>1. PICK black : black = {i \in DOMAIN d : d[i] \notin Whitespace}
    OBVIOUS
  <1>2. PICK n \in Nat : n = Len(d) /\ DOMAIN d = 1 .. n
    OBVIOUS
  <1>3. CASE black = {}
    <2>1. Trimmed(d) = <<>>
      BY <1>1, <1>3 DEF Trimmed
    <2>2. Len(<<>>) = 0 /\ <<>> \in Seq(S)
      OBVIOUS
    <2>3. n = 0 => d = <<>>
      BY <1>2, EmptyLength
    <2> QED
      BY <1>2, <2>1, <2>2, <2>3
  <1>4. CASE black # {}
    <2>1. PICK first : first = CHOOSE i \in black : \A j \in black : i <= j
      OBVIOUS
    <2>2. PICK last : last = CHOOSE i \in black : \A j \in black : i >= j
      OBVIOUS
    <2>3. black \in SUBSET (1 .. n) /\ black \in SUBSET Nat
      BY <1>1, <1>2
    <2>4. first \in black /\ \A j \in black : first <= j
      BY <1>4, <2>1, <2>3, LeastValue
    <2>5. last = Max(black)
      BY <2>2 DEF Max
    <2>6. last \in black
      BY <1>4, <2>3, <2>5, LastPlace
    <2>7. first \in 1 .. n /\ last \in 1 .. n /\ first <= last
      BY <2>3, <2>4, <2>6
    <2>8. Trimmed(d) = SubSeq(d, first, last)
      BY <1>1, <1>4, <2>1, <2>2 DEF Trimmed
    <2>9. SubSeq(d, first, last) \in Seq(S) /\ Len(SubSeq(d, first, last)) = last - first + 1
      BY <1>2, <2>7
    <2>10. last - first + 1 = n => first = 1 /\ last = n
      BY <2>7
    <2>11. SubSeq(d, 1, n) = d
      BY <1>2
    <2> QED
      BY <1>2, <2>7, <2>8, <2>9, <2>10, <2>11
  <1> QED
    BY <1>3, <1>4

LEMMA CustomCompressedExact ==
    ASSUME NEW d \in Seq(Codes), Len(CustomCompress(d)) = Len(d)
    PROVE  CustomCompress(d) = d
  <1>1. PICK c \in Seq(Codes) : c = Collapsed(d) /\ Len(c) <= Len(d) /\ (Len(c) = Len(d) => c = d)
    BY CollapsedOnce
  <1>2. /\ Trimmed(c) \in Seq(Codes) /\ Len(Trimmed(c)) <= Len(c)
        /\ Len(Trimmed(c)) = Len(c) => Trimmed(c) = c
    BY TrimmedEnds
  <1>3. Len(Trimmed(c)) \in Nat /\ Len(c) \in Nat /\ Len(d) \in Nat
    BY <1>2
  <1> QED
    BY <1>1, <1>2, <1>3 DEF CustomCompress

(***************************************************************************)
(* Dictionaries: the patterns found, counted and sorted                    *)
(***************************************************************************)

LEMMA FoldTyped ==
    ASSUME NEW n, NEW V, NEW base, NEW F, NEW g, IsFolding(g, n, V, base, F)
    PROVE  g[1 .. n] \in V
  <1>1. n \in Nat
    BY DEF IsFolding
  <1>2. PICK f : IsAscent(f, n, V, base, F) /\ f[n] = g[1 .. n]
    BY FoldAscends DEF Reaches
  <1>3. n \in 0 .. n
    BY <1>1
  <1> QED
    BY <1>2, <1>3 DEF IsAscent

(* extractPatterns takes a pattern once.                                    *)
Taken(s, p) == IF Contains(s, p) \/ Len(Trimmed(p)) < 2 THEN s ELSE Append(s, p)

DistinctOf(found) == FoldLeft(LAMBDA s, p : Taken(s, p), <<>>, found)

LEMMA DistinctTyped ==
    ASSUME NEW P, NEW found \in Seq(P)
    PROVE  DistinctOf(found) \in Seq(P)
  <1> DEFINE Body(g) == [s \in SUBSET DOMAIN found |-> IF s = {} THEN <<>> ELSE Taken(g[s \ {Max(s)}], found[Max(s)])]
  <1>1. DistinctOf(found) = (CHOOSE g : g = Body(g))[DOMAIN found]
    BY Zenon DEF DistinctOf, FoldLeft, MapThenFoldSet
  <1>2. PICK iter : iter = CHOOSE g : g = Body(g)
    OBVIOUS
  <1>3. PICK n \in Nat : n = Len(found) /\ DOMAIN found = 1 .. n
    OBVIOUS
  <1>4. PICK V : V = Seq(P)
    OBVIOUS
  <1>5. PICK F : F = [p \in (0 .. n) \X V |-> IF p[1] = 0 THEN p[2] ELSE Taken(p[2], found[p[1]])]
    OBVIOUS
  <1>6. \A k \in 0 .. n : \A v \in V : F[<<k, v>>] = IF k = 0 THEN v ELSE Taken(v, found[k])
    BY <1>5
  <1>7. F \in [(0 .. n) \X V -> V]
    <2>1. ASSUME NEW k \in 0 .. n, NEW v \in V
          PROVE  F[<<k, v>>] \in V
      <3>1. k # 0 => found[k] \in P
        BY <1>3
      <3>2. k # 0 => Taken(v, found[k]) \in Seq(P)
        BY <1>4, <3>1 DEF Taken
      <3> QED
        BY <1>4, <1>6, <3>2
    <2>2. F = [p \in (0 .. n) \X V |-> F[p]]
      BY <1>5
    <2> QED
      BY <2>1, <2>2, OfPairs
  <1>8. PICK base \in V : base = <<>>
    <2>1. <<>> \in V
      BY <1>4
    <2> QED
      BY ONLY <2>1
  <1>9. PICK f : IsFold(f, n, V, base, F)
    BY <1>7, FoldSolved
  <1>10. f = Body(f)
    <2>1. ASSUME NEW s \in SUBSET (1 .. n)
          PROVE  f[s] = IF s = {} THEN <<>> ELSE Taken(f[s \ {Max(s)}], found[Max(s)])
      <3>1. CASE s = {}
        BY <1>8, <1>9, <3>1 DEF IsFold
      <3>2. CASE s # {}
        <4>1. Max(s) \in 1 .. n /\ s \ {Max(s)} \in SUBSET (1 .. n)
          BY <3>2, LastPlace
        <4>2. f[s] = F[<<Max(s), f[s \ {Max(s)}]>>] /\ f[s \ {Max(s)}] \in V
          BY <1>9, <3>2, <4>1 DEF IsFold
        <4>3. Max(s) \in 0 .. n /\ Max(s) # 0
          BY <4>1
        <4> QED
          BY <1>6, <3>2, <4>2, <4>3
      <3> QED
        BY <3>1, <3>2
    <2>2. f = [s \in SUBSET (1 .. n) |-> f[s]]
      BY <1>9 DEF IsFold
    <2> QED
      BY <1>3, <2>1, <2>2
  <1>11. iter = Body(iter)
    <2> HIDE DEF Body
    <2> QED
      BY <1>2, <1>10
  <1>12. \A s \in SUBSET (1 .. n) : iter[s] = IF s = {} THEN <<>> ELSE Taken(iter[s \ {Max(s)}], found[Max(s)])
    BY <1>3, <1>11
  <1>13. FoldsBeginnings(iter, n, V, base, F)
    <2>1. iter[{}] = base
      BY <1>8, <1>12
    <2>2. ASSUME NEW k \in 1 .. n, iter[1 .. k - 1] \in V
          PROVE  iter[1 .. k] = F[<<k, iter[1 .. k - 1]>>]
      <3>1. k \in Nat \ {0} /\ k \in 0 .. n /\ 1 .. k \in SUBSET (1 .. n)
        OBVIOUS
      <3>2. iter[1 .. k] = Taken(iter[1 .. k - 1], found[k])
        BY <1>12, <3>1, LastOfBeginning
      <3> QED
        BY <1>6, <2>2, <3>1, <3>2
    <2> QED
      BY <2>1, <2>2 DEF FoldsBeginnings
  <1>14. iter[1 .. n] \in V
    <2>1. IsFolding(iter, n, V, base, F)
      BY <1>3, <1>7, <1>8, <1>13 DEF IsFolding
    <2> QED
      BY <2>1, FoldTyped
  <1>15. DistinctOf(found) = iter[1 .. n]
    <2> HIDE DEF Body
    <2> QED
      BY <1>1, <1>2, <1>3
  <1> QED
    BY <1>4, <1>14, <1>15

AreEntries(E, P) == E = [pattern : P, count : Nat]

PatternAt(frequency, pattern) == SelectInSeq(frequency, LAMBDA e : e.pattern = pattern)

LEMMA FirstWithPattern ==
    ASSUME NEW S, NEW frequency \in Seq(S), NEW pattern, NEW at, at = PatternAt(frequency, pattern)
    PROVE  at = 0 \/ at \in 1 .. Len(frequency)
  <1>1. PICK I : I = {i \in 1 .. Len(frequency) : frequency[i].pattern = pattern}
    OBVIOUS
  <1>2. at = IF I # {} THEN Min(I) ELSE 0
    BY <1>1 DEF SelectInSeq, PatternAt
  <1>3. CASE I # {}
    <2>1. I \in SUBSET Nat
      BY <1>1
    <2>2. PICK v \in I : \A y \in I : v <= y
      BY <1>3, <2>1, LeastValue
    <2>3. at \in I
      BY <1>2, <1>3, <2>2 DEF Min
    <2> QED
      BY <1>1, <2>3
  <1> QED
    BY <1>2, <1>3

LEMMA CountedTyped ==
    ASSUME NEW P, NEW E, AreEntries(E, P), NEW frequency \in Seq(E), NEW pattern \in P
    PROVE  Counted(frequency, pattern) \in Seq(E)
  <1>1. PICK at : at = PatternAt(frequency, pattern)
    OBVIOUS
  <1>2. Counted(frequency, pattern) = IF at = 0 THEN Append(frequency, [pattern |-> pattern, count |-> 1])
                                      ELSE [frequency EXCEPT ![at].count = @ + 1]
    BY <1>1, Zenon DEF Counted, PatternAt
  <1>3. CASE at = 0
    <2>1. PICK e : e = [pattern |-> pattern, count |-> 1]
      OBVIOUS
    <2>2. e \in E
      BY <2>1 DEF AreEntries
    <2>3. Append(frequency, e) \in Seq(E)
      BY <2>2
    <2> QED
      BY <1>2, <1>3, <2>1, <2>3
  <1>4. CASE at # 0
    <2>1. at \in 1 .. Len(frequency)
      BY <1>1, <1>4, FirstWithPattern
    <2>2. PICK e \in E : e = frequency[at]
      BY <2>1
    <2>3. PICK more \in E : more = [e EXCEPT !.count = @ + 1]
      <3>1. e = [pattern |-> e.pattern, count |-> e.count] /\ e.pattern \in P /\ e.count \in Nat
        BY DEF AreEntries
      <3>2. e.count + 1 \in Nat
        BY <3>1
      <3>3. [e EXCEPT !.count = @ + 1] = [pattern |-> e.pattern, count |-> e.count + 1]
        BY <3>1
      <3>4. [pattern |-> e.pattern, count |-> e.count + 1] \in E
        BY <3>1, <3>2 DEF AreEntries
      <3> QED
        BY <3>3, <3>4
    <2>4. [frequency EXCEPT ![at] = more] \in Seq(E)
      BY <2>1
    <2>5. [frequency EXCEPT ![at].count = @ + 1] = [frequency EXCEPT ![at] = more]
      BY <2>1, <2>2, <2>3
    <2> QED
      BY <1>2, <1>4, <2>4, <2>5
  <1> QED
    BY <1>3, <1>4

CountingOf(start, found) == FoldLeft(Counted, start, found)

LEMMA CountingTyped ==
    ASSUME NEW P, NEW found \in Seq(P), NEW E, AreEntries(E, P), NEW start \in Seq(E)
    PROVE  CountingOf(start, found) \in Seq(E)
  <1> DEFINE Body(g) == [s \in SUBSET DOMAIN found |-> IF s = {} THEN start ELSE Counted(g[s \ {Max(s)}], found[Max(s)])]
  <1>1. CountingOf(start, found) = (CHOOSE g : g = Body(g))[DOMAIN found]
    BY Zenon DEF CountingOf, FoldLeft, MapThenFoldSet
  <1>2. PICK iter : iter = CHOOSE g : g = Body(g)
    OBVIOUS
  <1>3. PICK n \in Nat : n = Len(found) /\ DOMAIN found = 1 .. n
    OBVIOUS
  <1>4. PICK V : V = Seq(E)
    OBVIOUS
  <1>5. PICK F : F = [p \in (0 .. n) \X V |-> IF p[1] = 0 THEN p[2] ELSE Counted(p[2], found[p[1]])]
    OBVIOUS
  <1>6. \A k \in 0 .. n : \A v \in V : F[<<k, v>>] = IF k = 0 THEN v ELSE Counted(v, found[k])
    BY <1>5
  <1>7. F \in [(0 .. n) \X V -> V]
    <2>1. ASSUME NEW k \in 0 .. n, NEW v \in V
          PROVE  F[<<k, v>>] \in V
      <3>1. k # 0 => found[k] \in P
        BY <1>3
      <3>2. k # 0 => Counted(v, found[k]) \in Seq(E)
        BY <1>4, <3>1, CountedTyped
      <3> QED
        BY <1>4, <1>6, <3>2
    <2>2. F = [p \in (0 .. n) \X V |-> F[p]]
      BY <1>5
    <2> QED
      BY <2>1, <2>2, OfPairs
  <1>8. PICK base \in V : base = start
    BY <1>4
  <1>9. PICK f : IsFold(f, n, V, base, F)
    BY <1>7, FoldSolved
  <1>10. f = Body(f)
    <2>1. ASSUME NEW s \in SUBSET (1 .. n)
          PROVE  f[s] = IF s = {} THEN start ELSE Counted(f[s \ {Max(s)}], found[Max(s)])
      <3>1. CASE s = {}
        BY <1>8, <1>9, <3>1 DEF IsFold
      <3>2. CASE s # {}
        <4>1. Max(s) \in 1 .. n /\ s \ {Max(s)} \in SUBSET (1 .. n)
          BY <3>2, LastPlace
        <4>2. f[s] = F[<<Max(s), f[s \ {Max(s)}]>>] /\ f[s \ {Max(s)}] \in V
          BY <1>9, <3>2, <4>1 DEF IsFold
        <4>3. Max(s) \in 0 .. n /\ Max(s) # 0
          BY <4>1
        <4> QED
          BY <1>6, <3>2, <4>2, <4>3
      <3> QED
        BY <3>1, <3>2
    <2>2. f = [s \in SUBSET (1 .. n) |-> f[s]]
      BY <1>9 DEF IsFold
    <2> QED
      BY <1>3, <2>1, <2>2
  <1>11. iter = Body(iter)
    <2> HIDE DEF Body
    <2> QED
      BY <1>2, <1>10
  <1>12. \A s \in SUBSET (1 .. n) : iter[s] = IF s = {} THEN start ELSE Counted(iter[s \ {Max(s)}], found[Max(s)])
    BY <1>3, <1>11
  <1>13. FoldsBeginnings(iter, n, V, base, F)
    <2>1. iter[{}] = base
      BY <1>8, <1>12
    <2>2. ASSUME NEW k \in 1 .. n, iter[1 .. k - 1] \in V
          PROVE  iter[1 .. k] = F[<<k, iter[1 .. k - 1]>>]
      <3>1. k \in Nat \ {0} /\ k \in 0 .. n /\ 1 .. k \in SUBSET (1 .. n)
        OBVIOUS
      <3>2. iter[1 .. k] = Counted(iter[1 .. k - 1], found[k])
        BY <1>12, <3>1, LastOfBeginning
      <3> QED
        BY <1>6, <2>2, <3>1, <3>2
    <2> QED
      BY <2>1, <2>2 DEF FoldsBeginnings
  <1>14. iter[1 .. n] \in V
    <2>1. IsFolding(iter, n, V, base, F)
      BY <1>3, <1>7, <1>8, <1>13 DEF IsFolding
    <2> QED
      BY <2>1, FoldTyped
  <1>15. CountingOf(start, found) = iter[1 .. n]
    <2> HIDE DEF Body
    <2> QED
      BY <1>1, <1>2, <1>3
  <1> QED
    BY <1>4, <1>14, <1>15

LEMMA Positions ==
    ASSUME NEW n \in Nat
    PROVE  IsFiniteSet(1 .. n) /\ Cardinality(1 .. n) = n
  <1>1. IsFiniteSet(1 .. n) /\ Cardinality(1 .. n) = IF 1 > n THEN 0 ELSE n - 1 + 1
    BY FS_Interval
  <1> QED
    BY <1>1

(* Where the sets of those at or before an element form a chain, every      *)
(* place is taken.                                                         *)
LEMMA EveryPlaceTaken ==
    ASSUME NEW I, IsFiniteSet(I), NEW before,
           \A j \in I : before[j] \subseteq I /\ j \in before[j],
           \A j, k \in I : j # k => \/ before[j] \subseteq before[k] /\ k \notin before[j]
                                    \/ before[k] \subseteq before[j] /\ j \notin before[k],
           NEW n \in 1 .. Cardinality(I)
    PROVE  \E j \in I : Cardinality(before[j]) = n
  <1> SUFFICES ASSUME \A j \in I : Cardinality(before[j]) # n
               PROVE  FALSE
    OBVIOUS
  <1>1. Cardinality(I) \in Nat
    BY FS_CardinalityType
  <1> DEFINE places == (1 .. Cardinality(I)) \ {n}
             place == [j \in I |-> Cardinality(before[j])]
  <1>2. ASSUME NEW j \in I
        PROVE  /\ IsFiniteSet(before[j])
               /\ Cardinality(before[j]) \in places
    <2>1. IsFiniteSet(before[j]) /\ Cardinality(before[j]) <= Cardinality(I)
      BY FS_Subset
    <2>2. Cardinality(before[j]) \in Nat /\ Cardinality(before[j]) # 0
      BY <2>1, FS_CardinalityType, FS_EmptySet
    <2> QED
      BY <1>1, <2>1, <2>2
  <1>3. IsFiniteSet(places) /\ Cardinality(places) < Cardinality(I)
    <2>1. IsFiniteSet(1 .. Cardinality(I)) /\ Cardinality(1 .. Cardinality(I)) = Cardinality(I)
      BY <1>1, Positions
    <2>2. IsFiniteSet(places) /\ Cardinality(places) = Cardinality(1 .. Cardinality(I)) - 1
      BY <2>1, FS_RemoveElement
    <2> QED
      BY <1>1, <2>1, <2>2
  <1>4. place \in [I -> places]
    BY <1>2
  <1> HIDE DEF places, place
  <1>5. PICK j, k \in I : j # k /\ place[j] = place[k]
    BY <1>3, <1>4, FS_PigeonHole
  <1>6. Cardinality(before[j]) = Cardinality(before[k])
    BY <1>5 DEF place
  <1>7. before[j] = before[k]
    <2>1. \/ before[j] \subseteq before[k]
          \/ before[k] \subseteq before[j]
      BY <1>5
    <2> QED
      BY <1>2, <1>6, <2>1, FS_Subset
  <1> QED
    BY <1>5, <1>7

(* The entries of a dictionary by falling count.                            *)
SortedByCount(s) == SortByFalling(s, LAMBDA e : e.count)

LEMMA SortedEntries ==
    ASSUME NEW P, NEW E, AreEntries(E, P), NEW s \in Seq(E)
    PROVE  /\ SortedByCount(s) \in Seq(E)
           /\ Len(SortedByCount(s)) = Len(s)
  <1>1. PICK key : key = [i \in DOMAIN s |-> s[i].count]
    OBVIOUS
  <1>2. key \in [DOMAIN s -> Int]
    <2>1. \A e \in E : e.count \in Nat
      BY DEF AreEntries
    <2>2. \A i \in DOMAIN s : s[i] \in E
      OBVIOUS
    <2>3. \A i \in DOMAIN s : s[i].count \in Int
      BY <2>1, <2>2
    <2> QED
      BY <1>1, <2>3
  <1> DEFINE Ahead(j) == {k \in DOMAIN s : \/ s[k].count > s[j].count
                                           \/ s[k].count = s[j].count /\ k <= j}
             before == [j \in DOMAIN s |-> Ahead(j)]
             At(i) == CHOOSE j \in DOMAIN s : Cardinality(Ahead(j)) = i
  <1>3. SortedByCount(s) = [i \in DOMAIN s |-> s[At(i)]]
    BY Zenon DEF SortedByCount, SortByFalling
  <1>4. DOMAIN s = 1 .. Len(s) /\ Len(s) \in Nat
    OBVIOUS
  <1>5. IsFiniteSet(DOMAIN s) /\ Cardinality(DOMAIN s) = Len(s)
    <2>1. IsFiniteSet(1 .. Len(s)) /\ Cardinality(1 .. Len(s)) = Len(s)
      BY <1>4, Positions
    <2> QED
      BY <1>4, <2>1
  <1>6. ASSUME NEW i \in DOMAIN s
        PROVE  At(i) \in DOMAIN s
    <2>1. ASSUME NEW j \in DOMAIN s, NEW k \in DOMAIN s
          PROVE  k \in before[j] <=> key[k] > key[j] \/ (key[k] = key[j] /\ k <= j)
      BY <1>1
    <2>2. \A j \in DOMAIN s : before[j] \subseteq DOMAIN s
      OBVIOUS
    <2>3. \A j \in DOMAIN s : before[j] = Ahead(j)
      OBVIOUS
    <2>0. At(i) = CHOOSE j \in DOMAIN s : Cardinality(Ahead(j)) = i
      OBVIOUS
    <2> HIDE DEF before, Ahead, At
    <2>4. \A j \in DOMAIN s : key[j] \in Int /\ j \in Int
      BY <1>2, <1>4
    <2>5. \A j \in DOMAIN s : before[j] \subseteq DOMAIN s /\ j \in before[j]
      BY <2>1, <2>2, <2>4
    <2>6. ASSUME NEW j \in DOMAIN s, NEW m \in DOMAIN s, j # m
          PROVE  \/ before[j] \subseteq before[m] /\ m \notin before[j]
                 \/ before[m] \subseteq before[j] /\ j \notin before[m]
      <3>1. ASSUME NEW a \in DOMAIN s, NEW b \in DOMAIN s,
                   key[a] > key[b] \/ (key[a] = key[b] /\ a < b)
            PROVE  before[a] \subseteq before[b] /\ b \notin before[a]
        <4>1. ASSUME NEW k \in before[a]
              PROVE  k \in before[b]
          <5>1. k \in DOMAIN s
            BY <2>2, <4>1
          <5>2. key[k] > key[a] \/ (key[k] = key[a] /\ k <= a)
            BY <2>1, <4>1, <5>1
          <5>3. /\ key[a] \in Int /\ key[b] \in Int /\ key[k] \in Int
                /\ a \in Int /\ b \in Int /\ k \in Int
            BY <2>4, <5>1
          <5>4. PICK x \in Int, y \in Int, z \in Int : x = key[a] /\ y = key[b] /\ z = key[k]
            BY <5>3
          <5>5. /\ z > x \/ (z = x /\ k <= a)
                /\ x > y \/ (x = y /\ a < b)
            BY <3>1, <5>2, <5>4
          <5>6. z > y \/ (z = y /\ k <= b)
            BY SMTT(30), <5>3, <5>5
          <5> QED
            BY <2>1, <5>1, <5>4, <5>6
        <4>2. ~(key[b] > key[a] \/ (key[b] = key[a] /\ b <= a))
          <5>1. key[a] \in Int /\ key[b] \in Int /\ a \in Int /\ b \in Int
            BY <2>4
          <5> QED
            BY SMTT(30), <3>1, <5>1
        <4> QED
          BY <2>1, <4>1, <4>2
      <3>2. \/ key[j] > key[m] \/ (key[j] = key[m] /\ j < m)
            \/ key[m] > key[j] \/ (key[m] = key[j] /\ m < j)
        BY SMTT(30), <2>4, <2>6
      <3> QED
        BY <3>1, <3>2
    <2>7. i \in 1 .. Cardinality(DOMAIN s)
      BY <1>4, <1>5
    <2>8. PICK j \in DOMAIN s : Cardinality(before[j]) = i
      BY <1>5, <2>5, <2>6, <2>7, EveryPlaceTaken
    <2> QED
      BY <2>0, <2>3, <2>8
  <1> HIDE DEF At
  <1>7. PICK f : f = SortedByCount(s)
    OBVIOUS
  <1>8. f \in Seq(E) /\ Len(f) = Len(s)
    BY <1>3, <1>4, <1>6, <1>7
  <1> QED
    BY <1>7, <1>8

(* The patterns of the best entries: at most as many as are asked for.      *)
BestOf(frequency, most) ==
    LET best == Truncate(SortedByCount(frequency), most)
    IN [i \in DOMAIN best |-> best[i].pattern]

LEMMA BestTyped ==
    ASSUME NEW P, NEW E, AreEntries(E, P), NEW frequency \in Seq(E), NEW most \in Nat
    PROVE  BestOf(frequency, most) \in Seq(P) /\ Len(BestOf(frequency, most)) <= most
  <1>1. PICK sorted \in Seq(E) : sorted = SortedByCount(frequency)
    BY SortedEntries
  <1>2. PICK best : best = Truncate(sorted, most)
    OBVIOUS
  <1>3. best \in Seq(E) /\ Len(best) <= most
    <2>1. CASE Len(sorted) > most
      <3>1. best = SubSeq(sorted, 1, most)
        BY <1>2, <2>1 DEF Truncate
      <3> QED
        BY <2>1, <3>1
    <2>2. CASE ~(Len(sorted) > most)
      <3>1. best = sorted
        BY <1>2, <2>2 DEF Truncate
      <3>2. Len(sorted) \in Nat
        OBVIOUS
      <3> QED
        BY <2>2, <3>1, <3>2
    <2> QED
      BY <2>1, <2>2
  <1>4. PICK n \in Nat : n = Len(best) /\ DOMAIN best = 1 .. n
    BY <1>3
  <1>5. \A i \in 1 .. n : best[i].pattern \in P
    <2>1. \A e \in E : e.pattern \in P
      BY DEF AreEntries
    <2> QED
      BY <1>3, <1>4, <2>1
  <1>6. BestOf(frequency, most) = [i \in 1 .. n |-> best[i].pattern]
    BY <1>1, <1>2, <1>4 DEF BestOf
  <1>7. [i \in 1 .. n |-> best[i].pattern] \in Seq(P) /\ Len([i \in 1 .. n |-> best[i].pattern]) = n
    BY <1>5
  <1> QED
    BY <1>3, <1>4, <1>6, <1>7

LEMMA CommonAmountsTyped ==
    ASSUME NEW amounts \in Seq(Nat)
    PROVE  CommonAmounts(amounts) \in Seq(Nat)
  <1>1. PICK E : AreEntries(E, Nat)
    BY DEF AreEntries
  <1>2. PICK start \in Seq(E) : start = <<>>
    <2>1. <<>> \in Seq(E)
      OBVIOUS
    <2> QED
      BY ONLY <2>1
  <1>3. PICK counted \in Seq(E) : counted = CountingOf(start, amounts)
    BY <1>1, CountingTyped
  <1>4. CommonAmounts(amounts) = BestOf(CountingOf(<<>>, amounts), 128)
    BY Zenon DEF CommonAmounts, BestOf, CountingOf, SortedByCount
  <1>5. BestOf(counted, 128) \in Seq(Nat)
    BY <1>1, BestTyped
  <1> QED
    BY <1>2, <1>3, <1>4, <1>5

(* A dictionary: what its patterns are made of is kept.                     *)
IsDictionary(dictionary, P) ==
    /\ dictionary.frequency \in Seq([pattern : P, count : Nat])
    /\ dictionary.entries \in Seq(P) /\ Len(dictionary.entries) <= MaxDictionarySize
    /\ dictionary.version \in Nat

LEMMA DictionaryOfTyped ==
    ASSUME NEW P, NEW frequency \in Seq([pattern : P, count : Nat]), NEW version \in Nat
    PROVE  IsDictionary(DictionaryOf(frequency, version), P)
  <1>1. PICK E : AreEntries(E, P)
    BY DEF AreEntries
  <1>2. frequency \in Seq(E)
    BY <1>1 DEF AreEntries
  <1>3. SelectBestEntries(frequency) = BestOf(frequency, MaxDictionarySize)
    BY Zenon DEF SelectBestEntries, BestOf, SortedByCount
  <1>4. SelectBestEntries(frequency) \in Seq(P) /\ Len(SelectBestEntries(frequency)) <= MaxDictionarySize
    <2>1. MaxDictionarySize \in Nat
      BY EnginesAssumption
    <2> QED
      BY <1>1, <1>2, <1>3, <2>1, BestTyped
  <1> QED
    BY <1>4 DEF DictionaryOf, IsDictionary

LEMMA TabulatedSequence ==
    ASSUME NEW m \in Nat, NEW T, NEW f \in [1 .. m -> T]
    PROVE  f \in Seq(T)
  OBVIOUS

LEMMA ExtractedTyped ==
    ASSUME NEW C, NEW texts \in Seq(Seq(C)), NEW P, P = Seq(C)
    PROVE  ExtractPatterns(texts) \in Seq(P)
  <1> DEFINE In(d) == FlattenSeq([k \in 1 .. MaxPatternLength - 1 |-> Substrings(d, k + 1)])
  <1>1. PICK W : W = Seq(P)
    OBVIOUS
  <1>2. ASSUME NEW d \in Seq(C), NEW k \in Nat \ {0}
        PROVE  Substrings(d, k) \in W
    <2>1. PICK m \in Nat : m = IF Len(d) < k THEN 0 ELSE Len(d) - k + 1
      <3>1. PICK l \in Nat : l = Len(d)
        OBVIOUS
      <3>2. (IF l < k THEN 0 ELSE l - k + 1) \in Nat
        OBVIOUS
      <3> QED
        BY <3>1, <3>2
    <2>2. \A i \in 1 .. m : SubSeq(d, i, i + k - 1) \in P
      BY <2>1
    <2>3. Substrings(d, k) = [i \in 1 .. m |-> SubSeq(d, i, i + k - 1)]
      BY <2>1 DEF Substrings
    <2>4. Substrings(d, k) \in Seq(P)
      <3>1. PICK f : f = [i \in 1 .. m |-> SubSeq(d, i, i + k - 1)]
        OBVIOUS
      <3>2. f \in [1 .. m -> P]
        BY <2>2, <3>1
      <3>3. f \in Seq(P)
        BY <2>1, <3>2, TabulatedSequence
      <3> QED
        BY <2>3, <3>1, <3>3
    <2> QED
      BY <1>1, <2>4
  <1>3. MaxPatternLength - 1 \in Nat
    BY EnginesAssumption
  <1>4. ASSUME NEW d \in Seq(C)
        PROVE  In(d) \in W
    <2>1. \A k \in 1 .. MaxPatternLength - 1 : Substrings(d, k + 1) \in W
      BY <1>2
    <2>2. PICK parts : parts = [k \in 1 .. MaxPatternLength - 1 |-> Substrings(d, k + 1)]
      OBVIOUS
    <2>3. parts \in Seq(W)
      BY <1>3, <2>1, <2>2
    <2>4. FlattenSeq(parts) \in Seq(P)
      BY <1>1, <2>3, Flattened
    <2> QED
      BY <1>1, <2>2, <2>4
  <1>5. PICK n \in Nat : n = Len(texts) /\ DOMAIN texts = 1 .. n
    OBVIOUS
  <1>6. PICK parts : parts = [i \in DOMAIN texts |-> In(texts[i])]
    OBVIOUS
  <1>7. parts \in Seq(W)
    <2>1. \A i \in 1 .. n : texts[i] \in Seq(C)
      BY <1>5
    <2>2. \A i \in 1 .. n : In(texts[i]) \in W
      BY <1>4, <2>1
    <2> HIDE DEF In
    <2> QED
      BY <1>5, <1>6, <2>2
  <1>8. PICK found \in Seq(P) : found = FlattenSeq(parts)
    BY <1>1, <1>7, Flattened
  <1>9. ExtractPatterns(texts) = DistinctOf(FlattenSeq([i \in DOMAIN texts |-> In(texts[i])]))
    BY Zenon DEF ExtractPatterns, DistinctOf, Taken
  <1>10. ExtractPatterns(texts) = DistinctOf(found)
    <2> HIDE DEF In
    <2> QED
      BY <1>6, <1>8, <1>9
  <1> QED
    BY <1>8, <1>10, DistinctTyped

LEMMA NewDictionaryTyped ==
    ASSUME NEW C, NEW texts \in Seq(Seq(C))
    PROVE  IsDictionary(NewDictionary(texts), Seq(C))
  <1>1. PICK P : P = Seq(C)
    OBVIOUS
  <1>2. PICK found \in Seq(P) : found = ExtractPatterns(texts)
    BY <1>1, ExtractedTyped
  <1>3. PICK E : AreEntries(E, P)
    BY DEF AreEntries
  <1>4. PICK start \in Seq(E) : start = <<>>
    <2>1. <<>> \in Seq(E)
      OBVIOUS
    <2> QED
      BY ONLY <2>1
  <1>5. PICK counted \in Seq(E) : counted = CountingOf(start, found)
    BY <1>3, CountingTyped
  <1>6. NewDictionary(texts) = DictionaryOf(CountingOf(<<>>, ExtractPatterns(texts)), 1)
    BY Zenon DEF NewDictionary, CountingOf
  <1>7. counted \in Seq([pattern : P, count : Nat])
    BY <1>3 DEF AreEntries
  <1>8. IsDictionary(DictionaryOf(counted, 1), P)
    BY <1>7, DictionaryOfTyped
  <1> QED
    BY <1>1, <1>2, <1>4, <1>5, <1>6, <1>8

LEMMA UpdatedDictionaryTyped ==
    ASSUME NEW C, NEW texts \in Seq(Seq(C)), NEW dictionary, IsDictionary(dictionary, Seq(C))
    PROVE  IsDictionary(UpdatedDictionary(dictionary, texts), Seq(C))
  <1>1. PICK P : P = Seq(C)
    OBVIOUS
  <1>2. PICK found \in Seq(P) : found = ExtractPatterns(texts)
    BY <1>1, ExtractedTyped
  <1>3. PICK E : AreEntries(E, P)
    BY DEF AreEntries
  <1>4. PICK start \in Seq(E) : start = dictionary.frequency
    BY <1>1, <1>3 DEF AreEntries, IsDictionary
  <1>5. PICK counted \in Seq(E) : counted = CountingOf(start, found)
    BY <1>3, CountingTyped
  <1>6. UpdatedDictionary(dictionary, texts)
            = DictionaryOf(CountingOf(dictionary.frequency, ExtractPatterns(texts)), dictionary.version + 1)
    BY Zenon DEF UpdatedDictionary, CountingOf
  <1>7. counted \in Seq([pattern : P, count : Nat])
    BY <1>3 DEF AreEntries
  <1>8. dictionary.version + 1 \in Nat
    BY DEF IsDictionary
  <1>9. IsDictionary(DictionaryOf(counted, dictionary.version + 1), P)
    BY <1>7, <1>8, DictionaryOfTyped
  <1> QED
    BY <1>1, <1>2, <1>4, <1>5, <1>6, <1>9

(***************************************************************************)
(* Compression with the entries of a dictionary, and the way back          *)
(***************************************************************************)

Bytes == 0 .. 255

AreTexts(entries) == entries \in Seq(Seq(Int)) /\ Len(entries) <= 32768

(* What BestMatch finds is in the text.                                     *)
IsMatch(e, entries, d, i) ==
    /\ e \in 1 .. Len(entries)
    /\ Len(entries[e]) \in 1 .. Len(d) - i + 1
    /\ SubSeq(d, i, i + Len(entries[e]) - 1) = entries[e]

LEMMA LongestMatch ==
    ASSUME NEW d \in Seq(0 .. 127), NEW entries, AreTexts(entries), NEW i \in 1 .. Len(d),
           NEW e, e = BestMatch(entries, d, i)
    PROVE  e = 0 \/ IsMatch(e, entries, d, i)
  <1>1. PICK all : all = {f \in DOMAIN entries : /\ Len(entries[f]) \in 1 .. Len(d) - i + 1
                                                 /\ SubSeq(d, i, i + Len(entries[f]) - 1) = entries[f]}
    OBVIOUS
  <1>2. e = IF all = {} THEN 0 ELSE CHOOSE f \in all : \A g \in all : Len(entries[f]) >= Len(entries[g])
    <2> DEFINE Here == {f \in DOMAIN entries : /\ Len(entries[f]) \in 1 .. Len(d) - i + 1
                                               /\ SubSeq(d, i, i + Len(entries[f]) - 1) = entries[f]}
    <2>1. BestMatch(entries, d, i)
              = IF Here = {} THEN 0 ELSE CHOOSE f \in Here : \A g \in Here : Len(entries[f]) >= Len(entries[g])
      BY Zenon DEF BestMatch
    <2>2. all = Here
      BY <1>1
    <2> HIDE DEF Here
    <2> QED
      BY <2>1, <2>2, Zenon
  <1>3. DOMAIN entries = 1 .. Len(entries)
    BY DEF AreTexts
  <1>4. CASE all # {}
    <2>1. PICK m \in Nat : m = Len(d) - i + 1
      <3>1. Len(d) - i + 1 \in Nat
        OBVIOUS
      <3> QED
        BY <3>1
    <2>2. PICK lengths : lengths = {Len(entries[f]) : f \in all}
      OBVIOUS
    <2>3. lengths \in SUBSET (1 .. m) /\ lengths # {}
      BY <1>1, <1>4, <2>1, <2>2
    <2>4. PICK top : top \in lengths /\ \A l \in lengths : l <= top
      BY <2>3, LastPlace
    <2>5. PICK f \in all : top = Len(entries[f])
      BY <2>2, <2>4
    <2>6. \A g \in all : Len(entries[f]) >= Len(entries[g])
      <3>1. ASSUME NEW g \in all
            PROVE  Len(entries[f]) >= Len(entries[g])
        <4>1. Len(entries[g]) \in lengths
          BY <2>2
        <4>2. Len(entries[g]) <= top /\ Len(entries[g]) \in Int /\ top \in Int
          BY <2>3, <2>4, <4>1
        <4> QED
          BY <2>5, <4>2
      <3> QED
        BY <3>1
    <2>7. e \in all
      BY <1>2, <1>4, <2>6, Zenon
    <2> QED
      BY <1>1, <1>3, <2>7 DEF IsMatch
  <1> QED
    BY <1>2, <1>4

LEMMA ItemOf ==
    ASSUME NEW S, NEW s \in Seq(S), NEW i \in 1 .. Len(s)
    PROVE  s[i] \in S
  OBVIOUS

(* The fifteen bits of a reference are read back.                           *)
IsReference(s, id) ==
    s \in Seq(Bytes) /\ Len(s) = 2 /\ s[1] >= 128 /\ (s[1] - 128) * 256 + s[2] = id

IsId(id) == id \in Nat /\ id < 32768

LEMMA ReferenceRead ==
    ASSUME NEW id, IsId(id)
    PROVE  IsReference(Reference(id), id)
  <1> id \in Nat /\ id < 32768
    BY DEF IsId
  <1>1. PICK h, l : h = id \div 256 /\ l = id % 256
    OBVIOUS
  <1>a. h \in Nat
    BY <1>1
  <1>b. l \in 0 .. 255
    BY <1>1
  <1>c. id = l + 256 * h
    BY <1>1
  <1>d. h \in 0 .. 127
    <2>1. id \in Int /\ id < 32768
      OBVIOUS
    <2>2. h >= 128 => FALSE
      BY <2>1, <1>a, <1>b, <1>c
    <2> QED
      BY <2>2, <1>a
  <1>2. h % 128 = h
    BY <1>d
  <1>3. Reference(id) = <<128 + h, l>>
    BY <1>1, <1>2 DEF Reference
  <1>4. PICK a \in Bytes, b \in Bytes : a = 128 + h /\ b = l
    <2>1. 128 + h \in Bytes /\ l \in Bytes
      BY <1>b, <1>d DEF Bytes
    <2> QED
      BY <2>1
  <1>5. (a - 128) * 256 + b = id /\ a >= 128
    BY <1>4, <1>b, <1>c, <1>d
  <1>6. <<a, b>> \in Seq(Bytes) /\ Len(<<a, b>>) = 2 /\ <<a, b>>[1] = a /\ <<a, b>>[2] = b
    OBVIOUS
  <1> QED
    BY <1>3, <1>4, <1>5, <1>6 DEF IsReference

(* What is compressed from each place on.                                   *)
Emitted(entries, d, i) ==
    LET e == BestMatch(entries, d, i) IN IF e = 0 THEN <<d[i]>> ELSE Reference(e - 1)

NextPlace(entries, d, i) ==
    LET e == BestMatch(entries, d, i) IN IF e = 0 THEN i + 1 ELSE i + Len(entries[e])

IsCompression(c, entries, d) ==
    \A i \in 1 .. Len(d) + 1 :
        /\ c[i] \in Seq(Bytes)
        /\ c[i] = IF i > Len(d) THEN <<>> ELSE Emitted(entries, d, i) \o c[NextPlace(entries, d, i)]

LEMMA EmittedTyped ==
    ASSUME NEW d \in Seq(0 .. 127), NEW entries, AreTexts(entries), NEW i \in 1 .. Len(d)
    PROVE  /\ Emitted(entries, d, i) \in Seq(Bytes) /\ Len(Emitted(entries, d, i)) \in 1 .. 2
           /\ NextPlace(entries, d, i) \in i + 1 .. Len(d) + 1
  <1>1. PICK e : e = BestMatch(entries, d, i)
    OBVIOUS
  <1>2. CASE e = 0
    <2>1. d[i] \in Bytes
      <3>1. d[i] \in 0 .. 127
        BY ItemOf
      <3> QED
        BY <3>1 DEF Bytes
    <2>2. Emitted(entries, d, i) = <<d[i]>> /\ NextPlace(entries, d, i) = i + 1
      BY <1>1, <1>2 DEF Emitted, NextPlace
    <2> QED
      BY <2>1, <2>2
  <1>3. CASE e # 0
    <2>1. IsMatch(e, entries, d, i)
      BY <1>1, <1>3, LongestMatch
    <2>2. e - 1 \in Nat /\ e - 1 < 32768
      BY <2>1 DEF IsMatch, AreTexts
    <2>3. Emitted(entries, d, i) = Reference(e - 1) /\ NextPlace(entries, d, i) = i + Len(entries[e])
      BY <1>1, <1>3 DEF Emitted, NextPlace
    <2>4. Reference(e - 1) \in Seq(Bytes) /\ Len(Reference(e - 1)) = 2
      <3>1. PICK id : id = e - 1
        OBVIOUS
      <3>3. IsId(id)
        BY <2>2, <3>1 DEF IsId
      <3>2. IsReference(Reference(id), id)
        BY <3>3, ReferenceRead
      <3> QED
        BY <3>1, <3>2 DEF IsReference
    <2>7. i + Len(entries[e]) \in i + 1 .. Len(d) + 1
      BY <2>1 DEF IsMatch
    <2> QED
      BY <2>3, <2>4, <2>7
  <1> QED
    BY <1>2, <1>3

LEMMA Compressed ==
    ASSUME NEW d \in Seq(0 .. 127), NEW entries, AreTexts(entries)
    PROVE  \E c : IsCompression(c, entries, d) /\ CompressWithDictionary(d, entries) = c[1]
  <1> DEFINE Body(g) == [i \in 1 .. Len(d) + 1 |->
                            IF i > Len(d) THEN <<>>
                            ELSE LET e == BestMatch(entries, d, i)
                                 IN IF e = 0 THEN <<d[i]>> \o g[i + 1]
                                    ELSE Reference(e - 1) \o g[i + MatchedLength(entries, e)]]
  <1>1. PICK n \in Nat : n = Len(d)
    OBVIOUS
  <1>2. PICK D, V : D = 1 .. n + 1 /\ V = Seq(Bytes)
    OBVIOUS
  <1>a. <<>> \in V
    <2>1. <<>> \in Seq(Bytes)
      OBVIOUS
    <2> QED
      BY <1>2, <2>1, Zenon
  <1>3. PICK E, N : /\ E = [i \in 1 .. n |-> Emitted(entries, d, i)]
                    /\ N = [i \in 1 .. n |-> NextPlace(entries, d, i)]
    OBVIOUS
  <1>4. \A i \in 1 .. n : E[i] \in V /\ N[i] \in i + 1 .. n + 1
    <2>1. ASSUME NEW i \in 1 .. n
          PROVE  E[i] \in V /\ N[i] \in i + 1 .. n + 1
      <3>1. E[i] = Emitted(entries, d, i) /\ N[i] = NextPlace(entries, d, i)
        BY <1>3
      <3>2. i \in 1 .. Len(d)
        BY <1>1
      <3>3. Emitted(entries, d, i) \in Seq(Bytes) /\ NextPlace(entries, d, i) \in i + 1 .. Len(d) + 1
        BY <3>2, EmittedTyped
      <3> QED
        BY <1>1, <1>2, <3>1, <3>3
    <2> QED
      BY <2>1
  <1>5. PICK rank : rank = [i \in D |-> n + 1 - i]
    OBVIOUS
  <1>6. PICK J : J = [i \in D |-> IF i = n + 1 THEN n + 1 ELSE N[i]]
    OBVIOUS
  <1>7. PICK F : F = [p \in D \X V |-> IF p[1] = n + 1 THEN <<>> ELSE E[p[1]] \o p[2]]
    OBVIOUS
  <1>8. rank \in [D -> 0 .. n] /\ J \in [D -> D]
    BY <1>2, <1>4, <1>5, <1>6
  <1>9. \A i \in D : \A s \in V : F[<<i, s>>] = IF i = n + 1 THEN <<>> ELSE E[i] \o s
    BY <1>7
  <1>10. F \in [D \X V -> V]
    <2>1. ASSUME NEW i \in D, NEW s \in V
          PROVE  F[<<i, s>>] \in V
      <3>1. CASE i = n + 1
        BY <1>a, <1>9, <3>1, Zenon
      <3>2. CASE i # n + 1
        <4>1. E[i] \in V
          BY <1>2, <1>4, <3>2
        <4>2. E[i] \o s \in V
          BY <1>2, <4>1
        <4> QED
          BY <1>9, <3>2, <4>2
      <3> QED
        BY <3>1, <3>2
    <2>2. F = [p \in D \X V |-> F[p]]
      BY <1>7
    <2> QED
      BY <2>1, <2>2, OfPairs
  <1>11. Descends(D, V, rank, J, F)
    <2>1. ASSUME NEW i \in D, i # n + 1
          PROVE  rank[J[i]] < rank[i]
      BY <1>2, <1>4, <1>5, <1>6, <2>1
    <2> QED
      BY <1>9, <2>1 DEF Descends
  <1>12. PICK f : IsSolution(f, D, V, J, F)
    <2>1. V # {}
      BY <1>a
    <2> QED
      BY <1>8, <1>10, <1>11, <2>1, RecursionSolved
  <1>13. \A i \in D : f[i] = IF i = n + 1 THEN <<>> ELSE E[i] \o f[N[i]]
    <2>1. f \in [D -> V] /\ \A i \in D : f[i] = F[<<i, f[J[i]]>>]
      BY <1>12 DEF IsSolution
    <2>2. ASSUME NEW i \in D
          PROVE  f[i] = IF i = n + 1 THEN <<>> ELSE E[i] \o f[N[i]]
      <3>1. f[J[i]] \in V
        BY <1>8, <2>1
      <3>2. i # n + 1 => J[i] = N[i]
        BY <1>6
      <3> QED
        BY <1>9, <2>1, <3>1, <3>2
    <2> QED
      BY <2>2
  <1>14. \A h : Body(h) = [i \in D |-> IF i = n + 1 THEN <<>> ELSE E[i] \o h[N[i]]]
    <2>1. ASSUME NEW h, NEW i \in D
          PROVE  Body(h)[i] = IF i = n + 1 THEN <<>> ELSE E[i] \o h[N[i]]
      <3>1. CASE i = n + 1
        BY <1>1, <1>2, <3>1
      <3>2. CASE i # n + 1
        <4>1. i \in 1 .. n /\ ~(i > Len(d)) /\ i \in 1 .. Len(d) + 1
          BY <1>1, <1>2, <3>2
        <4>2. PICK e : e = BestMatch(entries, d, i)
          OBVIOUS
        <4>3. Body(h)[i] = IF e = 0 THEN <<d[i]>> \o h[i + 1] ELSE Reference(e - 1) \o h[i + Len(entries[e])]
          BY <4>1, <4>2, Zenon DEF MatchedLength
        <4>4. E[i] = (IF e = 0 THEN <<d[i]>> ELSE Reference(e - 1))
          <5>1. E[i] = Emitted(entries, d, i)
            BY <1>3, <4>1
          <5> QED
            BY <4>2, <5>1, Zenon DEF Emitted
        <4>5. N[i] = (IF e = 0 THEN i + 1 ELSE i + Len(entries[e]))
          <5>1. N[i] = NextPlace(entries, d, i)
            BY <1>3, <4>1
          <5> QED
            BY <4>2, <5>1, Zenon DEF NextPlace
        <4> HIDE DEF Body
        <4> QED
          BY <3>2, <4>3, <4>4, <4>5, Zenon
      <3> QED
        BY <3>1, <3>2
    <2>2. ASSUME NEW h
          PROVE  Body(h) = [i \in D |-> Body(h)[i]]
      BY <1>1, <1>2
    <2> HIDE DEF Body
    <2> QED
      BY <2>1, <2>2
  <1>15. CompressWithDictionary(d, entries) = (CHOOSE h : h = Body(h))[1]
    BY Zenon DEF CompressWithDictionary
  <1>16. f = Body(f)
    <2>1. f = [i \in D |-> f[i]]
      BY <1>12 DEF IsSolution
    <2> HIDE DEF Body
    <2> QED
      BY <1>13, <1>14, <2>1
  <1> HIDE DEF Body
  <1>17. PICK c : c = CHOOSE h : h = Body(h)
    OBVIOUS
  <1>18. c = Body(c)
    BY <1>16, <1>17, Zenon
  <1>19. c = [i \in D |-> IF i = n + 1 THEN <<>> ELSE E[i] \o c[N[i]]]
    BY <1>14, <1>18, Zenon
  <1>20. \A i \in D : c[i] = IF i = n + 1 THEN <<>> ELSE E[i] \o c[N[i]]
    BY <1>19
  <1>21. \A i \in D : c[i] \in V
    <2> DEFINE Bad == {i \in D : c[i] \notin V}
    <2>1. CASE Bad # {}
      <3>1. Bad \in SUBSET (1 .. n + 1) /\ n + 1 \in Nat
        BY <1>2
      <3> HIDE DEF Bad
      <3>2. PICK b : b \in Bad /\ \A i \in Bad : i <= b
        BY <2>1, <3>1, LastPlace
      <3> USE DEF Bad
      <3>3. b \in D /\ c[b] \notin V
        BY <3>2
      <3>4. CASE b = n + 1
        BY <1>a, <1>20, <3>3, <3>4, Zenon
      <3>5. CASE b # n + 1
        <4>1. E[b] \in V /\ N[b] \in D /\ N[b] > b
          BY <1>2, <1>4, <3>3, <3>5
        <4>2. c[N[b]] \in V
          BY <1>2, <3>2, <3>3, <4>1
        <4>3. E[b] \o c[N[b]] \in V
          BY <1>2, <4>1, <4>2
        <4> QED
          BY <1>20, <3>3, <3>5, <4>3
      <3> QED
        BY <3>4, <3>5
    <2> QED
      BY <2>1
  <1>22. IsCompression(c, entries, d)
    <2>1. ASSUME NEW i \in 1 .. Len(d) + 1
          PROVE  /\ c[i] \in Seq(Bytes)
                 /\ c[i] = IF i > Len(d) THEN <<>> ELSE Emitted(entries, d, i) \o c[NextPlace(entries, d, i)]
      <3>1. i \in D /\ (i > Len(d) <=> i = n + 1)
        BY <1>1, <1>2
      <3>2. i # n + 1 => E[i] = Emitted(entries, d, i) /\ N[i] = NextPlace(entries, d, i)
        BY <1>1, <1>3, <3>1
      <3>3. c[i] \in Seq(Bytes)
        BY <1>2, <1>21, <3>1
      <3>4. c[i] = IF i > Len(d) THEN <<>> ELSE Emitted(entries, d, i) \o c[NextPlace(entries, d, i)]
        BY <1>20, <3>1, <3>2, Zenon
      <3> QED
        BY <3>3, <3>4
    <2> QED
      BY <2>1, Zenon DEF IsCompression
  <1> QED
    BY <1>15, <1>17, <1>22, Zenon

(* What is decompressed from each place on.                                 *)
IdOf(z, i) == (z[i] - 128) * 256 + z[i + 1]

BrokenAt(z, entries, i) == z[i] >= 128 /\ (i = Len(z) \/ IdOf(z, i) >= Len(entries))

TextAt(z, entries, i) == IF z[i] < 128 THEN <<z[i]>> ELSE entries[IdOf(z, i) + 1]

AfterText(z, i) == IF z[i] < 128 THEN i + 1 ELSE i + 2

Prepended(s, rest) == IF rest = FAILED THEN FAILED ELSE s \o rest

IsDecompression(c, z, entries) ==
    \A i \in 1 .. Len(z) + 1 :
        c[i] = IF i > Len(z) THEN <<>>
               ELSE IF BrokenAt(z, entries, i) THEN FAILED
               ELSE Prepended(TextAt(z, entries, i), c[AfterText(z, i)])

LEMMA ByteAt ==
    ASSUME NEW z \in Seq(Bytes), NEW i \in 1 .. Len(z)
    PROVE  \E v \in 0 .. 255 : z[i] = v
  <1>1. z[i] \in Bytes
    BY ItemOf
  <1> QED
    BY <1>1, Zenon DEF Bytes

LEMMA TextTyped ==
    ASSUME NEW z \in Seq(Bytes), NEW entries, AreTexts(entries), NEW i \in 1 .. Len(z), ~BrokenAt(z, entries, i)
    PROVE  /\ TextAt(z, entries, i) \in Seq(Int)
           /\ AfterText(z, i) \in i + 1 .. Len(z) + 1
  <1>1. PICK v \in 0 .. 255 : z[i] = v
    BY ByteAt
  <1>2. CASE v < 128
    <2>1. TextAt(z, entries, i) = <<v>> /\ AfterText(z, i) = i + 1
      BY <1>1, <1>2, Zenon DEF TextAt, AfterText
    <2> QED
      BY <2>1
  <1>3. CASE ~(v < 128)
    <2>a. v >= 128
      BY <1>3
    <2>b. i # Len(z) /\ ~(IdOf(z, i) >= Len(entries))
      BY <1>1, <2>a, Zenon DEF BrokenAt
    <2>1. i # Len(z) /\ i + 1 \in 1 .. Len(z) /\ ~(IdOf(z, i) >= Len(entries))
      BY <2>b
    <2>2. PICK w \in 0 .. 255 : z[i + 1] = w
      BY <2>1, ByteAt
    <2>3. PICK a \in Nat, b \in Nat : a = z[i] - 128 /\ b = z[i + 1]
      <3>1. v - 128 \in Nat /\ w \in Nat
        BY <2>a
      <3> QED
        BY <1>1, <2>2, <3>1
    <2>4. PICK id : id = IdOf(z, i)
      OBVIOUS
    <2>5. id = a * 256 + b
      BY <2>3, <2>4, Zenon DEF IdOf
    <2>6. id \in Nat
      BY <2>5
    <2>7. Len(entries) \in Nat /\ entries \in Seq(Seq(Int))
      BY DEF AreTexts
    <2>8. id + 1 \in 1 .. Len(entries)
      BY <2>1, <2>4, <2>6, <2>7
    <2>9. entries[id + 1] \in Seq(Int)
      BY <2>7, <2>8, ItemOf
    <2>10. TextAt(z, entries, i) = entries[id + 1] /\ AfterText(z, i) = i + 2
      BY <1>1, <1>3, <2>4 DEF TextAt, AfterText
    <2>11. AfterText(z, i) \in i + 1 .. Len(z) + 1
      BY <2>1, <2>10
    <2> QED
      BY <2>9, <2>10, <2>11
  <1> QED
    BY <1>2, <1>3

LEMMA Decompressing ==
    ASSUME NEW z \in Seq(Bytes), NEW entries, AreTexts(entries)
    PROVE  \E c : IsDecompression(c, z, entries) /\ DecompressWithDictionary(z, entries) = c[1]
  <1> DEFINE Body(g) ==
        [i \in 1 .. Len(z) + 1 |->
            IF i > Len(z) THEN <<>>
            ELSE IF z[i] < 128 THEN (IF g[i + 1] = FAILED THEN FAILED ELSE <<z[i]>> \o g[i + 1])
            ELSE IF z[i] >= 128 /\ (i = Len(z) \/ (z[i] - 128) * 256 + z[i + 1] >= Len(entries)) THEN FAILED
            ELSE (IF g[i + 2] = FAILED THEN FAILED ELSE entries[(z[i] - 128) * 256 + z[i + 1] + 1] \o g[i + 2])]
  <1>1. PICK n \in Nat : n = Len(z)
    OBVIOUS
  <1>2. PICK D, V : D = 1 .. n + 1 /\ V = Seq(Int)
    OBVIOUS
  <1>a. <<>> \in V /\ FAILED \in V
    <2>1. <<>> \in Seq(Int) /\ FAILED \in Seq(Int)
      BY DEF FAILED
    <2> QED
      BY <1>2, <2>1, Zenon
  <1>3. PICK B, E, N : /\ B = {i \in 1 .. n : BrokenAt(z, entries, i)}
                       /\ E = [i \in 1 .. n |-> TextAt(z, entries, i)]
                       /\ N = [i \in 1 .. n |-> AfterText(z, i)]
    OBVIOUS
  <1>4. \A i \in 1 .. n : i \notin B => E[i] \in V /\ N[i] \in i + 1 .. n + 1
    <2>1. ASSUME NEW i \in 1 .. n, i \notin B
          PROVE  E[i] \in V /\ N[i] \in i + 1 .. n + 1
      <3>1. E[i] = TextAt(z, entries, i) /\ N[i] = AfterText(z, i) /\ ~BrokenAt(z, entries, i)
        BY <1>3, <2>1
      <3>2. i \in 1 .. Len(z)
        BY <1>1
      <3>3. TextAt(z, entries, i) \in Seq(Int) /\ AfterText(z, i) \in i + 1 .. Len(z) + 1
        BY <3>1, <3>2, TextTyped
      <3> QED
        BY <1>1, <1>2, <3>1, <3>3
    <2> QED
      BY <2>1
  <1>5. PICK rank : rank = [i \in D |-> n + 1 - i]
    OBVIOUS
  <1>6. PICK J : J = [i \in D |-> IF i = n + 1 \/ i \in B THEN n + 1 ELSE N[i]]
    OBVIOUS
  <1>7. PICK F : F = [p \in D \X V |-> IF p[1] = n + 1 THEN <<>> ELSE IF p[1] \in B THEN FAILED ELSE Prepended(E[p[1]], p[2])]
    OBVIOUS
  <1>8. rank \in [D -> 0 .. n] /\ J \in [D -> D]
    BY <1>2, <1>4, <1>5, <1>6
  <1>9. \A i \in D : \A s \in V : F[<<i, s>>] = IF i = n + 1 THEN <<>> ELSE IF i \in B THEN FAILED ELSE Prepended(E[i], s)
    BY <1>7
  <1>10. F \in [D \X V -> V]
    <2>1. ASSUME NEW i \in D, NEW s \in V
          PROVE  F[<<i, s>>] \in V
      <3>1. CASE i = n + 1 \/ i \in B
        BY <1>a, <1>9, <3>1, Zenon
      <3>2. CASE i # n + 1 /\ i \notin B
        <4>1. E[i] \in V
          BY <1>2, <1>4, <3>2
        <4>2. E[i] \o s \in V
          BY <1>2, <4>1
        <4>3. Prepended(E[i], s) \in V
          BY <1>a, <4>2, Zenon DEF Prepended
        <4> QED
          BY <1>9, <3>2, <4>3
      <3> QED
        BY <3>1, <3>2
    <2>2. F = [p \in D \X V |-> F[p]]
      BY <1>7
    <2> QED
      BY <2>1, <2>2, OfPairs
  <1>11. Descends(D, V, rank, J, F)
    <2>1. ASSUME NEW i \in D, i # n + 1
          PROVE  rank[J[i]] < rank[i]
      BY <1>2, <1>4, <1>5, <1>6, <2>1
    <2> QED
      BY <1>9, <2>1 DEF Descends
  <1>12. PICK f : IsSolution(f, D, V, J, F)
    <2>1. V # {}
      BY <1>a
    <2> QED
      BY <1>8, <1>10, <1>11, <2>1, RecursionSolved
  <1>13. \A i \in D : f[i] = IF i = n + 1 THEN <<>> ELSE IF i \in B THEN FAILED ELSE Prepended(E[i], f[N[i]])
    <2>1. f \in [D -> V] /\ \A i \in D : f[i] = F[<<i, f[J[i]]>>]
      BY <1>12 DEF IsSolution
    <2>2. ASSUME NEW i \in D
          PROVE  f[i] = IF i = n + 1 THEN <<>> ELSE IF i \in B THEN FAILED ELSE Prepended(E[i], f[N[i]])
      <3>1. f[J[i]] \in V
        BY <1>8, <2>1
      <3>2. ~(i = n + 1 \/ i \in B) => J[i] = N[i]
        BY <1>6
      <3> QED
        BY <1>9, <2>1, <3>1, <3>2
    <2> QED
      BY <2>2
  <1>14. \A h : Body(h) = [i \in D |-> IF i = n + 1 THEN <<>> ELSE IF i \in B THEN FAILED ELSE Prepended(E[i], h[N[i]])]
    <2>1. ASSUME NEW h, NEW i \in D
          PROVE  Body(h)[i] = IF i = n + 1 THEN <<>> ELSE IF i \in B THEN FAILED ELSE Prepended(E[i], h[N[i]])
      <3>1. CASE i = n + 1
        BY <1>1, <1>2, <3>1
      <3>2. CASE i # n + 1
        <4>1. i \in 1 .. n /\ ~(i > Len(z)) /\ i \in 1 .. Len(z) + 1
          BY <1>1, <1>2, <3>2
        <4>2. PICK v \in 0 .. 255 : z[i] = v
          <5>1. i \in 1 .. Len(z)
            BY <1>1, <4>1
          <5> QED
            BY <5>1, ByteAt
        <4>3. E[i] = TextAt(z, entries, i) /\ N[i] = AfterText(z, i) /\ (i \in B <=> BrokenAt(z, entries, i))
          BY <1>3, <4>1
        <4>4. Body(h)[i] = IF z[i] < 128 THEN (IF h[i + 1] = FAILED THEN FAILED ELSE <<z[i]>> \o h[i + 1])
            ELSE IF z[i] >= 128 /\ (i = Len(z) \/ (z[i] - 128) * 256 + z[i + 1] >= Len(entries)) THEN FAILED
            ELSE (IF h[i + 2] = FAILED THEN FAILED ELSE entries[(z[i] - 128) * 256 + z[i + 1] + 1] \o h[i + 2])
          BY <4>1, Zenon
        <4> HIDE DEF Body
        <4>5. CASE z[i] < 128
          <5>1. ~(z[i] >= 128)
            BY <4>2, <4>5
          <5>2. i \notin B
            BY <4>3, <5>1 DEF BrokenAt
          <5>3. E[i] = <<z[i]>> /\ N[i] = i + 1
            BY <4>3, <4>5 DEF TextAt, AfterText
          <5> QED
            BY <3>2, <4>4, <4>5, <5>2, <5>3, Zenon DEF Prepended
        <4>6. CASE ~(z[i] < 128)
          <5>1. z[i] >= 128
            BY <4>2, <4>6
          <5>2. i \in B <=> (i = Len(z) \/ (z[i] - 128) * 256 + z[i + 1] >= Len(entries))
            BY <4>3, <5>1, Zenon DEF BrokenAt, IdOf
          <5>3. E[i] = entries[(z[i] - 128) * 256 + z[i + 1] + 1] /\ N[i] = i + 2
            BY <4>3, <4>6, Zenon DEF TextAt, AfterText, IdOf
          <5> QED
            BY <3>2, <4>4, <4>6, <5>1, <5>2, <5>3, Zenon DEF Prepended
        <4> QED
          BY <4>5, <4>6
      <3> QED
        BY <3>1, <3>2
    <2>2. ASSUME NEW h
          PROVE  Body(h) = [i \in D |-> Body(h)[i]]
      BY <1>1, <1>2
    <2> HIDE DEF Body
    <2> QED
      BY <2>1, <2>2
  <1>15. DecompressWithDictionary(z, entries) = (CHOOSE h : h = Body(h))[1]
    BY Zenon DEF DecompressWithDictionary
  <1>16. f = Body(f)
    <2>1. f = [i \in D |-> f[i]]
      BY <1>12 DEF IsSolution
    <2> HIDE DEF Body
    <2> QED
      BY <1>13, <1>14, <2>1
  <1> HIDE DEF Body
  <1>17. PICK c : c = CHOOSE h : h = Body(h)
    OBVIOUS
  <1>18. c = Body(c)
    BY <1>16, <1>17, Zenon
  <1>19. c = [i \in D |-> IF i = n + 1 THEN <<>> ELSE IF i \in B THEN FAILED ELSE Prepended(E[i], c[N[i]])]
    BY <1>14, <1>18, Zenon
  <1>20. \A i \in D : c[i] = IF i = n + 1 THEN <<>> ELSE IF i \in B THEN FAILED ELSE Prepended(E[i], c[N[i]])
    BY <1>19
  <1>21. IsDecompression(c, z, entries)
    <2>1. ASSUME NEW i \in 1 .. Len(z) + 1
          PROVE  c[i] = IF i > Len(z) THEN <<>>
                        ELSE IF BrokenAt(z, entries, i) THEN FAILED
                        ELSE Prepended(TextAt(z, entries, i), c[AfterText(z, i)])
      <3>1. i \in D /\ (i > Len(z) <=> i = n + 1)
        BY <1>1, <1>2
      <3>2. i # n + 1 => E[i] = TextAt(z, entries, i) /\ N[i] = AfterText(z, i) /\ (i \in B <=> BrokenAt(z, entries, i))
        BY <1>1, <1>3, <3>1
      <3> QED
        BY <1>20, <3>1, <3>2, Zenon
    <2> QED
      BY <2>1, Zenon DEF IsDecompression
  <1> QED
    BY <1>15, <1>17, <1>21, Zenon

LEMMA SubSeqHolds ==
    ASSUME NEW S, NEW d \in Seq(S), NEW k \in 1 .. Len(d) + 1, NEW j \in 0 .. Len(d), k <= j + 1
    PROVE  /\ SubSeq(d, k, j) \in Seq(S) /\ Len(SubSeq(d, k, j)) = j - k + 1
           /\ \A i \in 1 .. j - k + 1 : SubSeq(d, k, j)[i] = d[k + i - 1]
  <1>1. SubSeq(d, k, j) \in Seq(S)
    OBVIOUS
  <1>2. Len(SubSeq(d, k, j)) = j - k + 1
    OBVIOUS
  <1>3. \A i \in 1 .. j - k + 1 : SubSeq(d, k, j)[i] = d[k + i - 1]
    OBVIOUS
  <1> QED
    BY <1>1, <1>2, <1>3

LEMMA SubSeqSplit ==
    ASSUME NEW S, NEW d \in Seq(S), NEW k \in 1 .. Len(d), NEW j \in k + 1 .. Len(d) + 1
    PROVE  SubSeq(d, k, j - 1) \o SubSeq(d, j, Len(d)) = SubSeq(d, k, Len(d))
  <1>1. PICK n \in Nat : n = Len(d)
    OBVIOUS
  <1>a. PICK a, b, t : a = SubSeq(d, k, j - 1) /\ b = SubSeq(d, j, n) /\ t = SubSeq(d, k, n)
    OBVIOUS
  <1>b. PICK x \in Nat, y \in Nat : x = j - k /\ y = n + 1 - j
    <2>1. j - k \in Nat /\ n + 1 - j \in Nat
      BY <1>1
    <2> QED
      BY <2>1
  <1>2. a \in Seq(S) /\ Len(a) = x /\ \A i \in 1 .. x : a[i] = d[k + i - 1]
    <2>1. k \in 1 .. Len(d) + 1 /\ j - 1 \in 0 .. Len(d) /\ k <= (j - 1) + 1 /\ (j - 1) - k + 1 = x
      BY <1>b
    <2> QED
      BY <1>a, <2>1, SubSeqHolds
  <1>3. b \in Seq(S) /\ Len(b) = y /\ \A i \in 1 .. y : b[i] = d[j + i - 1]
    <2>1. j \in 1 .. Len(d) + 1 /\ n \in 0 .. Len(d) /\ j <= n + 1 /\ n - j + 1 = y
      BY <1>1, <1>b
    <2> QED
      BY <1>a, <2>1, SubSeqHolds
  <1>4. t \in Seq(S) /\ Len(t) = x + y /\ \A i \in 1 .. x + y : t[i] = d[k + i - 1]
    <2>1. k \in 1 .. Len(d) + 1 /\ n \in 0 .. Len(d) /\ k <= n + 1 /\ n - k + 1 = x + y
      BY <1>1, <1>b
    <2> QED
      BY <1>a, <2>1, SubSeqHolds
  <1>5. PICK u : u = a \o b
    OBVIOUS
  <1>6. /\ u \in Seq(S) /\ Len(u) = x + y
        /\ \A i \in 1 .. x : u[i] = a[i]
        /\ \A i \in 1 .. y : u[x + i] = b[i]
    <2>1. a \in Seq(S) /\ b \in Seq(S) /\ Len(a) = x /\ Len(b) = y
      BY <1>2, <1>3
    <2>2. /\ a \o b \in Seq(S) /\ Len(a \o b) = Len(a) + Len(b)
          /\ \A i \in 1 .. Len(a) : (a \o b)[i] = a[i]
          /\ \A i \in 1 .. Len(b) : (a \o b)[Len(a) + i] = b[i]
      <3>1. a \o b \in Seq(S) /\ Len(a \o b) = Len(a) + Len(b)
        BY <2>1
      <3>2. \A i \in 1 .. Len(a) : (a \o b)[i] = a[i]
        BY <2>1
      <3>3. \A i \in 1 .. Len(b) : (a \o b)[Len(a) + i] = b[i]
        BY <2>1
      <3> QED
        BY <3>1, <3>2, <3>3
    <2> QED
      BY <1>5, <2>1, <2>2, Zenon
  <1>7. ASSUME NEW i \in 1 .. x + y
        PROVE  u[i] = t[i]
    <2>1. CASE i <= x
      <3>1. i \in 1 .. x /\ u[i] = a[i]
        BY <1>6, <2>1
      <3> QED
        BY <1>2, <1>4, <3>1
    <2>2. CASE ~(i <= x)
      <3>1. PICK l \in 1 .. y : i = x + l
        <4>1. i - x \in 1 .. y /\ i = x + (i - x)
          BY <2>2
        <4> QED
          BY <4>1
      <3>2. j + l - 1 = k + i - 1
        BY <1>b, <3>1
      <3>3. u[i] = b[l]
        BY <1>6, <3>1
      <3>4. b[l] = d[j + l - 1]
        BY <1>3
      <3> QED
        BY <1>4, <3>2, <3>3, <3>4, Zenon
    <2> QED
      BY <2>1, <2>2
  <1>8. u = t
    BY <1>4, <1>6, <1>7
  <1> QED
    BY <1>1, <1>a, <1>5, <1>8, Zenon

LEMMA EntryId ==
    ASSUME NEW l \in Nat, l <= 32768, NEW e \in 1 .. l
    PROVE  IsId(e - 1) /\ e - 1 < l /\ (e - 1) + 1 = e /\ ~(e - 1 >= l)
  <1>1. e - 1 \in Nat /\ e - 1 < 32768
    OBVIOUS
  <1>2. e - 1 < l /\ (e - 1) + 1 = e /\ ~(e - 1 >= l)
    OBVIOUS
  <1> QED
    BY <1>1, <1>2 DEF IsId

LEMMA OneTextBack ==
    ASSUME NEW d \in Seq(0 .. 127), NEW entries, AreTexts(entries), NEW k \in 1 .. Len(d),
           NEW z \in Seq(Bytes), NEW p \in 1 .. Len(z) + 1, Holds(z, p, Emitted(entries, d, k))
    PROVE  /\ p \in 1 .. Len(z) /\ ~BrokenAt(z, entries, p)
           /\ AfterText(z, p) = p + Len(Emitted(entries, d, k))
           /\ TextAt(z, entries, p) = SubSeq(d, k, NextPlace(entries, d, k) - 1)
  <1>1. PICK e : e = BestMatch(entries, d, k)
    OBVIOUS
  <1>2. PICK w \in Seq(Bytes) : w = Emitted(entries, d, k) /\ Len(w) \in 1 .. 2
    BY EmittedTyped
  <1>3. Holds(z, p, w)
    BY <1>2
  <1>4. p + Len(w) - 1 <= Len(z) /\ \A j \in 1 .. Len(w) : z[p + j - 1] = w[j]
    BY <1>3 DEF Holds
  <1>5. p \in 1 .. Len(z) /\ z[p] = w[1]
    BY <1>2, <1>4
  <1>6. CASE e = 0
    <2>1. PICK v \in 0 .. 127 : v = d[k]
      <3>1. d[k] \in 0 .. 127
        BY ItemOf
      <3> QED
        BY <3>1
    <2>2. w = <<v>> /\ NextPlace(entries, d, k) = k + 1
      BY <1>1, <1>2, <1>6, <2>1, Zenon DEF Emitted, NextPlace
    <2>3. z[p] = v /\ Len(w) = 1
      BY <1>5, <2>2
    <2>4. v < 128 /\ ~(v >= 128)
      <3>1. \A x \in 0 .. 127 : x < 128 /\ ~(x >= 128)
        OBVIOUS
      <3> QED
        BY <2>1, <3>1, Zenon
    <2>5. ~BrokenAt(z, entries, p) /\ AfterText(z, p) = p + 1 /\ TextAt(z, entries, p) = <<v>>
      BY <2>3, <2>4, Zenon DEF BrokenAt, AfterText, TextAt
    <2>6. SubSeq(d, k, NextPlace(entries, d, k) - 1) = <<v>>
      <3>1. PICK s : s = SubSeq(d, k, k)
        OBVIOUS
      <3>2. s \in Seq(0 .. 127) /\ Len(s) = 1 /\ s[1] = d[k]
        <4>1. k \in 1 .. Len(d) + 1 /\ k \in 0 .. Len(d) /\ k <= k + 1 /\ k - k + 1 = 1
          OBVIOUS
        <4>2. s \in Seq(0 .. 127) /\ Len(s) = 1 /\ \A i \in 1 .. 1 : s[i] = d[k + i - 1]
          BY <3>1, <4>1, SubSeqHolds, ZenonT(60)
        <4>3. s[1] = d[k + 1 - 1] /\ k + 1 - 1 = k
          BY <4>2
        <4> QED
          BY <4>2, <4>3
      <3>3. s = <<d[k]>>
        BY <3>2
      <3>4. NextPlace(entries, d, k) - 1 = k
        BY <2>2
      <3> QED
        BY <2>1, <3>1, <3>3, <3>4, Zenon
    <2>7. AfterText(z, p) = p + Len(Emitted(entries, d, k))
      BY <1>2, <2>3, <2>5
    <2> QED
      BY <1>5, <2>5, <2>6, <2>7, Zenon
  <1>7. CASE e # 0
    <2>1. IsMatch(e, entries, d, k)
      BY <1>1, <1>7, LongestMatch
    <2>2. PICK id : id = e - 1
      OBVIOUS
    <2>3. IsId(id) /\ id < Len(entries) /\ id + 1 = e /\ ~(id >= Len(entries))
      <3>1. PICK l : l = Len(entries)
        OBVIOUS
      <3>2. l \in Nat /\ l <= 32768
        BY <3>1 DEF AreTexts
      <3>3. e \in 1 .. l
        <4>1. e \in 1 .. Len(entries)
          BY <2>1, Zenon DEF IsMatch
        <4> QED
          BY <3>1, <4>1
      <3>4. IsId(e - 1) /\ e - 1 < l /\ (e - 1) + 1 = e /\ ~(e - 1 >= l)
        BY <3>2, <3>3, EntryId, SMTT(30)
      <3> QED
        BY <2>2, <3>1, <3>4, Zenon
    <2>4. w = Reference(id) /\ NextPlace(entries, d, k) = k + Len(entries[e])
      BY <1>1, <1>2, <1>7, <2>2, Zenon DEF Emitted, NextPlace
    <2>5. IsReference(w, id)
      <3>1. IsId(id)
        BY <2>3
      <3>2. IsReference(Reference(id), id)
        BY <3>1, ReferenceRead
      <3> QED
        BY <2>4, <3>2, Zenon
    <2>6. Len(w) = 2 /\ w[1] >= 128 /\ (w[1] - 128) * 256 + w[2] = id
      BY <2>5 DEF IsReference
    <2>7. z[p + 1] = w[2] /\ p # Len(z)
      BY <1>4, <1>5, <2>6
    <2>8. IdOf(z, p) = id
      BY <1>5, <2>6, <2>7, Zenon DEF IdOf
    <2>9. ~(z[p] < 128)
      <3>1. PICK v \in 0 .. 255 : z[p] = v
        BY <1>5, ByteAt, ZenonT(60)
      <3>2. v >= 128
        BY <1>5, <2>6, <3>1
      <3> QED
        BY <3>1, <3>2
    <2>10. ~BrokenAt(z, entries, p)
      BY <2>3, <2>7, <2>8 DEF BrokenAt
    <2>11. AfterText(z, p) = p + 2 /\ TextAt(z, entries, p) = entries[e]
      BY <2>3, <2>8, <2>9 DEF AfterText, TextAt
    <2>12. SubSeq(d, k, k + Len(entries[e]) - 1) = entries[e]
      BY <2>1, Zenon DEF IsMatch
    <2>13. AfterText(z, p) = p + Len(Emitted(entries, d, k))
      BY <1>2, <2>6, <2>11, Zenon
    <2>14. TextAt(z, entries, p) = SubSeq(d, k, NextPlace(entries, d, k) - 1)
      <3>1. TextAt(z, entries, p) = SubSeq(d, k, k + Len(entries[e]) - 1)
        BY <2>11, <2>12, Zenon
      <3>2. NextPlace(entries, d, k) = k + Len(entries[e])
        BY <2>4
      <3>3. NextPlace(entries, d, k) - 1 = k + Len(entries[e]) - 1
        BY <3>2
      <3> QED
        BY <3>1, <3>3, Zenon
    <2> QED
      BY <1>5, <2>10, <2>13, <2>14, Zenon
  <1> QED
    BY <1>6, <1>7

(* Where s ends z.                                                          *)
Ends(z, p, s) == p \in 1 .. Len(z) + 1 /\ Holds(z, p, s) /\ p + Len(s) = Len(z) + 1

LEMMA DataNotFailed ==
    ASSUME NEW s \in Seq(0 .. 127)
    PROVE  s # FAILED
  <1>1. FAILED[1] = -1 /\ Len(FAILED) = 1
    BY DEF FAILED
  <1>2. ASSUME s = FAILED PROVE FALSE
    <2>1. Len(s) = 1 /\ s[1] = -1
      BY <1>1, <1>2
    <2>2. s[1] \in 0 .. 127
      <3>1. \A i \in 1 .. Len(s) : s[i] \in 0 .. 127
        BY ItemOf
      <3>2. 1 \in 1 .. Len(s)
        BY <2>1
      <3> QED
        BY <3>1, <3>2, Zenon
    <2>3. -1 \notin 0 .. 127
      OBVIOUS
    <2> QED
      BY <2>1, <2>2, <2>3, Zenon
  <1> QED
    BY <1>2

LEMMA DictionaryRoundTrip ==
    ASSUME NEW d \in Seq(0 .. 127), NEW entries, AreTexts(entries)
    PROVE  /\ CompressWithDictionary(d, entries) \in Seq(Bytes)
           /\ Len(d) > 0 => Len(CompressWithDictionary(d, entries)) > 0
           /\ DecompressWithDictionary(CompressWithDictionary(d, entries), entries) = d
  <1>1. PICK c : IsCompression(c, entries, d) /\ CompressWithDictionary(d, entries) = c[1]
    BY Compressed
  <1>2. PICK n \in Nat : n = Len(d)
    OBVIOUS
  <1>3. \A i \in 1 .. n + 1 : c[i] \in Seq(Bytes)
    BY <1>1, <1>2 DEF IsCompression
  <1>4. ASSUME NEW i \in 1 .. n
        PROVE  c[i] = Emitted(entries, d, i) \o c[NextPlace(entries, d, i)]
    <2>1. i \in 1 .. Len(d) + 1 /\ ~(i > Len(d))
      BY <1>2
    <2> QED
      BY <1>1, <2>1, Zenon DEF IsCompression
  <1>5. c[n + 1] = <<>>
    <2>1. n + 1 \in 1 .. Len(d) + 1 /\ n + 1 > Len(d)
      BY <1>2
    <2> QED
      BY <1>1, <2>1, Zenon DEF IsCompression
  <1>6. PICK z \in Seq(Bytes) : z = c[1]
    <2>1. c[1] \in Seq(Bytes)
      BY <1>3
    <2> QED
      BY <2>1
  <1>7. PICK h : IsDecompression(h, z, entries) /\ DecompressWithDictionary(z, entries) = h[1]
    BY Decompressing
  <1>8. PICK m \in Nat : m = Len(z)
    OBVIOUS
  <1>9. ASSUME NEW p \in 1 .. m, ~BrokenAt(z, entries, p)
        PROVE  h[p] = Prepended(TextAt(z, entries, p), h[AfterText(z, p)])
    <2>1. p \in 1 .. Len(z) + 1 /\ ~(p > Len(z))
      BY <1>8
    <2> QED
      BY <1>7, <1>9, <2>1, Zenon DEF IsDecompression
  <1>10. h[m + 1] = <<>>
    <2>1. m + 1 \in 1 .. Len(z) + 1 /\ m + 1 > Len(z)
      BY <1>8
    <2> QED
      BY <1>7, <2>1, Zenon DEF IsDecompression
  <1> DEFINE Right(k) == \A p : Ends(z, p, c[k]) => h[p] = SubSeq(d, k, n)
             Bad == {k \in 1 .. n + 1 : ~Right(k)}
  <1>11. Bad = {}
    <2> SUFFICES ASSUME Bad # {}
                 PROVE  FALSE
      OBVIOUS
    <2>1. PICK k : k \in Bad /\ \A i \in Bad : i <= k
      <3>1. Bad \in SUBSET (1 .. n + 1) /\ n + 1 \in Nat
        OBVIOUS
      <3> HIDE DEF Bad
      <3> QED
        BY <3>1, LastPlace
    <2>2. k \in 1 .. n + 1 /\ ~Right(k)
      BY <2>1
    <2>3. PICK p : Ends(z, p, c[k]) /\ h[p] # SubSeq(d, k, n)
      BY <2>2
    <2>4. CASE k = n + 1
      <3>1. p = m + 1
        <4>1. Len(c[k]) = 0
          BY <1>5, <2>4
        <4> QED
          BY <1>8, <2>3, <4>1 DEF Ends
      <3>2. SubSeq(d, k, n) = <<>>
        BY <1>2, <2>4
      <3> QED
        BY <1>10, <2>3, <3>1, <3>2
    <2>5. CASE k # n + 1
      <3>1. k \in 1 .. n /\ k \in 1 .. Len(d)
        BY <1>2, <2>2, <2>5
      <3>2. PICK next : next = NextPlace(entries, d, k)
        OBVIOUS
      <3>3. next \in k + 1 .. n + 1 /\ next \in 1 .. n + 1
        <4>1. NextPlace(entries, d, k) \in k + 1 .. Len(d) + 1
          BY <3>1, EmittedTyped
        <4> QED
          BY <1>2, <3>1, <3>2, <4>1
      <3>4. PICK w \in Seq(Bytes) : w = Emitted(entries, d, k) /\ Len(w) \in 1 .. 2
        BY <3>1, EmittedTyped
      <3>5. PICK t \in Seq(Bytes) : t = c[next]
        <4>1. c[next] \in Seq(Bytes)
          BY <1>3, <3>3
        <4> QED
          BY <4>1
      <3>6. c[k] = w \o t
        BY <1>4, <3>1, <3>2, <3>4, <3>5, Zenon
      <3>7. p \in 1 .. m + 1 /\ Holds(z, p, w \o t) /\ p + Len(w \o t) = m + 1
        BY <1>8, <2>3, <3>6 DEF Ends
      <3>8. Len(w \o t) = Len(w) + Len(t)
        OBVIOUS
      <3>9. Holds(z, p, w) /\ Holds(z, p + Len(w), t)
        <4>1. p \in Nat \ {0}
          BY <3>7
        <4> QED
          BY <3>7, <4>1, HoldsParts
      <3>10. Ends(z, p + Len(w), t)
        <4>1. p + Len(w) \in 1 .. Len(z) + 1 /\ p + Len(w) + Len(t) = Len(z) + 1
          BY <1>8, <3>4, <3>7, <3>8
        <4> QED
          BY <3>9, <4>1 DEF Ends
      <3>11. PICK q : q = p + Len(w)
        OBVIOUS
      <3>12. h[q] = SubSeq(d, next, n)
        <4>1. next \notin Bad
          <5>1. ~(next <= k)
            BY <2>2, <3>3
          <5> HIDE DEF Bad
          <5> QED
            BY <2>1, <5>1
        <4>2. Right(next)
          BY <3>3, <4>1
        <4> QED
          BY <3>5, <3>10, <3>11, <4>2
      <3>13. /\ p \in 1 .. m /\ ~BrokenAt(z, entries, p)
             /\ AfterText(z, p) = q
             /\ TextAt(z, entries, p) = SubSeq(d, k, next - 1)
        <4>1. p \in 1 .. Len(z) + 1 /\ Holds(z, p, Emitted(entries, d, k))
          BY <1>8, <3>4, <3>7, <3>9
        <4>2. /\ p \in 1 .. Len(z) /\ ~BrokenAt(z, entries, p)
              /\ AfterText(z, p) = p + Len(Emitted(entries, d, k))
              /\ TextAt(z, entries, p) = SubSeq(d, k, NextPlace(entries, d, k) - 1)
          BY <3>1, <4>1, OneTextBack
        <4> QED
          BY <1>8, <3>2, <3>4, <3>11, <4>2, Zenon
      <3>14. h[p] = Prepended(SubSeq(d, k, next - 1), SubSeq(d, next, n))
        BY <1>9, <3>12, <3>13, Zenon
      <3>15. SubSeq(d, next, n) # FAILED
        <4>1. PICK s \in Seq(0 .. 127) : s = SubSeq(d, next, n)
          <5>1. SubSeq(d, next, n) \in Seq(0 .. 127)
            BY <1>2, <3>3
          <5> QED
            BY <5>1
        <4> QED
          BY <4>1, DataNotFailed
      <3>16. SubSeq(d, k, next - 1) \o SubSeq(d, next, n) = SubSeq(d, k, n)
        <4>1. next \in k + 1 .. Len(d) + 1
          BY <1>2, <3>3
        <4>2. SubSeq(d, k, next - 1) \o SubSeq(d, next, Len(d)) = SubSeq(d, k, Len(d))
          BY <3>1, <4>1, SubSeqSplit
        <4> QED
          BY <1>2, <4>2, Zenon
      <3> QED
        BY <2>3, <3>14, <3>15, <3>16, Zenon DEF Prepended
    <2> QED
      BY <2>4, <2>5
  <1>12. h[1] = d
    <2>1. Right(1)
      <3>1. 1 \in 1 .. n + 1
        OBVIOUS
      <3> QED
        BY <1>11, <3>1
    <2>2. Ends(z, 1, c[1])
      <3>1. Holds(z, 1, z)
        BY HoldsSelf
      <3>2. 1 \in 1 .. Len(z) + 1 /\ 1 + Len(z) = Len(z) + 1
        OBVIOUS
      <3> QED
        BY <1>6, <3>1, <3>2, Zenon DEF Ends
    <2>3. SubSeq(d, 1, n) = d
      BY <1>2
    <2> QED
      BY <2>1, <2>2, <2>3
  <1>13. Len(d) > 0 => Len(z) > 0
    <2>1. ASSUME Len(d) > 0
          PROVE  Len(z) > 0
      <3>1. 1 \in 1 .. n /\ 1 \in 1 .. Len(d)
        BY <1>2, <2>1
      <3>2. PICK w \in Seq(Bytes) : w = Emitted(entries, d, 1) /\ Len(w) \in 1 .. 2
        BY <3>1, EmittedTyped
      <3>3. PICK t \in Seq(Bytes) : t = c[NextPlace(entries, d, 1)]
        <4>1. NextPlace(entries, d, 1) \in 1 + 1 .. Len(d) + 1
          BY <3>1, EmittedTyped
        <4>2. NextPlace(entries, d, 1) \in 1 .. n + 1
          BY <1>2, <4>1
        <4>3. c[NextPlace(entries, d, 1)] \in Seq(Bytes)
          BY <1>3, <4>2
        <4> QED
          BY <4>3
      <3>4. z = w \o t
        BY <1>4, <1>6, <3>1, <3>2, <3>3, Zenon
      <3>5. Len(w \o t) = Len(w) + Len(t)
        OBVIOUS
      <3>6. Len(w) \in Nat /\ Len(t) \in Nat /\ Len(w) >= 1
        <4>1. Len(w) \in Nat /\ Len(t) \in Nat
          OBVIOUS
        <4>2. Len(w) \in 1 .. 2
          BY <3>2
        <4>3. \A x \in 1 .. 2 : x >= 1
          OBVIOUS
        <4> QED
          BY <4>1, <4>2, <4>3, Zenon
      <3>7. Len(w) + Len(t) > 0
        BY <3>6
      <3> QED
        BY <3>4, <3>5, <3>7, Zenon
    <2> QED
      BY <2>1
  <1> QED
    BY <1>1, <1>6, <1>7, <1>12, <1>13, Zenon

(***************************************************************************)
(* Texts, dictionaries, transactions and blocks of the run                 *)
(***************************************************************************)

LEMMA EntriesAreTexts ==
    ASSUME NEW C, C \subseteq Int, NEW dictionary, IsDictionary(dictionary, Seq(C))
    PROVE  AreTexts(dictionary.entries)
  <1>1. PICK entries : entries = dictionary.entries
    OBVIOUS
  <1>2. entries \in Seq(Seq(C)) /\ Len(entries) <= MaxDictionarySize
    BY <1>1, Zenon DEF IsDictionary
  <1>3. \A s \in Seq(C) : s \in Seq(Int)
    BY WiderSequence
  <1>4. entries \in Seq(Seq(Int))
    <2>1. Seq(C) \subseteq Seq(Int)
      BY <1>3
    <2> QED
      BY <1>2, <2>1, WiderSequence
  <1>5. Len(entries) <= 32768
    <2>1. MaxDictionarySize \in Int /\ MaxDictionarySize <= 32768
      BY EnginesAssumption
    <2>2. Len(entries) \in Nat
      BY <1>4
    <2> QED
      BY <1>2, <2>1, <2>2
  <1> QED
    BY <1>1, <1>4, <1>5 DEF AreTexts

LEMMA EveryDictionaryReads ==
    ASSUME text \in Seq(Characters)
    PROVE  DictionaryRoundTrips
  <1>1. text \in Seq(0 .. 127)
    <2>1. Characters \subseteq 0 .. 127
      BY DEF Characters
    <2> QED
      BY <2>1, WiderSequence
  <1>2. ASSUME NEW dictionary \in Dictionaries
        PROVE  IsDictionary(dictionary, Seq(Int))
    <2>1. PICK a, b, c, d \in Seq(Seq(Int)) :
              /\ a = <<>> /\ b = <<<<97, 98, 97, 98>>>> /\ c = <<<<97, 98, 125>>>> /\ d = <<<<98, 98, 125>>, <<98, 125>>>>
      <3>1. <<>> \in Seq(Seq(Int)) /\ <<<<97, 98, 97, 98>>>> \in Seq(Seq(Int)) /\ <<<<97, 98, 125>>>> \in Seq(Seq(Int))
            /\ <<<<98, 98, 125>>, <<98, 125>>>> \in Seq(Seq(Int))
        OBVIOUS
      <3> QED
        BY <3>1, Zenon
    <2>2. dictionary \in {NewDictionary(a), NewDictionary(b), UpdatedDictionary(NewDictionary(c), d)}
      BY <2>1, Zenon DEF Dictionaries
    <2>3. /\ IsDictionary(NewDictionary(a), Seq(Int))
          /\ IsDictionary(NewDictionary(b), Seq(Int))
          /\ IsDictionary(NewDictionary(c), Seq(Int))
      BY <2>1, NewDictionaryTyped
    <2>4. IsDictionary(UpdatedDictionary(NewDictionary(c), d), Seq(Int))
      BY <2>1, <2>3, UpdatedDictionaryTyped
    <2> QED
      BY <2>2, <2>3, <2>4, Zenon
  <1>3. ASSUME NEW dictionary \in Dictionaries
        PROVE  DecompressWithDictionary(CompressWithDictionary(text, dictionary.entries), dictionary.entries) = text
    <2>1. AreTexts(dictionary.entries)
      BY <1>2, EntriesAreTexts
    <2> QED
      BY <1>1, <2>1, DictionaryRoundTrip
  <1> QED
    BY <1>3, Zenon DEF DictionaryRoundTrips

Payments == [value : Nat, address : {"a", "b"}]

OutputsInv == outputs \in Seq(Payments) /\ Len(outputs) <= 3

(* The input of the transaction at place i.                                 *)
SpentAt(i) == [previousTxId |-> Hash(i), outputIndex |-> i - 1, script |-> [k \in 1 .. i |-> 48 + k]]

TransactionWith(n) ==
    [id |-> "tx", inputs |-> [i \in 1 .. n |-> SpentAt(i)], outputs |-> outputs, fee |-> 100 * n + 1,
     timestamp |-> 12345, lockTime |-> n]

LEMMA TransactionIs ==
    ASSUME OutputsInv, NEW n, n = Len(outputs)
    PROVE  Transaction = TransactionWith(n)
  <1>1. DOMAIN outputs = 1 .. n
    BY DEF OutputsInv
  <1>2. PICK spent : spent = [i \in 1 .. n |-> SpentAt(i)]
    OBVIOUS
  <1>3. spent = [i \in DOMAIN outputs |-> [previousTxId |-> Hash(i), outputIndex |-> i - 1, script |-> [k \in 1 .. i |-> 48 + k]]]
    BY <1>1, <1>2, Zenon DEF SpentAt
  <1>4. Transaction = [id |-> "tx", inputs |-> spent, outputs |-> outputs, fee |-> 100 * Len(outputs) + 1,
                       timestamp |-> 12345, lockTime |-> Len(outputs)]
    <2>1. Transaction = [id |-> "tx",
                         inputs |-> [i \in DOMAIN outputs |-> [previousTxId |-> Hash(i), outputIndex |-> i - 1, script |-> [k \in 1 .. i |-> 48 + k]]],
                         outputs |-> outputs, fee |-> 100 * Len(outputs) + 1,
                         timestamp |-> 12345, lockTime |-> Len(outputs)]
      BY SMTT(30) DEF Transaction
    <2> QED
      BY <1>3, <2>1
  <1> QED
    BY <1>2, <1>4 DEF TransactionWith

LEMMA SpentFits ==
    ASSUME NEW U, Nat \subseteq U, NEW i \in 1 .. 3, ShortHash(Hash(i)) \in U
    PROVE  Fits(SpentAt(i), U)
  <1>1. PICK script : script = [k \in 1 .. i |-> 48 + k]
    OBVIOUS
  <1>2. script \in Seq(U) /\ Len(script) = i
    <2>1. \A k \in 1 .. i : 48 + k \in U
      <3>1. ASSUME NEW k \in 1 .. i
            PROVE  48 + k \in U
        <4>1. 48 + k \in Nat
          OBVIOUS
        <4> QED
          BY <4>1
      <3> QED
        BY <3>1
    <2>2. script \in [1 .. i -> U]
      BY <1>1, <2>1
    <2>3. i \in Nat
      OBVIOUS
    <2>4. script \in Seq(U)
      BY <2>2, <2>3, TabulatedSequence
    <2> QED
      BY <1>1, <2>3, <2>4
  <1>3. i < ScriptModulus
    BY EnginesAssumption, ScriptsAssumption
  <1>4. i - 1 \in U
    <2>1. i - 1 \in Nat
      OBVIOUS
    <2> QED
      BY <2>1
  <1>5. /\ SpentAt(i).previousTxId = Hash(i) /\ SpentAt(i).outputIndex = i - 1
        /\ SpentAt(i).script = script
    BY <1>1 DEF SpentAt
  <1> QED
    BY <1>2, <1>3, <1>4, <1>5, Zenon DEF Fits

LEMMA TransactionFits ==
    ASSUME OutputsInv, NEW n, n = Len(outputs)
    PROVE  \E U : Compactable(TransactionWith(n), Addresses, RecentAmounts, U, {"a", "b"})
  <1>1. n \in Nat /\ n <= 3
    BY DEF OutputsInv
  <1>2. PICK U : U = Nat \cup {"tx"} \cup {ShortHash(Hash(i)) : i \in 1 .. 3}
    OBVIOUS
  <1>3. Nat \subseteq U /\ "tx" \in U /\ \A i \in 1 .. 3 : ShortHash(Hash(i)) \in U
    BY <1>2
  <1>4. PICK tx, A : tx = TransactionWith(n) /\ A = {"a", "b"}
    OBVIOUS
  <1>5. /\ tx.id = "tx" /\ tx.outputs = outputs /\ tx.fee = 100 * n + 1 /\ tx.timestamp = 12345 /\ tx.lockTime = n
        /\ tx.inputs = [i \in 1 .. n |-> SpentAt(i)]
    BY <1>4 DEF TransactionWith
  <1>6. tx.fee \in Nat /\ tx.timestamp \in Nat /\ tx.lockTime \in Nat
    BY <1>1, <1>5
  <1>7. Len(tx.inputs) = n /\ \E I : tx.inputs \in Seq(I)
    <2>1. PICK I : I = {SpentAt(i) : i \in 1 .. n}
      OBVIOUS
    <2>2. tx.inputs \in [1 .. n -> I]
      BY <1>5, <2>1
    <2>3. tx.inputs \in Seq(I)
      BY <1>1, <2>2, TabulatedSequence
    <2>4. Len(tx.inputs) = n
      BY <1>1, <1>5
    <2> QED
      BY <2>3, <2>4
  <1>8. \A i \in 1 .. n : Fits(tx.inputs[i], U)
    <2>1. ASSUME NEW i \in 1 .. n
          PROVE  Fits(tx.inputs[i], U)
      <3>1. i \in 1 .. 3
        BY <1>1
      <3>2. Fits(SpentAt(i), U)
        BY <1>3, <3>1, SpentFits
      <3> QED
        BY <1>5, <3>2
    <2> QED
      BY <2>1
  <1>9. /\ tx.outputs \in Seq(Payments) /\ Len(tx.outputs) = n
        /\ \A i \in 1 .. n : tx.outputs[i].value \in Nat /\ tx.outputs[i].address \in A
    <2>1. \A i \in 1 .. n : outputs[i] \in Payments
      BY DEF OutputsInv
    <2>2. \A i \in 1 .. n : outputs[i].value \in Nat /\ outputs[i].address \in A
      BY <1>4, <2>1 DEF Payments
    <2> QED
      BY <1>5, <2>2 DEF OutputsInv
  <1>10. Addresses \in Seq(A)
    BY <1>4 DEF Addresses
  <1>11. AreAmounts(RecentAmounts)
    <2>1. PICK amounts \in Seq(Nat) : amounts = <<127, 500, 500>>
      <3>1. <<127, 500, 500>> \in Seq(Nat)
        OBVIOUS
      <3> QED
        BY <3>1
    <2>2. CommonAmounts(amounts) \in Seq(Nat)
      BY CommonAmountsTyped
    <2> QED
      BY <2>1, <2>2, Zenon DEF RecentAmounts, AreAmounts
  <1>12. Compactable(tx, Addresses, RecentAmounts, U, A)
    <2>1. tx.id \in U
      BY <1>3, <1>5
    <2> QED
      BY <1>3, <1>6, <1>7, <1>8, <1>9, <1>10, <1>11, <2>1, Zenon DEF Compactable
  <1> QED
    BY <1>4, <1>12, Zenon

LEMMA TransactionKept ==
    ASSUME OutputsInv
    PROVE  CompactTransactionKept
  <1>1. PICK n \in 0 .. 3 : n = Len(outputs) /\ DOMAIN outputs = 1 .. n
    <2>1. Len(outputs) \in Nat /\ Len(outputs) <= 3 /\ DOMAIN outputs = 1 .. Len(outputs)
      BY DEF OutputsInv
    <2>2. Len(outputs) \in 0 .. 3
      BY <2>1
    <2> QED
      BY <2>1, <2>2, Zenon
  <1>2. PICK tx : tx = TransactionWith(n)
    OBVIOUS
  <1>3. Transaction = tx
    BY <1>1, <1>2, TransactionIs
  <1>4. /\ tx.outputs = outputs /\ tx.fee = 100 * n + 1 /\ tx.timestamp = 12345 /\ tx.lockTime = n
        /\ tx.inputs = [i \in 1 .. n |-> SpentAt(i)] /\ DOMAIN tx.inputs = 1 .. n /\ Len(tx.inputs) = n
    BY <1>2 DEF TransactionWith
  <1>5. PICK tables : tables = AddressTables(Addresses, outputs)
    OBVIOUS
  <1>6. PICK A : A = {"a", "b"}
    OBVIOUS
  <1>7. PICK U : Compactable(tx, Addresses, RecentAmounts, U, A)
    BY <1>1, <1>2, <1>6, TransactionFits
  <1>8. PICK out : out = DecompressUTXOTransaction(CompressUTXOTransaction(tx, Addresses, RecentAmounts), RecentAmounts)
    OBVIOUS
  <1>9. out = KeptOf(tx, tables)
    BY <1>4, <1>5, <1>7, <1>8, TransactionComesBack
  <1>10. /\ out.inputs = ShortInputs(tx.inputs, n)
         /\ out.outputs = NumberedOutputs(outputs, tables, n)
         /\ out.fee = DecompressFee(CompressFee(tx.fee))
         /\ out.timestamp = (tx.timestamp \div 1000) * 1000
         /\ out.lockTime = tx.lockTime
    BY <1>1, <1>4, <1>9 DEF KeptOf
  <1>11. tables \in [1 .. n + 1 -> Seq(A)] /\ AddressesKept(outputs, tables)
    <2>1. IsPayment(Addresses, outputs, A)
      BY <1>4, <1>7 DEF Compactable, IsPayment
    <2> QED
      BY <1>1, <1>5, <2>1, TablesKeepAddresses
  <1>12. PICK addresses : addresses = Last(AddressTables(Addresses, outputs))
    OBVIOUS
  <1>13. addresses = tables[n + 1]
    <2>1. Len(tables) = n + 1
      BY <1>11
    <2> QED
      BY <1>5, <1>12, <2>1, Zenon DEF Last
  <1>14. [i \in DOMAIN out.outputs |-> [value |-> out.outputs[i].value, address |-> addresses[out.outputs[i].address + 1]]]
             = outputs
    <2>1. DOMAIN out.outputs = 1 .. n
      BY <1>10 DEF NumberedOutputs
    <2>2. ASSUME NEW i \in 1 .. n
          PROVE  [value |-> out.outputs[i].value, address |-> addresses[out.outputs[i].address + 1]] = outputs[i]
      <3>1. out.outputs[i] = [value |-> outputs[i].value, address |-> AddressId(tables[i], outputs[i].address)]
        BY <1>10 DEF NumberedOutputs, NumberedOutput
      <3>2. addresses[AddressId(tables[i], outputs[i].address) + 1] = outputs[i].address
        BY <1>1, <1>11, <1>13 DEF AddressesKept
      <3>3. out.outputs[i].value = outputs[i].value /\ addresses[out.outputs[i].address + 1] = outputs[i].address
        BY <3>1, <3>2
      <3>4. outputs[i] \in Payments
        BY <1>1 DEF OutputsInv
      <3>5. outputs[i] = [value |-> outputs[i].value, address |-> outputs[i].address]
        BY <3>4 DEF Payments
      <3> QED
        BY <3>3, <3>5, Zenon
    <2>3. outputs = [i \in 1 .. n |-> outputs[i]]
      BY <1>1 DEF OutputsInv
    <2> QED
      BY <2>1, <2>2, <2>3, Zenon
  <1>15. out.inputs = [i \in DOMAIN tx.inputs |-> [tx.inputs[i] EXCEPT !.previousTxId = ShortHash(@)]]
    <2>1. ASSUME NEW i \in 1 .. n
          PROVE  ShortInput(tx.inputs[i]) = [tx.inputs[i] EXCEPT !.previousTxId = ShortHash(@)]
      <3>1. PICK script : tx.inputs[i] = [previousTxId |-> Hash(i), outputIndex |-> i - 1, script |-> script]
        <4>1. tx.inputs[i] = SpentAt(i)
          BY <1>4
        <4> QED
          BY <4>1, Zenon DEF SpentAt
      <3>2. ShortInput(tx.inputs[i]) = [previousTxId |-> ShortHash(Hash(i)), outputIndex |-> i - 1, script |-> script]
        BY <3>1 DEF ShortInput
      <3> QED
        BY <3>1, <3>2
    <2> QED
      BY <1>4, <1>10, <2>1 DEF ShortInputs
  <1>16. out.fee >= tx.fee
    <2>1. tx.fee \in Nat /\ tx.fee <= 10000
      BY <1>4
    <2> QED
      BY <1>10, <2>1, FeeTier
  <1>17. tx.timestamp - out.timestamp \in 0 .. 999
    <2>1. 12345 \div 1000 = 12
      OBVIOUS
    <2>2. tx.timestamp - out.timestamp = 345
      BY <1>4, <1>10, <2>1
    <2> QED
      BY <2>2
  <1> DEFINE Kept(t, o, known) ==
        /\ [i \in DOMAIN o.outputs |-> [value |-> o.outputs[i].value, address |-> known[o.outputs[i].address + 1]]] = outputs
        /\ o.inputs = [i \in DOMAIN t.inputs |-> [t.inputs[i] EXCEPT !.previousTxId = ShortHash(@)]]
        /\ o.fee >= t.fee
        /\ t.timestamp - o.timestamp \in 0 .. 999
        /\ o.lockTime = t.lockTime
  <1>18. Kept(tx, out, addresses)
    BY <1>10, <1>14, <1>15, <1>16, <1>17, ZenonT(60)
  <1>19. CompactTransactionKept
             <=> Kept(Transaction,
                      DecompressUTXOTransaction(CompressUTXOTransaction(Transaction, Addresses, RecentAmounts), RecentAmounts),
                      Last(AddressTables(Addresses, outputs)))
    BY Zenon DEF CompactTransactionKept
  <1> HIDE DEF Kept
  <1> QED
    BY <1>3, <1>8, <1>12, <1>18, <1>19, Zenon

HeaderFields(b) ==
    <<b.index, b.timestamp \div 1000, b.previousHash, b.hash, b.merkleRoot, b.nonce, b.difficulty>>

ShortHashes(hashes) == [i \in DOMAIN hashes |-> ShortHash(hashes[i])]

LEMMA BlockComesBack ==
    ASSUME NEW b, NEW H, b.transactions \in Seq(H)
    PROVE  DecompressUTXOBlock(CompressUTXOBlock(b)) =
               [index |-> b.index, timestamp |-> (b.timestamp \div 1000) * 1000, previousHash |-> b.previousHash,
                hash |-> b.hash, merkleRoot |-> b.merkleRoot, nonce |-> b.nonce, difficulty |-> b.difficulty,
                transactions |-> ShortHashes(b.transactions)]
  <1>1. PICK hashes \in Seq(H) : hashes = b.transactions
    OBVIOUS
  <1>2. PICK n \in Nat : n = Len(hashes)
    OBVIOUS
  <1>3. PICK f1, f2, f3, f4, f5, f6, f7 :
            /\ f1 = b.index /\ f2 = b.timestamp \div 1000 /\ f3 = b.previousHash /\ f4 = b.hash
            /\ f5 = b.merkleRoot /\ f6 = b.nonce /\ f7 = b.difficulty
    OBVIOUS
  <1>4. PICK W : W = {ShortHash(hashes[i]) : i \in 1 .. n}
    OBVIOUS
  <1>5. PICK U : U = Nat \cup {f1, f2, f3, f4, f5, f6, f7} \cup W
    OBVIOUS
  <1>6. PICK head : head = <<f1, f2, f3, f4, f5, f6, f7>>
    OBVIOUS
  <1>7. head \in Seq(U) /\ Len(head) = 7
    <2>1. f1 \in U /\ f2 \in U /\ f3 \in U /\ f4 \in U /\ f5 \in U /\ f6 \in U /\ f7 \in U
      BY <1>5
    <2> QED
      BY <1>6, <2>1
  <1>8. head[1] = f1 /\ head[2] = f2 /\ head[3] = f3 /\ head[4] = f4 /\ head[5] = f5 /\ head[6] = f6 /\ head[7] = f7
    BY <1>6
  <1>9. PICK short : short = ShortHashes(hashes)
    OBVIOUS
  <1>10. short \in Seq(U) /\ Len(short) = n
    <2>1. short = [i \in 1 .. n |-> ShortHash(hashes[i])]
      BY <1>2, <1>9 DEF ShortHashes
    <2>2. \A i \in 1 .. n : ShortHash(hashes[i]) \in U
      BY <1>4, <1>5
    <2>3. short \in [1 .. n -> U]
      BY <2>1, <2>2
    <2>4. short \in Seq(U)
      BY <2>3, TabulatedSequence
    <2> QED
      BY <2>1, <2>4
  <1>11. PICK count \in Seq(U) : count = EncodeVarint(n)
    <2>1. EncodeVarint(n) \in Seq(0 .. 255)
      BY VarintIsBytes
    <2>2. \A x \in 0 .. 255 : x \in Nat
      OBVIOUS
    <2>3. 0 .. 255 \subseteq U
      BY <1>5, <2>2
    <2>4. EncodeVarint(n) \in Seq(U)
      BY <2>1, <2>3, WiderSequence, ZenonT(60)
    <2> QED
      BY <2>4
  <1>12. PICK l \in Nat : l = Len(count)
    OBVIOUS
  <1>13. PICK start \in Seq(U) : start = head \o count /\ Len(start) = 7 + l
    <2>1. head \o count \in Seq(U) /\ Len(head \o count) = Len(head) + Len(count)
      BY <1>7, OneAfterTheOther
    <2> QED
      BY <1>7, <1>12, <2>1
  <1>14. PICK z \in Seq(U) : z = start \o short
    <2>1. start \o short \in Seq(U)
      BY <1>10
    <2> QED
      BY <2>1
  <1>15. CompressUTXOBlock(b) = z
    <2>1. CompressUTXOBlock(b) = HeaderFields(b) \o EncodeVarint(Len(b.transactions)) \o ShortHashes(b.transactions)
      BY Zenon DEF CompressUTXOBlock, HeaderFields, ShortHashes
    <2>2. HeaderFields(b) = head
      BY <1>3, <1>6 DEF HeaderFields
    <2> QED
      BY <1>1, <1>2, <1>9, <1>11, <1>13, <1>14, <2>1, <2>2, Zenon
  <1>16. Holds(z, 1, start) /\ Holds(z, 8 + l, short)
    <2>1. Holds(z, 1, start \o short)
      BY <1>14, HoldsSelf
    <2>2. 1 \in Nat \ {0}
      OBVIOUS
    <2>3. Holds(z, 1, start) /\ Holds(z, 1 + Len(start), short)
      BY <1>10, <2>1, <2>2, HoldsParts
    <2>4. 1 + Len(start) = 8 + l
      BY <1>13
    <2> QED
      BY <2>3, <2>4, Zenon
  <1>17. Holds(z, 1, head) /\ Holds(z, 8, count)
    <2>1. Holds(z, 1, head \o count)
      BY <1>13, <1>16
    <2>2. 1 \in Nat \ {0}
      OBVIOUS
    <2>3. Holds(z, 1, head) /\ Holds(z, 1 + Len(head), count)
      BY <1>7, <2>1, <2>2, HoldsParts
    <2>4. 1 + Len(head) = 8
      BY <1>7
    <2> QED
      BY <2>3, <2>4, Zenon
  <1>18. z[1] = f1 /\ z[2] = f2 /\ z[3] = f3 /\ z[4] = f4 /\ z[5] = f5 /\ z[6] = f6 /\ z[7] = f7
    <2>1. \A j \in 1 .. 7 : z[1 + j - 1] = head[j]
      BY <1>7, <1>17 DEF Holds
    <2>2. \A j \in 1 .. 7 : z[j] = head[j]
      BY <2>1
    <2> QED
      BY <1>8, <2>2
  <1>19. ReadVarint(z, 8) = [value |-> n, read |-> l]
    <2>1. 8 \in Nat \ {0}
      OBVIOUS
    <2>2. Holds(z, 8, EncodeVarint(n))
      BY <1>11, <1>17
    <2>3. ReadVarint(z, 8) = [value |-> n, read |-> Len(EncodeVarint(n))]
      BY <2>1, <2>2, VarintComesBack
    <2> QED
      BY <1>11, <1>12, <2>3, Zenon
  <1>20. SubSeq(z, 8 + l, 7 + l + n) = short
    <2>1. 8 + l \in Nat \ {0}
      OBVIOUS
    <2>2. SubSeq(z, 8 + l, (8 + l) + Len(short) - 1) = short
      BY <1>10, <1>16, <2>1, HoldsSubSeq
    <2>3. (8 + l) + Len(short) - 1 = 7 + l + n
      BY <1>10
    <2> QED
      BY <2>2, <2>3, Zenon
  <1>21. PICK c : c = ReadVarint(z, 8)
    OBVIOUS
  <1>22. c.value = n /\ c.read = l
    BY <1>19, <1>21
  <1>23. DecompressUTXOBlock(z) =
             [index |-> z[1], timestamp |-> z[2] * 1000, previousHash |-> z[3], hash |-> z[4], merkleRoot |-> z[5],
              nonce |-> z[6], difficulty |-> z[7], transactions |-> SubSeq(z, 8 + c.read, 7 + c.read + c.value)]
    BY <1>21, SMTT(30) DEF DecompressUTXOBlock
  <1>24. DecompressUTXOBlock(z) =
             [index |-> f1, timestamp |-> f2 * 1000, previousHash |-> f3, hash |-> f4, merkleRoot |-> f5,
              nonce |-> f6, difficulty |-> f7, transactions |-> short]
    <2>1. SubSeq(z, 8 + c.read, 7 + c.read + c.value) = short
      BY <1>20, <1>22, Zenon
    <2>2. PICK first : first = z[2] * 1000
      OBVIOUS
    <2>3. first = f2 * 1000
      BY <1>18, <2>2, Zenon
    <2>4. DecompressUTXOBlock(z) =
              [index |-> z[1], timestamp |-> first, previousHash |-> z[3], hash |-> z[4], merkleRoot |-> z[5],
               nonce |-> z[6], difficulty |-> z[7], transactions |-> short]
      BY <1>23, <2>1, <2>2, ZenonT(60)
    <2> QED
      BY <1>18, <2>3, <2>4, SMTT(30)
  <1> QED
    BY <1>1, <1>3, <1>9, <1>15, <1>24

BlockWith(time, root, hashes) ==
    [index |-> 1, timestamp |-> time, previousHash |-> "g", hash |-> "b", merkleRoot |-> root, nonce |-> 7,
     difficulty |-> 1, transactions |-> hashes]

Restored(out, time, hashes) == [out EXCEPT !.timestamp = time, !.transactions = hashes]

LEMMA BlockRestored ==
    ASSUME NEW root, NEW short, NEW hashes, NEW time, NEW other, NEW out, out = BlockWith(other, root, short)
    PROVE  Restored(out, time, hashes) = BlockWith(time, root, hashes)
  <1>1. [out EXCEPT !.timestamp = time] = BlockWith(time, root, short)
    BY DEF BlockWith
  <1>2. \A b : b = BlockWith(time, root, short) => [b EXCEPT !.transactions = hashes] = BlockWith(time, root, hashes)
    BY DEF BlockWith
  <1>3. [out EXCEPT !.timestamp = time, !.transactions = hashes]
            = [[out EXCEPT !.timestamp = time] EXCEPT !.transactions = hashes]
    OBVIOUS
  <1> QED
    BY <1>1, <1>2, <1>3, Zenon DEF Restored

LEMMA BlockKept ==
    ASSUME BlockInv
    PROVE  CompactBlockKept
  <1>1. PICK ts \in Seq(Nat) :
            block = [index |-> 1, timestamp |-> 2, previousHash |-> "g", hash |-> "b", zeros |-> 1, transactions |-> ts]
    BY DEF BlockInv
  <1>2. PICK hashes : hashes = [i \in DOMAIN ts |-> Hash(ts[i])]
    OBVIOUS
  <1>3. PICK root : root = CalculateRoot(ts)
    OBVIOUS
  <1>4. PICK whole : whole = BlockWith(12345, root, hashes)
    OBVIOUS
  <1>5. block.index = 1 /\ block.previousHash = "g" /\ block.hash = "b" /\ block.zeros = 1 /\ block.transactions = ts
    BY <1>1
  <1>6. WholeBlock = whole
    <2>1. WholeBlock =
              [index |-> block.index, timestamp |-> 12345, previousHash |-> block.previousHash, hash |-> block.hash,
               merkleRoot |-> CalculateRoot(block.transactions), nonce |-> 7, difficulty |-> block.zeros,
               transactions |-> [i \in DOMAIN block.transactions |-> Hash(block.transactions[i])]]
      BY SMTT(30) DEF WholeBlock
    <2>2. [i \in DOMAIN block.transactions |-> Hash(block.transactions[i])] = hashes
      BY <1>2, <1>5, Zenon
    <2>3. CalculateRoot(block.transactions) = root
      BY <1>3, <1>5, Zenon
    <2> QED
      BY <1>4, <1>5, <2>1, <2>2, <2>3 DEF BlockWith
  <1>7. PICK H : hashes \in Seq(H)
    <2>1. PICK H : H = {Hash(ts[i]) : i \in DOMAIN ts}
      OBVIOUS
    <2>2. hashes \in Seq(H)
      BY <1>2, <2>1
    <2> QED
      BY <2>2
  <1>8. PICK short : short = ShortHashes(hashes)
    OBVIOUS
  <1>9. PICK out : out = DecompressUTXOBlock(CompressUTXOBlock(whole))
    OBVIOUS
  <1>10. /\ whole.index = 1 /\ whole.timestamp = 12345 /\ whole.previousHash = "g" /\ whole.hash = "b"
         /\ whole.merkleRoot = root /\ whole.nonce = 7 /\ whole.difficulty = 1 /\ whole.transactions = hashes
    BY <1>4 DEF BlockWith
  <1>11. out = BlockWith(12000, root, short)
    <2>1. out = [index |-> whole.index, timestamp |-> (whole.timestamp \div 1000) * 1000,
                 previousHash |-> whole.previousHash, hash |-> whole.hash, merkleRoot |-> whole.merkleRoot,
                 nonce |-> whole.nonce, difficulty |-> whole.difficulty, transactions |-> ShortHashes(whole.transactions)]
      BY <1>7, <1>9, <1>10, BlockComesBack
    <2>2. (12345 \div 1000) * 1000 = 12000
      OBVIOUS
    <2> QED
      BY <1>8, <1>10, <2>1, <2>2 DEF BlockWith
  <1>12. Restored(out, 12345, hashes) = whole
    <2>1. PICK time, other : time = 12345 /\ other = 12000
      OBVIOUS
    <2>2. out = BlockWith(other, root, short)
      BY <1>11, <2>1
    <2>3. Restored(out, time, hashes) = BlockWith(time, root, hashes)
      BY <2>2, BlockRestored
    <2> QED
      BY <1>4, <2>1, <2>3
  <1>13. out.timestamp = 12000 /\ out.transactions = short
    BY <1>11 DEF BlockWith
  <1>14. short = [i \in DOMAIN block.transactions |-> ShortHash(hashes[i])]
    <2>1. DOMAIN hashes = DOMAIN ts
      BY <1>2
    <2> QED
      BY <1>5, <1>8, <2>1, Zenon DEF ShortHashes
  <1>15. Restored(out, 12345, WholeBlock.transactions) = WholeBlock
    <2>1. WholeBlock.transactions = hashes
      BY <1>6, <1>10
    <2> QED
      BY <1>6, <1>12, <2>1
  <1>16. out.transactions = [i \in DOMAIN block.transactions |-> ShortHash(WholeBlock.transactions[i])]
    <2>1. WholeBlock.transactions = hashes
      BY <1>6, <1>10
    <2> QED
      BY <1>13, <1>14, <2>1
  <1>17. out = DecompressUTXOBlock(CompressUTXOBlock(WholeBlock))
    BY <1>6, <1>9, Zenon
  <1> QED
    BY <1>13, <1>15, <1>16, <1>17 DEF CompactBlockKept, Restored

(***************************************************************************)
(* The manager: a packet under way, whatever happens to the manager        *)
(* meanwhile                                                               *)
(***************************************************************************)

Bits == 0 .. 127

(* What became of data d, compressed with these entries if with any.        *)
IsResult(r, d, engines, entries) ==
    /\ r.originalSize = Len(d) /\ r.algorithm \in engines
    /\ r.algorithm = "utxo_custom" => r.data = CustomCompress(d)
    /\ r.algorithm = "utxo_dictionary" =>
           entries \in Seq(Seq(Bits)) /\ Len(entries) <= 32768 /\ r.data = CompressWithDictionary(d, entries)
    /\ r.algorithm \notin {"utxo_custom", "utxo_dictionary"} => r.data = d

(* The data of a packet, with its header if it is of the mesh.              *)
IsData(d, p) ==
    /\ d \in Seq(Codes) /\ d # <<>>
    /\ IF p.from = "caller" THEN d = p.sent ELSE Tail(d) = p.sent

IsPacket(p, engines) == \E d : IsData(d, p) /\ IsResult(p.result, d, engines, p.entries)

LEMMA CodesAreBits ==
    ASSUME NEW d \in Seq(Codes)
    PROVE  d \in Seq(0 .. 127)
  <1>1. Codes \subseteq 0 .. 127
    BY DEF Codes
  <1> QED
    BY <1>1, WiderSequence

LEMMA TextsOfBits ==
    ASSUME NEW entries, entries \in Seq(Seq(Bits)), Len(entries) <= 32768
    PROVE  AreTexts(entries) /\ entries # <<FAILED>>
  <1>1. Bits \subseteq Int
    BY DEF Bits
  <1>2. \A s \in Seq(Bits) : s \in Seq(Int)
    <2>1. ASSUME NEW s \in Seq(Bits)
          PROVE  s \in Seq(Int)
      <3>1. PICK S, T : S = Bits /\ T = Int
        OBVIOUS
      <3>2. S \subseteq T /\ s \in Seq(S)
        BY <1>1, <3>1
      <3>3. s \in Seq(T)
        BY <3>2, WiderSequence
      <3> QED
        BY <3>1, <3>3
    <2> QED
      BY <2>1
  <1>3. entries \in Seq(Seq(Int))
    <2>1. Seq(Bits) \subseteq Seq(Int)
      BY <1>2
    <2> QED
      BY <2>1, WiderSequence
  <1>4. entries # <<FAILED>>
    <2>1. ASSUME entries = <<FAILED>>
          PROVE  FALSE
      <3>1. Len(entries) = 1 /\ entries[1] = FAILED
        BY <2>1
      <3>2. \A i \in 1 .. Len(entries) : entries[i] \in Seq(Bits)
        BY ItemOf
      <3>3. 1 \in 1 .. Len(entries)
        BY <3>1
      <3>4. FAILED \in Seq(Bits)
        <4>1. entries[1] \in Seq(Bits)
          BY <3>2, <3>3
        <4> QED
          BY <3>1, <4>1
      <3> QED
        BY <3>4, DataNotFailed DEF Bits
    <2> QED
      BY <2>1
  <1> QED
    BY <1>3, <1>4 DEF AreTexts

(* What an engine gives back of its result is the data, or of another size. *)
LEMMA EngineGivesBack ==
    ASSUME NEW z, NEW d \in Seq(Codes), d # <<>>, NEW engines, NEW entries, IsResult(z, d, engines, entries),
           z.algorithm = "utxo_dictionary" => EntriesOf(z.dictionaryId) = entries
    PROVE  /\ SizeRight(z, EngineDecompress(z)) => EngineDecompress(z) = d
           /\ z.algorithm # "utxo_custom" => EngineDecompress(z) = d /\ z.data # <<>>
  <1>1. z.originalSize = Len(d)
    BY DEF IsResult
  <1>2. CASE z.algorithm = "utxo_dictionary"
    <2>1. entries \in Seq(Seq(Bits)) /\ Len(entries) <= 32768 /\ z.data = CompressWithDictionary(d, entries)
      BY <1>2 DEF IsResult
    <2>2. AreTexts(entries) /\ entries # <<FAILED>>
      BY <2>1, TextsOfBits
    <2>3. z.dictionaryId \in DOMAIN engineDictionaries /\ engineDictionaries[z.dictionaryId].entries = entries
      BY <1>2, <2>2, Zenon DEF EntriesOf
    <2>4. EngineDecompress(z) = DecompressWithDictionary(z.data, entries)
      <3>1. EngineDecompress(z) =
                IF z.dictionaryId \in DOMAIN engineDictionaries
                THEN DecompressWithDictionary(z.data, engineDictionaries[z.dictionaryId].entries) ELSE FAILED
        BY <1>2 DEF EngineDecompress
      <3> QED
        BY <2>3, <3>1, Zenon
    <2>5. d \in Seq(0 .. 127)
      BY CodesAreBits
    <2>6. /\ CompressWithDictionary(d, entries) \in Seq(Bytes)
          /\ Len(d) > 0 => Len(CompressWithDictionary(d, entries)) > 0
          /\ DecompressWithDictionary(CompressWithDictionary(d, entries), entries) = d
      BY <2>2, <2>5, DictionaryRoundTrip
    <2>7. EngineDecompress(z) = d
      BY <2>1, <2>4, <2>6
    <2>8. Len(d) > 0
      OBVIOUS
    <2>9. z.data # <<>>
      BY <2>1, <2>6, <2>8
    <2> QED
      BY <2>7, <2>9
  <1>3. CASE z.algorithm # "utxo_dictionary"
    <2>1. EngineDecompress(z) = z.data
      BY <1>3 DEF EngineDecompress
    <2>2. CASE z.algorithm = "utxo_custom"
      <3>1. z.data = CustomCompress(d)
        BY <2>2 DEF IsResult
      <3>2. SizeRight(z, z.data) => Len(CustomCompress(d)) = Len(d)
        BY <1>1, <3>1, Zenon DEF SizeRight
      <3>3. Len(CustomCompress(d)) = Len(d) => CustomCompress(d) = d
        BY CustomCompressedExact
      <3> QED
        BY <2>1, <2>2, <3>1, <3>2, <3>3, Zenon
    <2>3. CASE z.algorithm # "utxo_custom"
      <3>1. z.data = d
        BY <1>3, <2>3 DEF IsResult
      <3> QED
        BY <2>1, <3>1
    <2> QED
      BY <2>2, <2>3
  <1> QED
    BY <1>2, <1>3

PacketInv ==
    /\ manager.config \in Configs
    /\ packet # NoPacket => IsPacket(packet, manager.engines)

LEMMA PacketNotGarbled ==
    ASSUME PacketInv
    PROVE  NothingGarbled
  <1> SUFFICES ASSUME packet # NoPacket
               PROVE  NothingGarbled
    BY DEF NothingGarbled
  <1>1. PICK p, z : p = packet /\ z = packet.result
    OBVIOUS
  <1>2. PICK d : IsData(d, p) /\ IsResult(z, d, manager.engines, p.entries)
    BY <1>1 DEF PacketInv, IsPacket
  <1>3. d \in Seq(Codes) /\ d # <<>>
    BY <1>2 DEF IsData
  <1>4. PICK id, algorithm, data, back, result :
            /\ id = z.dictionaryId /\ algorithm = z.algorithm /\ data = Decompressed(z) /\ back = EngineDecompress(z)
            /\ result = Recovered(packet)
    OBVIOUS
  <1>5. PICK same : same = (algorithm # "utxo_dictionary" \/ EntriesOf(id) = p.entries)
    OBVIOUS
  <1>6. PICK expands : expands = (z.originalSize > manager.config.maxExpansion * Len(z.data))
    OBVIOUS
  <1>7. PICK valid : valid = (z.data # <<>> /\ z.originalSize > 0 /\ algorithm \in manager.engines)
    OBVIOUS
  <1>8. PICK within : within = (z.originalSize <= manager.config.maxExpansion * Len(z.data))
    OBVIOUS
  <1>9. data = IF valid /\ within THEN (IF SizeRight(z, back) THEN back ELSE FAILED) ELSE FAILED
    BY <1>4, <1>7, <1>8, Zenon DEF Decompressed
  <1>10. ASSUME same
         PROVE  /\ SizeRight(z, back) => back = d
                /\ algorithm # "utxo_custom" => back = d /\ z.data # <<>>
    BY <1>2, <1>3, <1>4, <1>5, <1>10, EngineGivesBack
  <1>11. d # FAILED
    <2>1. d \in Seq(0 .. 127)
      BY <1>3, CodesAreBits
    <2> QED
      BY <2>1, DataNotFailed
  <1>12. ASSUME same
         PROVE  data \in {d, FAILED}
    BY <1>9, <1>10, <1>12, Zenon
  <1>13. ASSUME same, algorithm # "utxo_custom", ~expands
         PROVE  data = d
    <2>1. back = d /\ z.data # <<>>
      BY <1>10, <1>13
    <2>2. z.originalSize = Len(d) /\ algorithm \in manager.engines
      BY <1>2, <1>4 DEF IsResult
    <2>3. Len(d) > 0
      BY <1>3
    <2>4. SizeRight(z, back)
      BY <1>11, <2>1, <2>2, Zenon DEF SizeRight
    <2>5. valid
      BY <1>7, <2>1, <2>2, <2>3
    <2>6. within
      <3>1. PICK size, limit : size = z.originalSize /\ limit = manager.config.maxExpansion * Len(z.data)
        OBVIOUS
      <3>2. size \in Int
        BY <1>3, <2>2, <3>1
      <3>3. limit \in Int
        <4>1. z.data \in Seq(Int)
          <5>1. CASE z.algorithm = "utxo_dictionary"
            <6>1. p.entries \in Seq(Seq(Bits)) /\ Len(p.entries) <= 32768 /\ z.data = CompressWithDictionary(d, p.entries)
              BY <1>2, <5>1 DEF IsResult
            <6>2. AreTexts(p.entries)
              BY <6>1, TextsOfBits
            <6>3. d \in Seq(0 .. 127)
              BY <1>3, CodesAreBits
            <6>4. z.data \in Seq(Bytes)
              BY <6>1, <6>2, <6>3, DictionaryRoundTrip
            <6>5. Bytes \subseteq Int
              BY DEF Bytes
            <6> QED
              BY <6>4, <6>5, WiderSequence
          <5>2. CASE z.algorithm # "utxo_dictionary"
            <6>1. z.data = d
              BY <1>2, <1>4, <1>13, <5>2 DEF IsResult
            <6>2. Codes \subseteq Int
              BY DEF Codes
            <6> QED
              BY <1>3, <6>1, <6>2, WiderSequence
          <5> QED
            BY <5>1, <5>2
        <4>2. PICK l \in Nat : l = Len(z.data)
          BY <4>1
        <4>3. PICK most \in Nat : most = manager.config.maxExpansion
          BY CompressionAssumption DEF PacketInv
        <4>4. most * l \in Int
          OBVIOUS
        <4> QED
          BY <3>1, <4>2, <4>3, <4>4
      <3>4. ~(size > limit)
        BY <1>6, <1>13, <3>1
      <3>5. size <= limit
        BY <3>2, <3>3, <3>4
      <3> QED
        BY <1>8, <3>1, <3>5
    <2> QED
      BY <1>9, <2>1, <2>4, <2>5, <2>6, Zenon
  <1>14. result = IF p.from = "caller" \/ data = FAILED THEN data ELSE Tail(data)
    BY <1>1, <1>4, Zenon DEF Recovered, DeserializeMessage
  <1>15. data = FAILED => result = FAILED
    BY <1>14
  <1>16. data = d => result = p.sent
    BY <1>2, <1>11, <1>14 DEF IsData
  <1>17. same => result \in {p.sent, FAILED} /\ (algorithm # "utxo_custom" /\ ~expands => result = p.sent)
    BY <1>12, <1>13, <1>15, <1>16, Zenon
  <1> QED
    BY <1>1, <1>4, <1>5, <1>6, <1>17, Zenon DEF NothingGarbled

ManagerWith(engines, config, cache, patterns, dictionaries) ==
    [engines |-> engines, config |-> config, algorithmCache |-> cache, utxoPatterns |-> patterns,
     dictionaries |-> dictionaries]

IsManager(m) ==
    /\ \E engines, config, cache, patterns, dictionaries :
           m = ManagerWith(engines, config, cache, patterns, dictionaries)
    /\ m.engines \subseteq Algorithms /\ NONE \in m.engines /\ m.config \in Configs

DictionariesInv ==
    \A id \in DOMAIN engineDictionaries : IsDictionary(engineDictionaries[id], Seq(Bits))

CompressionInv == IsManager(manager) /\ DictionariesInv /\ PacketInv

(* The manager keeps its engines.                                           *)
ManagerStep == IsManager(manager') /\ manager.engines \subseteq manager'.engines

LEMMA ManagerFields ==
    ASSUME NEW m, IsManager(m), NEW e, NEW c, NEW v
    PROVE  /\ [m EXCEPT !.algorithmCache = v] = ManagerWith(m.engines, m.config, v, m.utxoPatterns, m.dictionaries)
           /\ [m EXCEPT !.engines = e] = ManagerWith(e, m.config, m.algorithmCache, m.utxoPatterns, m.dictionaries)
           /\ [m EXCEPT !.config = c, !.algorithmCache = v] = ManagerWith(m.engines, c, v, m.utxoPatterns, m.dictionaries)
  <1>1. PICK engines, config, cache, patterns, dictionaries :
            m = ManagerWith(engines, config, cache, patterns, dictionaries)
    BY DEF IsManager
  <1>2. /\ m.engines = engines /\ m.config = config /\ m.algorithmCache = cache /\ m.utxoPatterns = patterns
        /\ m.dictionaries = dictionaries
    BY <1>1 DEF ManagerWith
  <1>3. [m EXCEPT !.algorithmCache = v] = ManagerWith(engines, config, v, patterns, dictionaries)
    BY <1>1 DEF ManagerWith
  <1>4. [m EXCEPT !.engines = e] = ManagerWith(e, config, cache, patterns, dictionaries)
    BY <1>1 DEF ManagerWith
  <1>5. [m EXCEPT !.config = c, !.algorithmCache = v] = ManagerWith(engines, c, v, patterns, dictionaries)
    <2>1. PICK n : n = [m EXCEPT !.config = c]
      OBVIOUS
    <2>2. n = ManagerWith(engines, c, cache, patterns, dictionaries)
      BY <1>1, <2>1 DEF ManagerWith
    <2>3. [n EXCEPT !.algorithmCache = v] = ManagerWith(engines, c, v, patterns, dictionaries)
      BY <2>2 DEF ManagerWith
    <2>4. [m EXCEPT !.config = c, !.algorithmCache = v] = [n EXCEPT !.algorithmCache = v]
      BY <2>1
    <2> QED
      BY <2>3, <2>4
  <1> QED
    BY <1>2, <1>3, <1>4, <1>5, Zenon

LEMMA OptimizedFields ==
    ASSUME NEW m, IsManager(m), NEW v, NEW w, NEW new, new = [m EXCEPT !.utxoPatterns = v, !.dictionaries = w]
    PROVE  new = ManagerWith(m.engines, m.config, m.algorithmCache, v, w)
  <1>1. PICK engines, config, cache, patterns, dictionaries :
            m = ManagerWith(engines, config, cache, patterns, dictionaries)
    BY DEF IsManager
  <1>2. m.engines = engines /\ m.config = config /\ m.algorithmCache = cache
    BY <1>1 DEF ManagerWith
  <1>3. PICK n : n = [m EXCEPT !.utxoPatterns = v]
    OBVIOUS
  <1>4. n = ManagerWith(engines, config, cache, v, dictionaries)
    BY <1>1, <1>3 DEF ManagerWith
  <1>5. [n EXCEPT !.dictionaries = w] = ManagerWith(engines, config, cache, v, w)
    BY <1>4 DEF ManagerWith
  <1>6. new = [n EXCEPT !.dictionaries = w]
    BY <1>3
  <1> QED
    BY <1>2, <1>5, <1>6

LEMMA StillManager ==
    ASSUME IsManager(manager), NEW e, manager.engines \subseteq e, e \subseteq Algorithms, NEW c \in Configs,
           NEW v, NEW w, NEW x, manager' = ManagerWith(e, c, v, w, x)
    PROVE  ManagerStep /\ manager'.config = c
  <1>1. manager'.engines = e /\ manager'.config = c
    BY DEF ManagerWith
  <1>2. NONE \in e
    BY DEF IsManager
  <1> QED
    BY <1>1, <1>2 DEF ManagerStep, IsManager

LEMMA ManagerSteps ==
    ASSUME IsManager(manager),
           \/ \E v : manager' = [manager EXCEPT !.algorithmCache = v]
           \/ RegisterAllEngines
           \/ \E c \in Configs : UpdateConfig(c)
           \/ \E n : OptimizeForUTXOPatterns(n, RecentTransactions)
           \/ \E enable \in BOOLEAN : EnableAdaptiveCompression(enable)
           \/ UNCHANGED manager
    PROVE  ManagerStep
  <1>1. /\ manager.engines \subseteq manager.engines /\ manager.engines \subseteq Algorithms
        /\ manager.config \in Configs
    BY DEF IsManager
  <1>2. CASE \E v : manager' = [manager EXCEPT !.algorithmCache = v]
    <2>1. PICK v : manager' = [manager EXCEPT !.algorithmCache = v]
      BY <1>2
    <2>2. manager' = ManagerWith(manager.engines, manager.config, v, manager.utxoPatterns, manager.dictionaries)
      BY <2>1, ManagerFields, Zenon
    <2> QED
      BY <1>1, <2>2, StillManager
  <1>3. CASE RegisterAllEngines
    <2>1. PICK e : e = Algorithms
      OBVIOUS
    <2>2. manager' = [manager EXCEPT !.engines = e]
      BY <1>3, <2>1, Zenon DEF RegisterAllEngines
    <2>3. manager' = ManagerWith(e, manager.config, manager.algorithmCache, manager.utxoPatterns, manager.dictionaries)
      BY <2>2, ManagerFields, Zenon
    <2>4. manager.engines \subseteq e /\ e \subseteq Algorithms
      BY <1>1, <2>1, Zenon
    <2> QED
      BY <1>1, <2>3, <2>4, StillManager
  <1>4. CASE \E c \in Configs : UpdateConfig(c)
    <2>1. PICK c \in Configs : UpdateConfig(c)
      BY <1>4
    <2>2. PICK v : v = IF ValidConfig(c) THEN <<>> ELSE manager.algorithmCache
      OBVIOUS
    <2>3. manager' = [manager EXCEPT !.config = c, !.algorithmCache = v]
      BY <2>1, <2>2, Zenon DEF UpdateConfig
    <2>4. manager' = ManagerWith(manager.engines, c, v, manager.utxoPatterns, manager.dictionaries)
      BY <2>3, ManagerFields, Zenon
    <2> QED
      BY <1>1, <2>4, StillManager
  <1>5. CASE \E n : OptimizeForUTXOPatterns(n, RecentTransactions)
    <2>1. PICK n : OptimizeForUTXOPatterns(n, RecentTransactions)
      BY <1>5
    <2>2. PICK w : manager' = [manager EXCEPT !.utxoPatterns = n, !.dictionaries = w]
      BY <2>1, Zenon DEF OptimizeForUTXOPatterns
    <2>3. manager' = ManagerWith(manager.engines, manager.config, manager.algorithmCache, n, w)
      BY <2>2, OptimizedFields
    <2> QED
      BY <1>1, <2>3, StillManager
  <1>6. CASE \E enable \in BOOLEAN : EnableAdaptiveCompression(enable)
    <2>1. PICK enable \in BOOLEAN : EnableAdaptiveCompression(enable)
      BY <1>6
    <2>2. PICK v : v = IF enable THEN manager.algorithmCache ELSE <<>>
      OBVIOUS
    <2>3. manager' = [manager EXCEPT !.algorithmCache = v]
      BY <2>1, <2>2, Zenon DEF EnableAdaptiveCompression
    <2>4. manager' = ManagerWith(manager.engines, manager.config, v, manager.utxoPatterns, manager.dictionaries)
      BY <2>3, ManagerFields, Zenon
    <2> QED
      BY <1>1, <2>4, StillManager
  <1>7. CASE UNCHANGED manager
    BY <1>7 DEF ManagerStep
  <1> QED
    BY <1>2, <1>3, <1>4, <1>5, <1>6, <1>7

LEMMA ResultOfCompressing ==
    ASSUME IsManager(manager), DictionariesInv, NEW d, NEW type, NEW option, NEW busy, NEW id
    PROVE  IsResult(CompressResult(d, type, option, busy, id), d, manager.engines, EntriesOf(id))
  <1>1. PICK selected : selected = IF option # "any" THEN option ELSE SelectOptimalAlgorithm(d, type, manager).algorithm
    OBVIOUS
  <1>2. PICK used : used = IF busy /\ "lz4" \in manager.engines THEN "lz4" ELSE selected
    OBVIOUS
  <1>3. CompressResult(d, type, option, busy, id) =
            IF Len(d) < manager.config.threshold \/ selected \notin manager.engines
            THEN Uncompressed(d) ELSE EngineCompress(used, d, id)
    BY <1>1, <1>2, Zenon DEF CompressResult
  <1>4. IsResult(Uncompressed(d), d, manager.engines, EntriesOf(id))
    <2>1. PICK r : r = Uncompressed(d)
      OBVIOUS
    <2>2. r.originalSize = Len(d) /\ r.algorithm = "none" /\ r.data = d
      BY <2>1 DEF Uncompressed, Result, NONE
    <2>3. "none" \in manager.engines
      BY DEF IsManager, NONE
    <2> QED
      BY <2>1, <2>2, <2>3 DEF IsResult
  <1>5. ASSUME used \in manager.engines
        PROVE  IsResult(EngineCompress(used, d, id), d, manager.engines, EntriesOf(id))
    <2>1. PICK r : r = EngineCompress(used, d, id)
      OBVIOUS
    <2>2. CASE used = "utxo_custom"
      <3>1. r = Result(used, CustomCompress(d), d, id)
        BY <2>1, <2>2 DEF EngineCompress
      <3>2. r.originalSize = Len(d) /\ r.algorithm = used /\ r.data = CustomCompress(d)
        BY <3>1 DEF Result
      <3> QED
        BY <1>5, <2>1, <2>2, <3>2 DEF IsResult
    <2>3. CASE used = "utxo_dictionary" /\ id \notin DOMAIN engineDictionaries
      <3>1. r = Uncompressed(d)
        BY <2>1, <2>3 DEF EngineCompress
      <3> QED
        BY <1>4, <2>1, <3>1
    <2>4. CASE used = "utxo_dictionary" /\ id \in DOMAIN engineDictionaries
      <3>1. PICK entries : entries = EntriesOf(id)
        OBVIOUS
      <3>2. entries = engineDictionaries[id].entries
        BY <2>4, <3>1 DEF EntriesOf
      <3>3. r = Result(used, CompressWithDictionary(d, entries), d, id)
        BY <2>1, <2>4, <3>2 DEF EngineCompress
      <3>4. r.originalSize = Len(d) /\ r.algorithm = used /\ r.data = CompressWithDictionary(d, entries)
        BY <3>3 DEF Result
      <3>5. IsDictionary(engineDictionaries[id], Seq(Bits))
        BY <2>4 DEF DictionariesInv
      <3>6. entries \in Seq(Seq(Bits)) /\ Len(entries) <= MaxDictionarySize
        BY <3>2, <3>5, Zenon DEF IsDictionary
      <3>7. Len(entries) <= 32768
        <4>1. MaxDictionarySize \in Int /\ MaxDictionarySize <= 32768
          BY EnginesAssumption
        <4>2. Len(entries) \in Nat
          BY <3>6
        <4> QED
          BY <3>6, <4>1, <4>2
      <3> QED
        BY <1>5, <2>1, <2>4, <3>1, <3>4, <3>6, <3>7 DEF IsResult
    <2>5. CASE used \notin {"utxo_custom", "utxo_dictionary"}
      <3>1. r = Result(used, d, d, id)
        BY <2>1, <2>5 DEF EngineCompress
      <3>2. r.originalSize = Len(d) /\ r.algorithm = used /\ r.data = d
        BY <3>1 DEF Result
      <3> QED
        BY <1>5, <2>1, <2>5, <3>2 DEF IsResult
    <2> QED
      BY <2>2, <2>3, <2>4, <2>5
  <1>6. selected \in manager.engines => used \in manager.engines
    BY <1>2
  <1> QED
    BY <1>3, <1>4, <1>5, <1>6, Zenon

LEMMA OneText ==
    ASSUME NEW d \in FirstSamples
    PROVE  <<d>> \in Seq(Seq(Bits))
  <1>1. PICK a, b : a = <<123, 32, 125, 125>> /\ b = <<123, 125, 123, 125>>
    OBVIOUS
  <1>2. a \in Seq(0 .. 127) /\ b \in Seq(0 .. 127)
    BY <1>1
  <1>3. d \in Seq(0 .. 127)
    BY <1>1, <1>2, Zenon DEF FirstSamples
  <1>4. d \in Seq(Bits)
    BY <1>3 DEF Bits
  <1> QED
    BY <1>4

LEMMA DictionariesStep ==
    ASSUME DictionariesInv,
           \/ \E id, now : \E d \in FirstSamples : CreateDictionary(id, d, now)
           \/ \E id : \E d \in FirstSamples : UpdateDictionary(id, d)
           \/ \E id : DeleteDictionary(id)
           \/ UNCHANGED engineDictionaries
    PROVE  DictionariesInv'
  <1>2. CASE \E id, now : \E d \in FirstSamples : CreateDictionary(id, d, now)
    <2> PICK id, now : \E d \in FirstSamples : CreateDictionary(id, d, now)
      BY <1>2
    <2>1. PICK d \in FirstSamples : CreateDictionary(id, d, now)
      OBVIOUS
    <2>2. PICK new : new = NewDictionary(<<d>>)
      OBVIOUS
    <2>3. IsDictionary(new, Seq(Bits))
      BY <2>2, OneText, NewDictionaryTyped
    <2>4. PICK all : all = Updated(engineDictionaries, id, new)
      OBVIOUS
    <2>5. \A i \in DOMAIN all : IsDictionary(all[i], Seq(Bits))
      <3>1. all = [i \in DOMAIN engineDictionaries \cup {id} |-> IF i = id THEN new ELSE engineDictionaries[i]]
        BY <2>4 DEF Updated
      <3>2. ASSUME NEW i \in DOMAIN all
            PROVE  IsDictionary(all[i], Seq(Bits))
        <4>1. i \in DOMAIN engineDictionaries \cup {id} /\ all[i] = IF i = id THEN new ELSE engineDictionaries[i]
          BY <3>1
        <4> QED
          BY <2>3, <4>1 DEF DictionariesInv
      <3> QED
        BY <3>2
    <2>6. PICK evicted : engineDictionaries' = [i \in DOMAIN all \ evicted |-> all[i]]
      BY <2>1, <2>2, <2>4, ZenonT(60) DEF CreateDictionary
    <2> QED
      BY <2>5, <2>6 DEF DictionariesInv
  <1>3. CASE \E id : \E d \in FirstSamples : UpdateDictionary(id, d)
    <2> PICK id : \E d \in FirstSamples : UpdateDictionary(id, d)
      BY <1>3
    <2>1. PICK d \in FirstSamples : UpdateDictionary(id, d)
      OBVIOUS
    <2>2. PICK new : new = UpdatedDictionary(engineDictionaries[id], <<d>>)
      OBVIOUS
    <2>3. id \in DOMAIN engineDictionaries /\ engineDictionaries' = [engineDictionaries EXCEPT ![id] = new]
      BY <2>1, <2>2, Zenon DEF UpdateDictionary
    <2>4. IsDictionary(engineDictionaries[id], Seq(Bits))
      BY <2>3 DEF DictionariesInv
    <2>5. IsDictionary(new, Seq(Bits))
      BY <2>2, <2>4, OneText, UpdatedDictionaryTyped
    <2>6. ASSUME NEW i \in DOMAIN engineDictionaries'
          PROVE  IsDictionary(engineDictionaries'[i], Seq(Bits))
      <3>1. i \in DOMAIN engineDictionaries /\ engineDictionaries'[i] = IF i = id THEN new ELSE engineDictionaries[i]
        BY <2>3
      <3> QED
        BY <2>5, <3>1 DEF DictionariesInv
    <2> QED
      BY <2>6 DEF DictionariesInv
  <1>4. CASE \E id : DeleteDictionary(id)
    <2>1. PICK id : engineDictionaries' = [i \in DOMAIN engineDictionaries \ {id} |-> engineDictionaries[i]]
      BY <1>4 DEF DeleteDictionary
    <2> QED
      BY <2>1 DEF DictionariesInv
  <1>5. CASE UNCHANGED engineDictionaries
    BY <1>5 DEF DictionariesInv
  <1> QED
    BY <1>2, <1>3, <1>4, <1>5

LEMMA ResultKept ==
    ASSUME NEW r, NEW d, NEW engines, NEW entries, IsResult(r, d, engines, entries), NEW more, engines \subseteq more
    PROVE  IsResult(r, d, more, entries)
  BY DEF IsResult

LEMMA PacketMade ==
    ASSUME IsManager(manager), DictionariesInv, ManagerStep, NEW d \in Seq(Codes), d # <<>>,
           NEW type, NEW option, NEW busy, NEW id, NEW sent, NEW from,
           IF from = "caller" THEN d = sent ELSE Tail(d) = sent,
           packet' = [sent |-> sent, result |-> CompressResult(d, type, option, busy, id), entries |-> EntriesOf(id),
                      from |-> from]
    PROVE  PacketInv'
  <1>1. PICK p, r, entries : p = packet' /\ r = CompressResult(d, type, option, busy, id) /\ entries = EntriesOf(id)
    OBVIOUS
  <1>2. p.sent = sent /\ p.result = r /\ p.entries = entries /\ p.from = from
    BY <1>1
  <1>3. IsData(d, p)
    BY <1>2 DEF IsData
  <1>4. IsResult(r, d, manager.engines, entries)
    BY <1>1, ResultOfCompressing
  <1>5. IsResult(p.result, d, manager'.engines, p.entries)
    BY <1>2, <1>4, ResultKept DEF ManagerStep
  <1>6. IsPacket(p, manager'.engines)
    BY <1>3, <1>5 DEF IsPacket
  <1> QED
    BY <1>1, <1>6 DEF PacketInv, ManagerStep, IsManager

LEMMA PacketStep ==
    ASSUME CompressionInv, ManagerStep,
           \/ \E d \in Samples : \E type, option, busy, id : Compress(d, type, option, busy, id)
           \/ \E d \in Samples : \E type : SendCompressedMessage([type |-> type, payload |-> d])
           \/ ReceivePacket
           \/ UNCHANGED packet
    PROVE  PacketInv'
  <1>1. CASE \E d \in Samples : \E type, option, busy, id : Compress(d, type, option, busy, id)
    <2>1. PICK d \in Samples : \E type, option, busy, id : Compress(d, type, option, busy, id)
      BY <1>1
    <2>2. PICK type, option, busy, id : Compress(d, type, option, busy, id)
      BY <2>1
    <2>3. /\ packet' = [sent |-> d, result |-> CompressResult(d, type, option, busy, id), entries |-> EntriesOf(id),
                        from |-> "caller"]
          /\ d # <<>>
      BY <2>2, Zenon DEF Compress
    <2>4. d \in Seq(Codes)
      BY CompressionAssumption
    <2>5. PICK from : from = "caller"
      OBVIOUS
    <2>6. packet' = [sent |-> d, result |-> CompressResult(d, type, option, busy, id), entries |-> EntriesOf(id),
                     from |-> from]
      BY <2>3, <2>5, Zenon
    <2>7. IF from = "caller" THEN d = d ELSE Tail(d) = d
      BY <2>5
    <2> QED
      BY <2>3, <2>4, <2>6, <2>7, PacketMade DEF CompressionInv
  <1>2. CASE \E d \in Samples : \E type : SendCompressedMessage([type |-> type, payload |-> d])
    <2>1. PICK payload \in Samples : \E type : SendCompressedMessage([type |-> type, payload |-> payload])
      BY <1>2
    <2>2. PICK type : SendCompressedMessage([type |-> type, payload |-> payload])
      BY <2>1
    <2>3. PICK message : message = [type |-> type, payload |-> payload]
      OBVIOUS
    <2>4. message.payload = payload
      BY <2>3
    <2>5. PICK d, kind, option : d = SerializeMessage(message) /\ kind = MapMessageType(message.type) /\ option = OptionFor(message.type)
      OBVIOUS
    <2>6. PICK from, id, busy : from = "mesh" /\ id = "default" /\ busy = FALSE
      OBVIOUS
    <2>7. packet' = [sent |-> payload, result |-> CompressResult(d, kind, option, busy, id), entries |-> EntriesOf(id),
                     from |-> from]
      <3>1. SendCompressedMessage(message)
        BY <2>2, <2>3
      <3>2. packet' = [sent |-> message.payload, result |-> CompressResult(d, kind, option, FALSE, "default"),
                       entries |-> EntriesOf("default"), from |-> "mesh"]
        BY <2>5, <3>1, Zenon DEF SendCompressedMessage
      <3> QED
        BY <2>4, <2>6, <3>2
    <2>8. d \in Seq(Codes) /\ d # <<>> /\ Tail(d) = payload
      <3>1. PICK number : number = MessageTypeEnum(message.type)
        OBVIOUS
      <3>2. number \in {0, 4, 7}
        BY <3>1 DEF MessageTypeEnum
      <3>3. number \in Codes
        BY <3>2 DEF Codes
      <3>4. d = <<number>> \o payload
        BY <2>4, <2>5, <3>1, Zenon DEF SerializeMessage
      <3>5. payload \in Seq(Codes)
        BY CompressionAssumption
      <3> QED
        BY <3>3, <3>4, <3>5
    <2>9. IF from = "caller" THEN d = payload ELSE Tail(d) = payload
      BY <2>6, <2>8
    <2> QED
      BY <2>7, <2>8, <2>9, PacketMade DEF CompressionInv
  <1>3. CASE ReceivePacket
    <2>1. packet' = NoPacket
      BY <1>3 DEF ReceivePacket
    <2> QED
      BY <2>1 DEF PacketInv, ManagerStep, IsManager, NoPacket
  <1>4. CASE UNCHANGED packet
    <2>1. ASSUME packet # NoPacket
          PROVE  IsPacket(packet, manager'.engines)
      <3>1. PICK d : IsData(d, packet) /\ IsResult(packet.result, d, manager.engines, packet.entries)
        BY <2>1 DEF CompressionInv, PacketInv, IsPacket
      <3>2. IsResult(packet.result, d, manager'.engines, packet.entries)
        BY <3>1, ResultKept DEF ManagerStep
      <3> QED
        BY <3>1, <3>2 DEF IsPacket
    <2> QED
      BY <1>4, <2>1 DEF PacketInv, ManagerStep, IsManager, NoPacket
  <1> QED
    BY <1>1, <1>2, <1>3, <1>4

LEMMA CompressionStep ==
    ASSUME CompressionInv, [AlgorithmsNext]_algorithmVars
    PROVE  CompressionInv'
  <1>1. CASE SelectionNext
    <2>1. ManagerStep
      <3>1. \/ \E v : manager' = [manager EXCEPT !.algorithmCache = v]
            \/ RegisterAllEngines
            \/ \E c \in Configs : UpdateConfig(c)
            \/ \E n : OptimizeForUTXOPatterns(n, RecentTransactions)
            \/ \E enable \in BOOLEAN : EnableAdaptiveCompression(enable)
            \/ UNCHANGED manager
        BY <1>1, Zenon DEF SelectionNext, Compress, SendCompressedMessage, ReceivePacket
      <3> QED
        BY <3>1, ManagerSteps DEF CompressionInv
    <2>2. \/ \E d \in Samples : \E type, option, busy, id : Compress(d, type, option, busy, id)
          \/ \E d \in Samples : \E type : SendCompressedMessage([type |-> type, payload |-> d])
          \/ ReceivePacket
          \/ UNCHANGED packet
      BY <1>1, Zenon DEF SelectionNext, RegisterAllEngines, UpdateConfig, OptimizeForUTXOPatterns, EnableAdaptiveCompression
    <2>3. UNCHANGED engineDictionaries
      BY <1>1, Zenon DEF SelectionNext, RegisterAllEngines, UpdateConfig, OptimizeForUTXOPatterns, EnableAdaptiveCompression,
                         Compress, SendCompressedMessage, ReceivePacket
    <2>4. DictionariesInv'
      BY <2>3, DictionariesStep DEF CompressionInv
    <2>5. PacketInv'
      BY <2>1, <2>2, PacketStep
    <2> QED
      BY <2>1, <2>4, <2>5 DEF CompressionInv, ManagerStep
  <1>2. CASE DictionariesNext
    <2>1. ManagerStep
      <3>1. \/ \E v : manager' = [manager EXCEPT !.algorithmCache = v]
            \/ RegisterAllEngines
            \/ UNCHANGED manager
        BY <1>2, Zenon DEF DictionariesNext, Compress, ReceivePacket, CreateDictionary, UpdateDictionary, DeleteDictionary
      <3> QED
        BY <3>1, ManagerSteps DEF CompressionInv
    <2>2. \/ \E d \in Samples : \E type, option, busy, id : Compress(d, type, option, busy, id)
          \/ ReceivePacket
          \/ UNCHANGED packet
      BY <1>2, Zenon DEF DictionariesNext, RegisterAllEngines, CreateDictionary, UpdateDictionary, DeleteDictionary
    <2>3. \/ \E id, now : \E d \in FirstSamples : CreateDictionary(id, d, now)
          \/ \E id : \E d \in FirstSamples : UpdateDictionary(id, d)
          \/ \E id : DeleteDictionary(id)
          \/ UNCHANGED engineDictionaries
      BY <1>2, Zenon DEF DictionariesNext, RegisterAllEngines, Compress, ReceivePacket
    <2>4. DictionariesInv'
      BY <2>3, DictionariesStep DEF CompressionInv
    <2>5. PacketInv'
      BY <2>1, <2>2, PacketStep
    <2> QED
      BY <2>1, <2>4, <2>5 DEF CompressionInv, ManagerStep
  <1>3. CASE UNCHANGED compressionVars
    <2>1. manager' = manager /\ engineDictionaries' = engineDictionaries /\ packet' = packet
      BY <1>3 DEF compressionVars
    <2> QED
      BY <2>1 DEF CompressionInv, DictionariesInv, PacketInv
  <1>4. SelectionNext \/ DictionariesNext \/ UNCHANGED compressionVars
    BY Zenon DEF AlgorithmsNext, Rest, DownloadsStep, algorithmVars
  <1> QED
    BY <1>1, <1>2, <1>3, <1>4

LEMMA TextStep ==
    ASSUME text \in Seq(Characters), [AlgorithmsNext]_algorithmVars
    PROVE  text' \in Seq(Characters)
  <1>1. Type \/ UNCHANGED text
    BY DEF AlgorithmsNext, Rest, DownloadsStep, samples, algorithmVars, AddOutput, AddTransaction
  <1>2. CASE Type
    <2>1. PICK c \in Characters : text' = Append(text, c)
      BY <1>2 DEF Type
    <2> QED
      BY <2>1
  <1> QED
    BY <1>1, <1>2

LEMMA OutputsStep ==
    ASSUME OutputsInv, [AlgorithmsNext]_algorithmVars
    PROVE  OutputsInv'
  <1>1. AddOutput \/ UNCHANGED outputs
    BY DEF AlgorithmsNext, Rest, DownloadsStep, samples, algorithmVars, Type, AddTransaction
  <1>2. CASE AddOutput
    <2>1. PICK amount \in OutputValues : \E address \in {"a", "b"} :
              outputs' = Append(outputs, [value |-> amount, address |-> address])
      BY <1>2, Zenon DEF AddOutput
    <2> PICK address \in {"a", "b"} : outputs' = Append(outputs, [value |-> amount, address |-> address])
      BY <2>1
    <2>2. amount \in Nat
      BY SMT DEF OutputValues
    <2>4. [value |-> amount, address |-> address] \in Payments
      BY <2>2 DEF Payments
    <2>3. Len(outputs) < 3
      BY <1>2 DEF AddOutput
    <2> QED
      BY <2>4, <2>3 DEF OutputsInv
  <1>3. CASE UNCHANGED outputs
    BY <1>3 DEF OutputsInv
  <1> QED
    BY <1>1, <1>2, <1>3

CodecsInv == text \in Seq(Characters) /\ OutputsInv /\ BlockInv /\ CompressionInv

(* What an engine compressed comes back: with the entries of whatever          *)
(* dictionary, through the compact forms of transactions and blocks but for    *)
(* what those leave out, and through the manager, whatever has been registered, *)
(* configured, cached, made, updated, evicted or deleted since                 *)
(* (compressWithDictionaryImpl, compressUTXOTransaction, compressUTXOBlock and  *)
(* their inverses, UTXOCompressionManager.compress and decompress).            *)
THEOREM CompressionSoundTheorem == AlgorithmsSpec => []CompressionSound
  <1>1. AlgorithmsInit => CodecsInv
    <2>1. ASSUME AlgorithmsInit
          PROVE  CodecsInv
      <3>1. text = <<>> /\ outputs = <<>> /\ block = EmptyBlock /\ CompressionInit
        BY <2>1 DEF AlgorithmsInit
      <3>2. text \in Seq(Characters) /\ OutputsInv /\ BlockInv
        BY <3>1 DEF OutputsInv, BlockInv, EmptyBlock
      <3>3. PICK c \in Configs : manager = [engines |-> {NONE}, config |-> c, algorithmCache |-> <<>>, utxoPatterns |-> -1, dictionaries |-> <<>>]
        BY <3>1, Zenon DEF CompressionInit
      <3>4. manager = ManagerWith({NONE}, c, <<>>, -1, <<>>)
        BY <3>3 DEF ManagerWith
      <3>5. manager.engines = {NONE} /\ manager.config = c
        BY <3>3
      <3>6. IsManager(manager)
        BY <3>4, <3>5 DEF IsManager, Algorithms
      <3>7. DictionariesInv
        BY <3>1 DEF CompressionInit, DictionariesInv
      <3>8. PacketInv
        BY <3>1, <3>6 DEF CompressionInit, PacketInv, IsManager
      <3> QED
        BY <3>2, <3>6, <3>7, <3>8 DEF CodecsInv, CompressionInv
    <2> QED
      BY <2>1
  <1>2. CodecsInv /\ [AlgorithmsNext]_algorithmVars => CodecsInv'
    BY TextStep, OutputsStep, BlockStep, CompressionStep DEF CodecsInv
  <1>3. CodecsInv => CompressionSound
    BY EveryDictionaryReads, TransactionKept, BlockKept, PacketNotGarbled DEF CodecsInv, CompressionInv, CompressionSound
  <1> QED
    BY <1>1, <1>2, <1>3, PTL DEF AlgorithmsSpec
=============================================================================
