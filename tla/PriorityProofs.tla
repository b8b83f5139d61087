---------------------------- MODULE PriorityProofs ----------------------------
(***************************************************************************)
(* Theorems about PriorityMesh, for any messages, limits and retries: the  *)
(* heap with its evictions, retries and restarts implements PriorityBuffer *)
(* (MostUrgentFirst), and the emergency mode has an end (EmergencyWillEnd). *)
(*                                                                         *)
(* The loops of the heap are iterations; what they keep is shown by an     *)
(* invariant for every number of rounds.                                   *)
(***************************************************************************)
EXTENDS PriorityMesh, FiniteSetTheorems, WellFoundedInduction, TLAPS

-----------------------------------------------------------------------------
(* Iterations.                                                             *)

LEMMA LeastNat ==
    ASSUME NEW T, T \subseteq Nat, T # {}
    PROVE  \E k \in T : \A j \in T : k <= j
  <1>1. PICK k \in T : \A j \in T : ~ (<<j, k>> \in OpToRel(<, Nat))
    BY WFMin, NatLessThanWellFounded
  <1>2. \A j \in T : ~ (j < k)
    BY <1>1 DEF OpToRel
  <1> QED
    BY <1>2

(* after has the states of the first n rounds.                             *)
Rounds(after, step, x, n) ==
    after = [k \in 0 .. n |-> IF k = 0 THEN x ELSE step[after[k - 1]]]

LEMMA RoundsExist ==
    ASSUME NEW step, NEW x, NEW n \in Nat
    PROVE  \E after : Rounds(after, step, x, n)
  <1> DEFINE Bad == {k \in Nat : ~ \E after : Rounds(after, step, x, k)}
  <1> SUFFICES ASSUME Bad # {}
               PROVE  FALSE
    OBVIOUS
  <1>1. PICK k \in Bad : \A j \in Bad : k <= j
    <2>1. Bad \subseteq Nat
      OBVIOUS
    <2> HIDE DEF Bad
    <2> QED
      BY <2>1, LeastNat
  <1>2. k \in Nat /\ ~ \E after : Rounds(after, step, x, k)
    OBVIOUS
  <1>3. k # 0
    <2>1. SUFFICES ASSUME k = 0
                   PROVE  \E after : Rounds(after, step, x, k)
      BY <1>2
    <2>2. PICK after : after = [j \in 0 .. 0 |-> x]
      OBVIOUS
    <2>3. Rounds(after, step, x, 0)
      BY <2>2 DEF Rounds
    <2> QED
      BY <2>1, <2>3
  <1>4. PICK before : Rounds(before, step, x, k - 1)
    <2>1. k - 1 \in Nat /\ ~(k <= k - 1)
      BY <1>2, <1>3
    <2>2. k - 1 \notin Bad
      BY <1>1, <2>1
    <2> QED
      BY <2>1, <2>2
  <1>5. PICK after : after = [j \in 0 .. k |-> IF j = k THEN step[before[k - 1]] ELSE before[j]]
    OBVIOUS
  <1>6. \A j \in 0 .. k : after[j] = IF j = 0 THEN x ELSE step[after[j - 1]]
    <2>1. ASSUME NEW j \in 0 .. k
          PROVE  after[j] = IF j = 0 THEN x ELSE step[after[j - 1]]
      <3>1. CASE j = k
        <4>1. after[k] = step[before[k - 1]]
          BY <1>2, <1>5
        <4>2. after[k - 1] = before[k - 1]
          BY <1>2, <1>3, <1>5
        <4> QED
          BY <1>3, <3>1, <4>1, <4>2
      <3>2. CASE j # k
        <4>1. j \in 0 .. k - 1 /\ (j # 0 => j - 1 \in 0 .. k - 1)
          BY <1>2, <3>2
        <4>2. before[j] = IF j = 0 THEN x ELSE step[before[j - 1]]
          BY <1>4, <4>1 DEF Rounds
        <4>3. after[j] = before[j]
          BY <1>5, <3>2
        <4>4. j # 0 => after[j - 1] = before[j - 1]
          BY <1>2, <1>5, <4>1
        <4> QED
          BY <4>2, <4>3, <4>4
      <3> QED
        BY <3>1, <3>2
    <2> QED
      BY <2>1
  <1>7. after = [j \in 0 .. k |-> after[j]]
    BY <1>5
  <1>8. Rounds(after, step, x, k)
    BY <1>6, <1>7 DEF Rounds
  <1> QED
    BY <1>2, <1>8

(* What holds at first, and after a round if it held before it, holds in   *)
(* the end; J has what is claimed after each number of rounds.             *)
LEMMA IteratedIn ==
    ASSUME NEW step, NEW x, NEW n \in Nat, NEW J,
           x \in J[0],
           \A k \in 0 .. n : k < n => \A s \in J[k] : step[s] \in J[k + 1]
    PROVE  Iterated(step, x, n) \in J[n]
  <1>1. PICK after : after = CHOOSE a : Rounds(a, step, x, n)
    OBVIOUS
  <1>2. Rounds(after, step, x, n)
    BY <1>1, RoundsExist
  <1>3. Iterated(step, x, n) = after[n]
    BY <1>1 DEF Iterated, Rounds
  <1> DEFINE Bad == {k \in 0 .. n : after[k] \notin J[k]}
  <1>4. ASSUME Bad # {}
        PROVE  FALSE
    <2>1. PICK k \in Bad : \A j \in Bad : k <= j
      <3>1. Bad \subseteq Nat
        OBVIOUS
      <3> HIDE DEF Bad
      <3> QED
        BY <1>4, <3>1, LeastNat
    <2>2. k \in 0 .. n /\ after[k] \notin J[k]
      OBVIOUS
    <2>3. after[k] = IF k = 0 THEN x ELSE step[after[k - 1]]
      BY <1>2, <2>2 DEF Rounds
    <2>4. k # 0
      BY <2>2, <2>3
    <2>5. k - 1 \in 0 .. n /\ k - 1 < n /\ (k - 1) + 1 = k /\ ~(k <= k - 1)
      BY <2>2, <2>4
    <2>6. after[k - 1] \in J[k - 1]
      BY <2>1, <2>5
    <2>7. step[after[k - 1]] \in J[k]
      BY <2>5, <2>6
    <2> QED
      BY <2>2, <2>3, <2>4, <2>7
  <1> QED
    BY <1>3, <1>4

-----------------------------------------------------------------------------
(* The heap.                                                               *)

(* h has the nodes W, each of them once.                                   *)
Lists(h, W) ==
    /\ h \in Seq(W)
    /\ \A x \in W : \E i \in DOMAIN h : h[i] = x
    /\ \A i, j \in DOMAIN h : h[i] = h[j] => i = j

Scored(W) == \A x \in W : x.score \in Int

Ordered(h) == \A j \in DOMAIN h : j > 1 => h[j \div 2].score <= h[j].score

LEMMA Halves ==
    /\ \A j \in Nat : j > 1 => j \div 2 \in Nat /\ j \div 2 >= 1 /\ j \div 2 < j
    /\ \A i, j \in Nat : j \div 2 = i <=> j = 2 * i \/ j = 2 * i + 1
  <1>1. ASSUME NEW j \in Nat
        PROVE  /\ j \div 2 \in Int /\ 2 * (j \div 2) <= j /\ j < 2 * (j \div 2) + 2
    OBVIOUS
  <1> QED
    BY <1>1

LEMMA ListFacts ==
    ASSUME NEW W, NEW h, Lists(h, W)
    PROVE  /\ Len(h) \in Nat /\ DOMAIN h = 1 .. Len(h)
           /\ \A i \in DOMAIN h : h[i] \in W
           /\ Range(h) = W
           /\ h = [i \in 1 .. Len(h) |-> h[i]]
  BY DEF Lists, Range

(* A sequence is what its positions say.                                   *)
LEMMA SequenceOf ==
    ASSUME NEW W, NEW n \in Nat, NEW h \in [1 .. n -> W]
    PROVE  h \in Seq(W) /\ Len(h) = n
  OBVIOUS

LEMMA SwapFacts ==
    ASSUME NEW W, NEW h, Lists(h, W), NEW a \in DOMAIN h, NEW b \in DOMAIN h, a # b,
           NEW g, g = HeapSwap(h, a, b)
    PROVE  /\ Lists(g, W) /\ Len(g) = Len(h) /\ DOMAIN g = DOMAIN h
           /\ g[a] = h[b] /\ g[b] = h[a]
           /\ \A j \in DOMAIN h : j # a /\ j # b => g[j] = h[j]
  <1>1. /\ DOMAIN g = DOMAIN h /\ g[a] = h[b] /\ g[b] = h[a]
        /\ \A j \in DOMAIN h : j # a /\ j # b => g[j] = h[j]
    BY DEF HeapSwap
  <1>2. \A j \in DOMAIN g : g[j] \in W
    BY <1>1, ListFacts
  <1>3. g = [i \in 1 .. Len(h) |-> g[i]]
    BY <1>1, ListFacts DEF HeapSwap
  <1>4. g \in Seq(W) /\ Len(g) = Len(h)
    <2>1. Len(h) \in Nat /\ DOMAIN g = 1 .. Len(h) /\ \A j \in 1 .. Len(h) : g[j] \in W
      BY <1>1, <1>2, ListFacts
    <2>2. g \in [1 .. Len(h) -> W]
      BY <1>3, <2>1
    <2> QED
      BY <2>1, <2>2, SequenceOf
  <1>5. \A x \in W : \E i \in DOMAIN g : g[i] = x
    BY <1>1 DEF Lists
  <1>6. \A i, j \in DOMAIN g : g[i] = g[j] => i = j
    BY <1>1 DEF Lists
  <1> QED
    BY <1>1, <1>4, <1>5, <1>6 DEF Lists

(* What a step of a loop keeps: the nodes, their number, and a position.   *)
Looping(s, h, W) ==
    /\ s = [heap |-> s.heap, at |-> s.at]
    /\ Lists(s.heap, W) /\ Len(s.heap) = Len(h)
    /\ s.at \in DOMAIN s.heap

(* A heap but for a node that may be too urgent for its place.             *)
TooLow(h, i) ==
    /\ \A j \in DOMAIN h : j > 1 /\ j # i => h[j \div 2].score <= h[j].score
    /\ \A j \in DOMAIN h : j > 1 /\ j \div 2 = i /\ i > 1 => h[i \div 2].score <= h[j].score

(* A heap but for a node that may not be urgent enough for its place.      *)
TooHigh(h, i) ==
    /\ \A j \in DOMAIN h : j > 1 /\ j \div 2 # i => h[j \div 2].score <= h[j].score
    /\ \A j \in DOMAIN h : j > 1 /\ j \div 2 = i /\ i > 1 => h[i \div 2].score <= h[j].score

LEMMA LoopingState ==
    ASSUME NEW W, NEW h, NEW f, Lists(f, W), Len(f) = Len(h), NEW p \in DOMAIN f,
           NEW t, t = [heap |-> f, at |-> p]
    PROVE  Looping(t, h, W) /\ t.heap = f /\ t.at = p
  BY DEF Looping

LEMMA UpStepKeeps ==
    ASSUME NEW W, Scored(W), NEW h, NEW s, Looping(s, h, W), TooLow(s.heap, s.at),
           NEW t, t = UpStep(s)
    PROVE  /\ Looping(t, h, W) /\ TooLow(t.heap, t.at)
           /\ (t = s /\ Ordered(s.heap)) \/ t.at < s.at
  <1>1. PICK i, g : i = s.at /\ g = s.heap
    OBVIOUS
  <1>2. /\ i \in DOMAIN g /\ DOMAIN g = 1 .. Len(g) /\ Len(g) \in Nat /\ Lists(g, W)
        /\ Len(g) = Len(h)
        /\ \A j \in DOMAIN g : g[j].score \in Int
    BY <1>1, ListFacts DEF Looping, Scored
  <1>3. CASE i = 1 \/ g[i \div 2].score <= g[i].score
    <2>1. t = s
      BY <1>1, <1>3 DEF UpStep
    <2>2. Ordered(g)
      BY <1>1, <1>3 DEF TooLow, Ordered
    <2> QED
      BY <1>1, <2>1, <2>2
  <1>4. CASE ~(i = 1 \/ g[i \div 2].score <= g[i].score)
    <2>1. PICK p : p = i \div 2
      OBVIOUS
    <2>2. p \in DOMAIN g /\ p < i /\ p \in Nat /\ i \in Nat
      BY <1>2, <1>4, <2>1, Halves
    <2>3. PICK f : f = HeapSwap(g, p, i)
      OBVIOUS
    <2>4. t = [heap |-> f, at |-> p]
      BY <1>1, <1>4, <2>1, <2>3 DEF UpStep
    <2>5. /\ Lists(f, W) /\ Len(f) = Len(g) /\ DOMAIN f = DOMAIN g
          /\ f[p] = g[i] /\ f[i] = g[p]
          /\ \A j \in DOMAIN g : j # p /\ j # i => f[j] = g[j]
      BY <1>2, <2>2, <2>3, SwapFacts
    <2>6. g[i].score < g[p].score
      BY <1>2, <1>4, <2>1, <2>2
    <2>7. /\ \A j \in DOMAIN g : j > 1 /\ j # i => g[j \div 2].score <= g[j].score
          /\ \A j \in DOMAIN g : j > 1 /\ j \div 2 = i /\ i > 1 => g[p].score <= g[j].score
      BY <1>1, <2>1 DEF TooLow
    <2>8. ASSUME NEW j \in DOMAIN f, j > 1, j # p
          PROVE  f[j \div 2].score <= f[j].score
      <3>1. j \div 2 \in DOMAIN g /\ j \div 2 # j /\ j \in DOMAIN g
        BY <1>2, <2>5, <2>8, Halves
      <3>2. CASE j = i
        BY <1>2, <2>1, <2>2, <2>5, <2>6, <3>2
      <3>3. CASE j # i /\ j \div 2 = i
        BY <1>2, <2>2, <2>5, <2>7, <2>8, <3>3
      <3>4. CASE j # i /\ j \div 2 = p
        <4>1. g[p].score <= g[j].score
          BY <2>7, <2>8, <3>1, <3>4
        <4>2. f[j \div 2] = g[i] /\ f[j] = g[j]
          BY <2>5, <2>8, <3>1, <3>4
        <4> QED
          BY <1>2, <2>2, <2>6, <3>1, <4>1, <4>2
      <3>5. CASE j # i /\ j \div 2 # i /\ j \div 2 # p
        BY <2>5, <2>7, <2>8, <3>1, <3>5
      <3> QED
        BY <3>2, <3>3, <3>4, <3>5
    <2>9. ASSUME NEW j \in DOMAIN f, j > 1, j \div 2 = p, p > 1
          PROVE  f[p \div 2].score <= f[j].score
      <3>1. p \div 2 \in DOMAIN g /\ p \div 2 # p /\ p \div 2 # i
        BY <1>2, <2>2, <2>9, Halves
      <3>2. g[p \div 2].score <= g[p].score /\ f[p \div 2] = g[p \div 2]
        BY <2>2, <2>5, <2>7, <2>9, <3>1
      <3>3. CASE j = i
        BY <2>5, <3>2, <3>3
      <3>4. CASE j # i
        <4>1. j # p /\ j \in DOMAIN g
          BY <1>2, <2>5, <2>9, Halves
        <4>2. g[p].score <= g[j].score /\ f[j] = g[j]
          BY <2>5, <2>7, <2>9, <3>4, <4>1
        <4> QED
          BY <1>2, <2>2, <3>1, <3>2, <4>1, <4>2
      <3> QED
        BY <3>3, <3>4
    <2>10. TooLow(f, p)
      BY <2>8, <2>9 DEF TooLow
    <2>11. Looping(t, h, W)
      BY <1>2, <2>2, <2>4, <2>5, LoopingState
    <2> QED
      BY <1>1, <2>2, <2>4, <2>10, <2>11
  <1> QED
    BY <1>3, <1>4

LEMMA LoopingIn ==
    ASSUME NEW W, NEW h, Lists(h, W), NEW s, Looping(s, h, W)
    PROVE  s \in Positions(h)
  <1>1. Range(h) = W
    BY ListFacts
  <1>2. Lists(s.heap, W) /\ s.at \in DOMAIN s.heap /\ s = [heap |-> s.heap, at |-> s.at]
    BY DEF Looping
  <1>3. s.heap \in Seq(W)
    BY <1>2 DEF Lists
  <1>4. s.at \in Nat
    BY <1>2, ListFacts
  <1> QED
    BY <1>1, <1>2, <1>3, <1>4 DEF Positions

LEMMA HeapifyUpFacts ==
    ASSUME NEW W, Scored(W), NEW h, Lists(h, W), NEW i \in DOMAIN h, TooLow(h, i),
           NEW g, g = HeapifyUp(h, i)
    PROVE  Lists(g, W) /\ Len(g) = Len(h) /\ Ordered(g)
  <1> DEFINE Claim(s, k) == /\ Looping(s, h, W) /\ TooLow(s.heap, s.at)
                            /\ (Ordered(s.heap) /\ UpStep(s) = s) \/ s.at <= i - k
  <1>1. PICK J : J = [k \in 0 .. i |-> {s \in Positions(h) : Claim(s, k)}]
    OBVIOUS
  <1>2. PICK step : step = [s \in Positions(h) |-> UpStep(s)]
    OBVIOUS
  <1>3. PICK x : x = [heap |-> h, at |-> i]
    OBVIOUS
  <1>4. i \in Nat /\ 0 \in 0 .. i /\ i \in 0 .. i
    BY ListFacts
  <1>5. x \in J[0]
    <2>1. Looping(x, h, W) /\ x.heap = h /\ x.at = i
      BY <1>3, LoopingState
    <2>2. Claim(x, 0)
      BY <1>4, <2>1
    <2> QED
      BY <1>1, <1>4, <2>1, <2>2, LoopingIn
  <1>6. ASSUME NEW k \in 0 .. i, k < i, NEW s \in J[k]
        PROVE  step[s] \in J[k + 1]
    <2>1. s \in Positions(h) /\ Claim(s, k)
      BY <1>1
    <2>2. PICK t : t = UpStep(s)
      OBVIOUS
    <2>3. step[s] = t
      BY <1>2, <2>1, <2>2
    <2>4. /\ Looping(t, h, W) /\ TooLow(t.heap, t.at)
          /\ (t = s /\ Ordered(s.heap)) \/ t.at < s.at
      BY <2>1, <2>2, UpStepKeeps
    <2>5. s.at \in Nat /\ t.at \in Nat /\ k \in Nat /\ k + 1 \in 0 .. i
      BY <1>4, <1>6, <2>1, <2>4, ListFacts DEF Looping
    <2>6. (Ordered(t.heap) /\ UpStep(t) = t) \/ t.at <= i - (k + 1)
      BY <1>4, <2>1, <2>2, <2>4, <2>5
    <2>7. t \in Positions(h)
      BY <2>4, LoopingIn
    <2> QED
      BY <1>1, <2>3, <2>4, <2>5, <2>6, <2>7
  <1>7. Iterated(step, x, i) \in J[i]
    BY <1>4, <1>5, <1>6, IteratedIn
  <1>8. PICK last : last = Iterated(step, x, i)
    OBVIOUS
  <1>9. Claim(last, i) /\ g = last.heap
    BY <1>1, <1>2, <1>3, <1>4, <1>7, <1>8 DEF HeapifyUp
  <1>10. last.at >= 1 /\ last.at \in Nat
    BY <1>9, ListFacts DEF Looping
  <1> QED
    BY <1>4, <1>9, <1>10 DEF Looping

LEMMA MinIn ==
    ASSUME NEW S, S \subseteq Nat, S # {}
    PROVE  Min(S) \in S /\ \A y \in S : Min(S) <= y
  <1>1. \E x \in S : \A y \in S : x <= y
    BY LeastNat
  <1> QED
    BY <1>1 DEF Min

(* The child that heapify goes to: the more urgent one of those that are   *)
(* more urgent than their parent.                                          *)
LEMMA LeastChild ==
    ASSUME NEW h, NEW i \in DOMAIN h, DOMAIN h \subseteq Nat, \A j \in DOMAIN h : h[j].score \in Int,
           Smaller(h, i) # {},
           NEW c, c = Min({k \in Smaller(h, i) :
                              \A d \in Smaller(h, i) : h[k].score <= h[d].score})
    PROVE  /\ c \in DOMAIN h /\ c \div 2 = i
           /\ h[c].score < h[i].score
           /\ \A j \in DOMAIN h : j \div 2 = i => h[c].score <= h[j].score
  <1>1. PICK L : L = {k \in Smaller(h, i) : \A d \in Smaller(h, i) : h[k].score <= h[d].score}
    OBVIOUS
  <1>2. /\ Smaller(h, i) \subseteq DOMAIN h
        /\ \A k \in Smaller(h, i) : (k = 2 * i \/ k = 2 * i + 1) /\ h[k].score < h[i].score
        /\ \A j \in DOMAIN h : j = 2 * i \/ j = 2 * i + 1 =>
              j \in Smaller(h, i) \/ ~(h[j].score < h[i].score)
    BY DEF Smaller
  <1>3. L # {}
    <2>1. PICK a : a \in Smaller(h, i)
      OBVIOUS
    <2>2. CASE a \in L
      BY <2>2
    <2>3. CASE a \notin L
      <3>1. PICK d \in Smaller(h, i) : ~(h[a].score <= h[d].score)
        BY <1>1, <2>1, <2>3
      <3>2. h[d].score < h[a].score /\ h[a].score \in Int /\ h[d].score \in Int
        BY <1>2, <2>1, <3>1
      <3>3. \A k \in Smaller(h, i) : k = a \/ k = d
        BY <1>2, <2>1, <3>2
      <3>4. d \in L
        BY <1>1, <3>2, <3>3
      <3> QED
        BY <3>4
    <2> QED
      BY <2>2, <2>3
  <1>4. c \in L
    BY <1>1, <1>2, <1>3, MinIn
  <1>5. c \in Smaller(h, i) /\ \A d \in Smaller(h, i) : h[c].score <= h[d].score
    BY <1>1, <1>4
  <1>6. c \in DOMAIN h /\ (c = 2 * i \/ c = 2 * i + 1) /\ h[c].score < h[i].score
    BY <1>2, <1>5
  <1>7. c \div 2 = i
    BY <1>6, Halves
  <1>8. ASSUME NEW j \in DOMAIN h, j \div 2 = i
        PROVE  h[c].score <= h[j].score
    <2>1. j = 2 * i \/ j = 2 * i + 1
      BY <1>8, Halves
    <2>2. CASE j \in Smaller(h, i)
      BY <1>5, <2>2
    <2>3. CASE ~(h[j].score < h[i].score)
      BY <1>6, <2>3
    <2> QED
      BY <1>2, <2>1, <2>2, <2>3
  <1> QED
    BY <1>6, <1>7, <1>8

LEMMA DownStepKeeps ==
    ASSUME NEW W, Scored(W), NEW h, NEW s, Looping(s, h, W), TooHigh(s.heap, s.at),
           NEW t, t = DownStep(s)
    PROVE  /\ Looping(t, h, W) /\ TooHigh(t.heap, t.at)
           /\ (t = s /\ Ordered(s.heap)) \/ t.at > s.at
  <1>1. PICK i, g : i = s.at /\ g = s.heap
    OBVIOUS
  <1>2. /\ i \in DOMAIN g /\ DOMAIN g = 1 .. Len(g) /\ Len(g) \in Nat /\ Lists(g, W)
        /\ Len(g) = Len(h)
        /\ \A j \in DOMAIN g : g[j].score \in Int
    BY <1>1, ListFacts DEF Looping, Scored
  <1>3. DOMAIN g \subseteq Nat
    BY <1>2
  <1>4. /\ \A j \in DOMAIN g : j > 1 /\ j \div 2 # i => g[j \div 2].score <= g[j].score
        /\ \A j \in DOMAIN g : j > 1 /\ j \div 2 = i /\ i > 1 => g[i \div 2].score <= g[j].score
    BY <1>1 DEF TooHigh
  <1>5. CASE Smaller(g, i) = {}
    <2>1. t = s
      BY <1>1, <1>5 DEF DownStep
    <2>2. ASSUME NEW j \in DOMAIN g, j > 1
          PROVE  g[j \div 2].score <= g[j].score
      <3>1. CASE j \div 2 = i
        <4>1. j = 2 * i \/ j = 2 * i + 1
          BY <1>3, <3>1, Halves
        <4>2. ~(g[j].score < g[i].score)
          BY <1>5, <4>1 DEF Smaller
        <4> QED
          BY <1>2, <3>1, <4>2
      <3>2. CASE j \div 2 # i
        BY <1>4, <2>2, <3>2
      <3> QED
        BY <3>1, <3>2
    <2> QED
      BY <1>1, <2>1, <2>2 DEF Ordered
  <1>6. CASE Smaller(g, i) # {}
    <2>1. PICK c : c = Min({k \in Smaller(g, i) :
                               \A d \in Smaller(g, i) : g[k].score <= g[d].score})
      OBVIOUS
    <2>2. /\ c \in DOMAIN g /\ c \div 2 = i
          /\ g[c].score < g[i].score
          /\ \A j \in DOMAIN g : j \div 2 = i => g[c].score <= g[j].score
      BY <1>2, <1>3, <1>6, <2>1, LeastChild
    <2>3. c > i /\ c > 1 /\ c \in Nat /\ i \in Nat /\ i >= 1
      BY <1>2, <1>3, <2>2, Halves
    <2>4. PICK f : f = HeapSwap(g, i, c)
      OBVIOUS
    <2>5. t = [heap |-> f, at |-> c]
      BY <1>1, <1>6, <2>1, <2>4 DEF DownStep
    <2>6. /\ Lists(f, W) /\ Len(f) = Len(g) /\ DOMAIN f = DOMAIN g
          /\ f[i] = g[c] /\ f[c] = g[i]
          /\ \A j \in DOMAIN g : j # i /\ j # c => f[j] = g[j]
      BY <1>2, <2>2, <2>3, <2>4, SwapFacts
    <2>7. ASSUME NEW j \in DOMAIN f, j > 1, j \div 2 # c
          PROVE  f[j \div 2].score <= f[j].score
      <3>1. j \div 2 \in DOMAIN g /\ j \div 2 # j /\ j \in DOMAIN g
        BY <1>2, <2>6, <2>7, Halves
      <3>2. CASE j = c
        BY <1>2, <2>2, <2>6, <3>2
      <3>3. CASE j # c /\ j \div 2 = i
        BY <2>2, <2>6, <3>1, <3>3
      <3>4. CASE j = i
        <4>1. g[i \div 2].score <= g[c].score
          BY <1>4, <2>2, <2>3, <2>7, <3>4
        <4>2. f[i \div 2] = g[i \div 2]
          BY <2>6, <2>7, <3>1, <3>4
        <4> QED
          BY <2>6, <3>4, <4>1, <4>2
      <3>5. CASE j # c /\ j # i /\ j \div 2 # i
        BY <1>4, <2>6, <2>7, <3>1, <3>5
      <3> QED
        BY <3>2, <3>3, <3>4, <3>5
    <2>8. ASSUME NEW j \in DOMAIN f, j > 1, j \div 2 = c
          PROVE  f[c \div 2].score <= f[j].score
      <3>1. j \in DOMAIN g /\ j > c
        BY <1>3, <2>6, <2>8, Halves
      <3>2. j # i /\ j # c /\ j \div 2 # i
        BY <1>3, <2>3, <2>8, <3>1
      <3>3. g[c].score <= g[j].score
        BY <1>4, <2>8, <3>1, <3>2
      <3> QED
        BY <2>2, <2>6, <3>1, <3>2, <3>3
    <2>9. TooHigh(f, c)
      BY <2>7, <2>8 DEF TooHigh
    <2>10. Looping(t, h, W)
      <3>1. Lists(f, W) /\ Len(f) = Len(h) /\ c \in DOMAIN f
        BY <1>2, <2>2, <2>6
      <3> QED
        BY <2>5, <3>1, LoopingState
    <2> QED
      BY <1>1, <2>3, <2>5, <2>9, <2>10
  <1> QED
    BY <1>5, <1>6

LEMMA HeapifyDownFacts ==
    ASSUME NEW W, Scored(W), NEW h, Lists(h, W), NEW i \in DOMAIN h, TooHigh(h, i),
           NEW g, g = HeapifyDown(h, i)
    PROVE  Lists(g, W) /\ Len(g) = Len(h) /\ Ordered(g)
  <1>1. PICK n : n = Len(h)
    OBVIOUS
  <1> DEFINE Claim(s, k) == /\ Looping(s, h, W) /\ TooHigh(s.heap, s.at)
                            /\ (Ordered(s.heap) /\ DownStep(s) = s) \/ s.at > k
  <1>2. PICK J : J = [k \in 0 .. n |-> {s \in Positions(h) : Claim(s, k)}]
    OBVIOUS
  <1>3. PICK step : step = [s \in Positions(h) |-> DownStep(s)]
    OBVIOUS
  <1>4. PICK x : x = [heap |-> h, at |-> i]
    OBVIOUS
  <1>5. i \in Nat /\ i > 0 /\ n \in Nat /\ 0 \in 0 .. n /\ n \in 0 .. n
    BY <1>1, ListFacts
  <1>6. x \in J[0]
    <2>1. Looping(x, h, W) /\ x.heap = h /\ x.at = i
      BY <1>4, LoopingState
    <2>2. Claim(x, 0)
      BY <1>5, <2>1
    <2> QED
      BY <1>2, <1>5, <2>1, <2>2, LoopingIn
  <1>7. ASSUME NEW k \in 0 .. n, k < n, NEW s \in J[k]
        PROVE  step[s] \in J[k + 1]
    <2>1. s \in Positions(h) /\ Claim(s, k)
      BY <1>2
    <2>2. PICK t : t = DownStep(s)
      OBVIOUS
    <2>3. step[s] = t
      BY <1>3, <2>1, <2>2
    <2>4. /\ Looping(t, h, W) /\ TooHigh(t.heap, t.at)
          /\ (t = s /\ Ordered(s.heap)) \/ t.at > s.at
      BY <2>1, <2>2, DownStepKeeps
    <2>5. s.at \in Nat /\ t.at \in Nat /\ k \in Nat /\ k + 1 \in 0 .. n
      BY <1>5, <1>7, <2>1, <2>4, ListFacts DEF Looping
    <2>6. (Ordered(t.heap) /\ DownStep(t) = t) \/ t.at > k + 1
      BY <2>1, <2>2, <2>4, <2>5
    <2>7. t \in Positions(h)
      BY <2>4, LoopingIn
    <2> QED
      BY <1>2, <2>3, <2>4, <2>5, <2>6, <2>7
  <1>8. Iterated(step, x, n) \in J[n]
    BY <1>5, <1>6, <1>7, IteratedIn
  <1>9. PICK last : last = Iterated(step, x, n)
    OBVIOUS
  <1>10. Claim(last, n) /\ g = last.heap
    BY <1>1, <1>2, <1>3, <1>4, <1>5, <1>8, <1>9 DEF HeapifyDown
  <1>11. ~(last.at > n)
    BY <1>1, <1>5, <1>10, ListFacts DEF Looping
  <1> QED
    BY <1>10, <1>11 DEF Looping


(* An iteration of a step that changes nothing changes nothing.            *)
LEMMA IteratedFixed ==
    ASSUME NEW step, NEW x, NEW n \in Nat, step[x] = x
    PROVE  Iterated(step, x, n) = x
  <1>1. PICK J : J = [k \in 0 .. n |-> {x}]
    OBVIOUS
  <1>2. x \in J[0]
    BY <1>1
  <1>3. \A k \in 0 .. n : k < n => \A s \in J[k] : step[s] \in J[k + 1]
    BY <1>1
  <1>4. Iterated(step, x, n) \in J[n]
    BY <1>2, <1>3, IteratedIn
  <1> QED
    BY <1>1, <1>4

(* A heap's order, whatever its nodes.                                     *)
HeapOf(h, W) == Lists(h, W) /\ Ordered(h)

LEMMA InsertFacts ==
    ASSUME NEW W, Scored(W), NEW h, HeapOf(h, W), NEW node, node.score \in Int, node \notin W,
           NEW g, g = HeapInsert(h, node)
    PROVE  HeapOf(g, W \cup {node}) /\ Len(g) = Len(h) + 1
  <1>1. PICK f, V, n : f = Append(h, node) /\ V = W \cup {node} /\ n = Len(h)
    OBVIOUS
  <1>2. /\ n \in Nat /\ DOMAIN h = 1 .. n /\ h \in Seq(W) /\ Lists(h, W)
        /\ \A i \in DOMAIN h : h[i] \in W
    BY <1>1, ListFacts DEF HeapOf, Lists
  <1>3. h \in Seq(V)
    BY <1>1, <1>2
  <1>4. /\ f \in Seq(V) /\ Len(f) = n + 1 /\ DOMAIN f = 1 .. n + 1
        /\ f[n + 1] = node /\ \A i \in 1 .. n : f[i] = h[i]
    BY <1>1, <1>2, <1>3
  <1>5. \A x \in V : \E i \in DOMAIN f : f[i] = x
    <2>1. \A x \in W : \E i \in 1 .. n : f[i] = x
      BY <1>2, <1>4 DEF Lists
    <2> QED
      BY <1>1, <1>2, <1>4, <2>1
  <1>6. \A i, j \in DOMAIN f : f[i] = f[j] => i = j
    <2>1. \A i, j \in 1 .. n : f[i] = f[j] => i = j
      BY <1>2, <1>4 DEF Lists
    <2>2. \A i \in 1 .. n : f[i] # f[n + 1]
      BY <1>2, <1>4
    <2> QED
      BY <1>2, <1>4, <2>1, <2>2
  <1>7. Lists(f, V)
    BY <1>4, <1>5, <1>6 DEF Lists
  <1>8. Scored(V)
    BY <1>1 DEF Scored
  <1>9. TooLow(f, n + 1)
    <2>1. ASSUME NEW j \in DOMAIN f, j > 1, j # n + 1
          PROVE  f[j \div 2].score <= f[j].score
      <3>1. j \in DOMAIN h /\ j \div 2 \in DOMAIN h
        BY <1>2, <1>4, <2>1, Halves
      <3>2. h[j \div 2].score <= h[j].score
        BY <2>1, <3>1 DEF HeapOf, Ordered
      <3> QED
        BY <1>2, <1>4, <3>1, <3>2
    <2>2. \A j \in DOMAIN f : j > 1 => j \div 2 # n + 1
      <3>1. \A j \in DOMAIN f : j \in Nat /\ ~(j < j) /\ j <= n + 1
        BY <1>2, <1>4
      <3>2. \A j \in DOMAIN f : j > 1 => j \div 2 < j
        BY <3>1, Halves
      <3> QED
        BY <1>2, <3>1, <3>2
    <2> QED
      BY <2>1, <2>2 DEF TooLow
  <1>10. g = HeapifyUp(f, n + 1)
    BY <1>1 DEF HeapInsert
  <1>11. n + 1 \in DOMAIN f
    BY <1>2, <1>4
  <1>12. Lists(g, V) /\ Len(g) = Len(f) /\ Ordered(g)
    BY <1>7, <1>8, <1>9, <1>10, <1>11, HeapifyUpFacts
  <1> QED
    BY <1>1, <1>4, <1>12 DEF HeapOf

Fronted(f, h, W) ==
    /\ f \in Seq(W) /\ Len(f) = Len(h) - 1 /\ DOMAIN f = 1 .. Len(h) - 1
    /\ \A j \in 1 .. Len(h) - 1 : f[j] = h[j]
    /\ Last(h) = h[Len(h)]

LEMMA FrontFacts ==
    ASSUME NEW W, NEW h, Lists(h, W), h # <<>>, NEW f, f = Front(h)
    PROVE  Fronted(f, h, W)
  <1>1. h \in Seq(W) /\ Len(h) \in Nat /\ DOMAIN h = 1 .. Len(h) /\ \A i \in DOMAIN h : h[i] \in W
    BY ListFacts DEF Lists
  <1>2. Len(h) >= 1
    BY <1>1
  <1> QED
    BY <1>1, <1>2 DEF Front, Last, Fronted

(* The node at i is gone, the last one is in its place.                    *)
Holed(h, i) == [Front(h) EXCEPT ![i] = Last(h)]

Filled(f, h, i, W) ==
    /\ Lists(f, W \ {h[i]}) /\ Len(f) = Len(h) - 1 /\ DOMAIN f = 1 .. Len(h) - 1
    /\ f[i] = h[Len(h)] /\ i \in DOMAIN f
    /\ \A j \in 1 .. Len(h) - 1 : j # i => f[j] = h[j]

LEMMA HoleFacts ==
    ASSUME NEW W, NEW h, Lists(h, W), NEW i \in DOMAIN h, i < Len(h),
           NEW f, f = Holed(h, i)
    PROVE  Filled(f, h, i, W)
  <1>1. PICK n, V, e : n = Len(h) /\ V = W \ {h[i]} /\ e = Front(h)
    OBVIOUS
  <1>2. n \in Nat /\ DOMAIN h = 1 .. n /\ \A j \in DOMAIN h : h[j] \in W
    BY <1>1, ListFacts
  <1>3. h # <<>>
    BY <1>2
  <1>4. /\ e \in Seq(W) /\ Len(e) = n - 1 /\ DOMAIN e = 1 .. n - 1
        /\ \A j \in 1 .. n - 1 : e[j] = h[j]
        /\ Last(h) = h[n]
    <2>1. Fronted(e, h, W)
      BY <1>1, <1>3, FrontFacts
    <2> QED
      BY <1>1, <2>1 DEF Fronted
  <1>5. i \in 1 .. n - 1 /\ n \in 1 .. n /\ n - 1 \in Nat
    BY <1>1, <1>2
  <1>6. /\ DOMAIN f = 1 .. n - 1 /\ f = [j \in 1 .. n - 1 |-> f[j]]
        /\ f[i] = h[n] /\ \A j \in 1 .. n - 1 : j # i => f[j] = h[j]
    BY <1>1, <1>4, <1>5 DEF Holed
  <1>7. \A j, k \in 1 .. n : h[j] = h[k] => j = k
    BY <1>2 DEF Lists
  <1>8. \A j \in 1 .. n - 1 : f[j] \in V
    BY <1>1, <1>2, <1>5, <1>6, <1>7
  <1>9. f \in Seq(V) /\ Len(f) = n - 1
    <2>1. PICK l : l = n - 1
      OBVIOUS
    <2>2. /\ l \in Nat /\ DOMAIN f = 1 .. l /\ f = [j \in 1 .. l |-> f[j]]
          /\ \A j \in 1 .. l : f[j] \in V
      BY <1>5, <1>6, <1>8, <2>1
    <2>3. f \in [1 .. l -> V]
      BY <2>2
    <2> QED
      BY <2>1, <2>2, <2>3, SequenceOf
  <1>10. \A x \in V : \E j \in DOMAIN f : f[j] = x
    <2>1. ASSUME NEW x \in V
          PROVE  \E j \in DOMAIN f : f[j] = x
      <3>1. PICK j \in 1 .. n : h[j] = x /\ j # i
        BY <1>1, <1>2 DEF Lists
      <3>2. CASE j = n
        BY <1>5, <1>6, <3>1, <3>2
      <3>3. CASE j # n
        BY <1>2, <1>6, <3>1, <3>3
      <3> QED
        BY <3>2, <3>3
    <2> QED
      BY <2>1
  <1>11. \A j, k \in DOMAIN f : f[j] = f[k] => j = k
    <2>1. \A j \in 1 .. n - 1 : j \in 1 .. n /\ j # n
      BY <1>2
    <2> QED
      BY <1>5, <1>6, <1>7, <2>1
  <1> QED
    BY <1>1, <1>5, <1>6, <1>9, <1>10, <1>11 DEF Lists, Filled

(* The hole in a heap: whatever fills it fits below the node above it, or  *)
(* above the nodes below it.                                               *)
LEMMA HoleOrder ==
    ASSUME NEW W, Scored(W), NEW h, HeapOf(h, W), NEW i \in DOMAIN h, i < Len(h),
           NEW f, f = Holed(h, i)
    PROVE  /\ i = 1 \/ f[i \div 2].score <= f[i].score => TooHigh(f, i)
           /\ i > 1 /\ ~(f[i \div 2].score <= f[i].score) => TooLow(f, i)
  <1>1. PICK n : n = Len(h)
    OBVIOUS
  <1>2. Lists(h, W) /\ n \in Nat /\ DOMAIN h = 1 .. n /\ \A j \in DOMAIN h : h[j].score \in Int
    BY <1>1, ListFacts DEF HeapOf, Scored
  <1>3. /\ DOMAIN f = 1 .. n - 1 /\ f[i] = h[n] /\ i \in DOMAIN f
        /\ \A j \in 1 .. n - 1 : j # i => f[j] = h[j]
    <2>1. Filled(f, h, i, W)
      BY <1>2, HoleFacts
    <2> QED
      BY <1>1, <2>1 DEF Filled
  <1>4. \A j \in 1 .. n : j > 1 => h[j \div 2].score <= h[j].score
    BY <1>2 DEF HeapOf, Ordered
  <1>5. i \in Nat /\ i >= 1 /\ i <= n - 1 /\ n \in 1 .. n
    BY <1>2, <1>3
  <1>6. ASSUME NEW j \in DOMAIN f, j > 1, j # i, j \div 2 # i
        PROVE  f[j \div 2].score <= f[j].score
    <2>1. j \in 1 .. n /\ j \div 2 \in 1 .. n - 1
      BY <1>2, <1>3, <1>6, Halves
    <2> QED
      BY <1>3, <1>4, <1>6, <2>1
  <1>7. ASSUME NEW j \in DOMAIN f, j > 1, j \div 2 = i
        PROVE  /\ h[i].score <= f[j].score /\ j # i
               /\ f[j].score \in Int
               /\ i > 1 => f[i \div 2].score <= f[j].score
    <2>1. j \in 1 .. n /\ j # i
      BY <1>2, <1>3, <1>7, Halves
    <2>2. h[i].score <= h[j].score /\ f[j] = h[j]
      BY <1>3, <1>4, <1>7, <2>1
    <2>3. ASSUME i > 1
          PROVE  f[i \div 2].score <= f[j].score
      <3>1. i \div 2 \in 1 .. n - 1 /\ i \div 2 # i /\ i \div 2 \in 1 .. n
        BY <1>2, <1>5, <2>3, Halves
      <3>2. f[i \div 2] = h[i \div 2] /\ h[i \div 2].score <= h[i].score
        BY <1>2, <1>3, <1>4, <2>3, <3>1
      <3>3. h[i \div 2].score \in Int /\ h[i].score \in Int /\ h[j].score \in Int
        BY <1>2, <2>1, <3>1
      <3> QED
        BY <2>2, <3>2, <3>3
    <2> QED
      BY <1>2, <2>1, <2>2, <2>3
  <1>8. ASSUME i = 1 \/ f[i \div 2].score <= f[i].score
        PROVE  TooHigh(f, i)
    BY <1>6, <1>7, <1>8 DEF TooHigh
  <1>9. ASSUME i > 1, ~(f[i \div 2].score <= f[i].score)
        PROVE  TooLow(f, i)
    <2>1. ASSUME NEW j \in DOMAIN f, j > 1, j \div 2 = i
          PROVE  f[i].score <= f[j].score
      <3>1. f[i \div 2].score <= f[j].score /\ f[j].score \in Int
        BY <1>7, <1>9, <2>1
      <3>2. i \div 2 \in 1 .. n - 1 /\ i \div 2 # i /\ i \div 2 \in 1 .. n
        BY <1>2, <1>5, <1>9, Halves
      <3>3. f[i \div 2].score \in Int /\ f[i].score \in Int
        BY <1>2, <1>3, <1>5, <3>2
      <3> QED
        BY <1>9, <3>1, <3>3
    <2> QED
      BY <1>6, <1>7, <1>9, <2>1 DEF TooLow
  <1> QED
    BY <1>8, <1>9


LEMMA RemoveAtFacts ==
    ASSUME NEW W, Scored(W), NEW h, HeapOf(h, W), NEW i \in DOMAIN h,
           NEW g, g = HeapRemoveAt(h, i)
    PROVE  HeapOf(g, W \ {h[i]}) /\ Len(g) = Len(h) - 1
  <1>1. Lists(h, W) /\ Len(h) \in Nat /\ DOMAIN h = 1 .. Len(h)
    BY ListFacts DEF HeapOf
  <1>2. PICK V : V = W \ {h[i]}
    OBVIOUS
  <1>3. Scored(V)
    BY <1>2 DEF Scored
  <1>4. CASE i = Len(h)
    <2>1. g = Front(h)
      BY <1>4 DEF HeapRemoveAt
    <2>2. h # <<>>
      BY <1>1
    <2>3. /\ g \in Seq(W) /\ Len(g) = Len(h) - 1 /\ DOMAIN g = 1 .. Len(h) - 1
          /\ \A j \in 1 .. Len(h) - 1 : g[j] = h[j]
      <3>1. Fronted(g, h, W)
        BY <1>1, <2>1, <2>2, FrontFacts
      <3> QED
        BY <3>1 DEF Fronted
    <2>4. PICK n : n = Len(h) - 1
      OBVIOUS
    <2>5. n \in Nat /\ i = n + 1 /\ DOMAIN h = 1 .. n + 1
      BY <1>1, <1>4, <2>4
    <2>6. DOMAIN g = 1 .. n /\ Len(g) = n /\ \A j \in 1 .. n : g[j] = h[j] /\ g[j] \in V
      <3>1. \A j \in 1 .. n : j \in DOMAIN h /\ j # i
        BY <2>5
      <3>2. \A j \in 1 .. n : h[j] # h[i] /\ h[j] \in W
        BY <1>1, <3>1, ListFacts DEF Lists
      <3> QED
        BY <1>2, <2>3, <2>4, <3>2
    <2>7. g \in Seq(V)
      <3>1. g = [j \in 1 .. n |-> g[j]]
        BY <2>3, <2>4
      <3>2. g \in [1 .. n -> V]
        BY <2>6, <3>1
      <3> QED
        BY <2>5, <3>2, SequenceOf
    <2>8. \A x \in V : \E j \in DOMAIN g : g[j] = x
      <3>1. ASSUME NEW x \in V
            PROVE  \E j \in DOMAIN g : g[j] = x
        <4>1. PICK j \in DOMAIN h : h[j] = x
          BY <1>1, <1>2 DEF Lists
        <4>2. j \in 1 .. n
          BY <1>2, <2>5, <4>1
        <4> QED
          BY <2>6, <4>1, <4>2
      <3> QED
        BY <3>1
    <2>9. \A j, k \in DOMAIN g : g[j] = g[k] => j = k
      <3>1. \A j \in 1 .. n : j \in DOMAIN h
        BY <2>5
      <3> QED
        BY <1>1, <2>6, <3>1 DEF Lists
    <2>10. \A j \in DOMAIN g : j > 1 => g[j \div 2].score <= g[j].score
      <3>1. \A j \in 1 .. n : j > 1 => j \div 2 \in 1 .. n
        BY <2>5, Halves
      <3>2. \A j \in 1 .. n : j \in DOMAIN h
        BY <2>5
      <3> QED
        BY <2>6, <3>1, <3>2 DEF HeapOf, Ordered
    <2> QED
      BY <1>2, <2>4, <2>6, <2>7, <2>8, <2>9, <2>10 DEF HeapOf, Lists, Ordered
  <1>5. CASE i # Len(h)
    <2>1. i < Len(h) /\ i \in Nat /\ i >= 1
      BY <1>1, <1>5
    <2>2. PICK f : f = Holed(h, i)
      OBVIOUS
    <2>3. Lists(f, V) /\ Len(f) = Len(h) - 1 /\ i \in DOMAIN f /\ DOMAIN f = 1 .. Len(h) - 1
      <3>1. Filled(f, h, i, W)
        BY <1>1, <2>1, <2>2, HoleFacts
      <3> QED
        BY <1>2, <3>1 DEF Filled
    <2>4. PICK u : u = HeapifyUp(f, i)
      OBVIOUS
    <2>5. g = HeapifyDown(u, i)
      BY <1>5, <2>2, <2>4 DEF HeapRemoveAt, Heapify, Holed
    <2>6. Lists(u, V) /\ Len(u) = Len(f) /\ TooHigh(u, i)
      <3>1. CASE i = 1 \/ f[i \div 2].score <= f[i].score
        <4>1. TooHigh(f, i)
          BY <2>1, <2>2, <3>1, HoleOrder
        <4>2. PICK x, step : /\ x = [heap |-> f, at |-> i]
                             /\ step = [s \in Positions(f) |-> UpStep(s)]
          OBVIOUS
        <4>3. x \in Positions(f)
          <5>1. Looping(x, f, V)
            BY <2>3, <4>2, LoopingState
          <5> QED
            BY <2>3, <5>1, LoopingIn
        <4>4. UpStep(x) = x
          BY <3>1, <4>2 DEF UpStep
        <4>5. Iterated(step, x, i) = x
          BY <2>1, <4>2, <4>3, <4>4, IteratedFixed
        <4>6. u = f
          BY <2>4, <4>2, <4>5 DEF HeapifyUp
        <4> QED
          BY <2>3, <4>1, <4>6
      <3>2. CASE ~(i = 1 \/ f[i \div 2].score <= f[i].score)
        <4>1. TooLow(f, i)
          <5>1. i > 1 /\ ~(f[i \div 2].score <= f[i].score)
            BY <2>1, <3>2
          <5> QED
            BY <2>1, <2>2, <5>1, HoleOrder
        <4>2. Lists(u, V) /\ Len(u) = Len(f) /\ Ordered(u)
          BY <1>3, <2>3, <2>4, <4>1, HeapifyUpFacts
        <4>3. DOMAIN u = DOMAIN f /\ \A j \in DOMAIN u : u[j].score \in Int
          BY <1>3, <2>3, <4>2, ListFacts DEF Scored
        <4>4. \A j \in DOMAIN u : j > 1 => j \div 2 \in DOMAIN u
          BY <1>1, <2>3, <4>3, Halves
        <4>5. ASSUME NEW j \in DOMAIN u, j > 1, j \div 2 = i, i > 1
              PROVE  u[i \div 2].score <= u[j].score
          <5>1. i \in DOMAIN u /\ i \div 2 \in DOMAIN u
            BY <2>3, <4>3, <4>4, <4>5
          <5>2. u[i \div 2].score <= u[i].score /\ u[i].score <= u[j].score
            BY <4>2, <4>5, <5>1 DEF Ordered
          <5> QED
            BY <4>3, <5>1, <5>2
        <4>6. TooHigh(u, i)
          BY <4>2, <4>5 DEF TooHigh, Ordered
        <4> QED
          BY <4>2, <4>6
      <3> QED
        BY <3>1, <3>2
    <2>7. i \in DOMAIN u
      BY <2>3, <2>6, ListFacts
    <2>8. Lists(g, V) /\ Len(g) = Len(u) /\ Ordered(g)
      BY <1>3, <2>5, <2>6, <2>7, HeapifyDownFacts
    <2> QED
      BY <1>2, <2>3, <2>6, <2>8 DEF HeapOf
  <1> QED
    BY <1>4, <1>5

(* No node is more urgent than the root.                                   *)
LEMMA RootLeast ==
    ASSUME NEW W, Scored(W), NEW h, HeapOf(h, W), NEW i \in DOMAIN h
    PROVE  1 \in DOMAIN h /\ h[1].score <= h[i].score
  <1>1. Len(h) \in Nat /\ DOMAIN h = 1 .. Len(h) /\ \A j \in DOMAIN h : h[j].score \in Int
    BY ListFacts DEF HeapOf, Scored
  <1>2. 1 \in DOMAIN h
    BY <1>1
  <1> DEFINE Bad == {j \in DOMAIN h : ~(h[1].score <= h[j].score)}
  <1>3. ASSUME Bad # {}
        PROVE  FALSE
    <2>1. PICK j \in Bad : \A k \in Bad : j <= k
      <3>1. Bad \subseteq Nat
        BY <1>1
      <3> HIDE DEF Bad
      <3> QED
        BY <1>3, <3>1, LeastNat
    <2>2. j \in DOMAIN h /\ ~(h[1].score <= h[j].score)
      OBVIOUS
    <2>3. j > 1 /\ j \in Nat
      BY <1>1, <2>2
    <2>4. j \div 2 \in DOMAIN h /\ ~(j <= j \div 2)
      BY <1>1, <2>2, <2>3, Halves
    <2>5. h[j \div 2].score <= h[j].score
      BY <2>2, <2>3 DEF HeapOf, Ordered
    <2>6. h[1].score <= h[j \div 2].score
      BY <2>1, <2>4
    <2> QED
      BY <1>1, <1>2, <2>2, <2>4, <2>5, <2>6
  <1> QED
    BY <1>2, <1>3

LEMMA ExtractFacts ==
    ASSUME NEW W, Scored(W), NEW h, HeapOf(h, W), h # <<>>, NEW g, g = HeapExtractMax(h)
    PROVE  HeapOf(g, W \ {h[1]})
  <1>1. Lists(h, W) /\ Len(h) \in Nat /\ DOMAIN h = 1 .. Len(h) /\ h \in Seq(W) /\ Len(h) >= 1
    BY ListFacts DEF HeapOf, Lists
  <1>2. PICK V : V = W \ {h[1]}
    OBVIOUS
  <1>3. CASE Len(h) = 1
    <2>1. g = <<>>
      BY <1>3 DEF HeapExtractMax
    <2>2. V = {}
      <3>1. \A x \in W : x = h[1]
        BY <1>1, <1>3 DEF Lists
      <3> QED
        BY <1>2, <3>1
    <2> QED
      BY <1>2, <2>1, <2>2 DEF HeapOf, Lists, Ordered
  <1>4. CASE Len(h) # 1
    <2>1. 1 \in DOMAIN h /\ 1 < Len(h)
      BY <1>1, <1>4
    <2>2. PICK f : f = Holed(h, 1)
      OBVIOUS
    <2>3. Lists(f, V) /\ 1 \in DOMAIN f
      <3>1. Filled(f, h, 1, W)
        BY <1>1, <2>1, <2>2, HoleFacts
      <3> QED
        BY <1>2, <3>1 DEF Filled
    <2>4. TooHigh(f, 1)
      BY <2>1, <2>2, HoleOrder
    <2>5. g = HeapifyDown(f, 1)
      BY <1>4, <2>2 DEF HeapExtractMax, Holed
    <2>6. Scored(V)
      BY <1>2 DEF Scored
    <2>7. Lists(g, V) /\ Ordered(g)
      BY <2>3, <2>4, <2>5, <2>6, HeapifyDownFacts
    <2> QED
      BY <1>2, <2>7 DEF HeapOf
  <1> QED
    BY <1>3, <1>4


-----------------------------------------------------------------------------
(* Making room.                                                            *)

OverdueLost(W, V) == V \subseteq W /\ \A x \in W \ V : Expired(x.message)

Expendable(x) == ~x.message.emergencyFlag /\ x.message.priority > CRITICAL

ExpendableLost(W, V) == V \subseteq W /\ \A x \in W \ V : Expendable(x)

Forgotten(W, V) == V \subseteq W /\ \A x \in W \ V : Expired(x.message) \/ Expendable(x)

Prioritized(W) == \A x \in W : x.message.priority \in Priorities

LEMMA WiderList ==
    ASSUME NEW W, NEW V, V \subseteq W, NEW h, HeapOf(h, V)
    PROVE  h \in Seq(W)
  <1>1. h \in Seq(V)
    BY DEF HeapOf, Lists
  <1> QED
    BY <1>1

LEMMA RemoveExpiredFacts ==
    ASSUME NEW W, Scored(W), NEW h, HeapOf(h, W), NEW g, g = RemoveExpired(h)
    PROVE  \E V : OverdueLost(W, V) /\ HeapOf(g, V)
  <1>1. PICK n : n = Len(h)
    OBVIOUS
  <1>2. n \in Nat /\ Range(h) = W /\ 0 \in 0 .. n /\ n \in 0 .. n
    BY <1>1, ListFacts DEF HeapOf
  <1> DEFINE Claim(s, k) == \E V : /\ OverdueLost(W, V) /\ HeapOf(s.heap, V)
                                   /\ s.at = n - k /\ s.at <= Len(s.heap)
  <1>3. PICK J : J = [k \in 0 .. n |-> {s \in Positions(h) : Claim(s, k)}]
    OBVIOUS
  <1>4. PICK step : step = [s \in Positions(h) |-> ExpiredStep(s)]
    OBVIOUS
  <1>5. PICK x : x = [heap |-> h, at |-> n]
    OBVIOUS
  <1>6. x \in J[0]
    <2>1. h \in Seq(W)
      BY DEF HeapOf, Lists
    <2>2. x \in Positions(h)
      BY <1>2, <1>5, <2>1 DEF Positions
    <2>3. OverdueLost(W, W) /\ x.heap = h /\ x.at = n - 0 /\ x.at <= Len(x.heap)
      BY <1>1, <1>2, <1>5 DEF OverdueLost
    <2> QED
      BY <1>2, <1>3, <2>2, <2>3
  <1>7. ASSUME NEW k \in 0 .. n, k < n, NEW s \in J[k]
        PROVE  step[s] \in J[k + 1]
    <2>1. s \in Positions(h) /\ Claim(s, k)
      BY <1>3
    <2>2. PICK V : /\ OverdueLost(W, V) /\ HeapOf(s.heap, V)
                   /\ s.at = n - k /\ s.at <= Len(s.heap)
      BY <2>1
    <2>3. PICK f, i, t : f = s.heap /\ i = s.at /\ t = ExpiredStep(s)
      OBVIOUS
    <2>4. k + 1 \in 0 .. n /\ i >= 1 /\ i \in Nat /\ i - 1 \in Nat /\ i - 1 = n - (k + 1)
      BY <1>2, <1>7, <2>2, <2>3
    <2>5. Len(f) \in Nat /\ DOMAIN f = 1 .. Len(f)
      BY <2>2, <2>3, ListFacts DEF HeapOf
    <2>6. i \in DOMAIN f /\ f[i] \in V
      <3>1. i \in DOMAIN f
        BY <2>2, <2>3, <2>4, <2>5
      <3> QED
        BY <2>2, <2>3, <3>1, ListFacts DEF HeapOf
    <2>7. CASE Expired(f[i].message)
      <3>1. PICK r : r = HeapRemoveAt(f, i)
        OBVIOUS
      <3>2. t = [heap |-> r, at |-> i - 1]
        BY <2>3, <2>7, <3>1 DEF ExpiredStep
      <3>3. Scored(V)
        BY <2>2 DEF Scored, OverdueLost
      <3>4. HeapOf(f, V)
        BY <2>2, <2>3
      <3>5. HeapOf(r, V \ {f[i]}) /\ Len(r) = Len(f) - 1
        BY <2>6, <3>1, <3>3, <3>4, RemoveAtFacts
      <3>6. OverdueLost(W, V \ {f[i]})
        BY <2>2, <2>6, <2>7 DEF OverdueLost
      <3>7. t.heap = r /\ t.at = n - (k + 1) /\ t.at <= Len(t.heap)
        BY <2>2, <2>3, <2>4, <2>5, <3>2, <3>5
      <3>8. Claim(t, k + 1)
        BY <3>5, <3>6, <3>7
      <3>9. r \in Seq(W)
        BY <3>5, <3>6, WiderList DEF OverdueLost
      <3>10. t \in Positions(h)
        BY <1>2, <2>4, <3>2, <3>9 DEF Positions
      <3> QED
        BY <1>3, <1>4, <2>1, <2>3, <2>4, <3>8, <3>10
    <2>8. CASE ~Expired(f[i].message)
      <3>1. t = [heap |-> f, at |-> i - 1]
        BY <2>3, <2>8 DEF ExpiredStep
      <3>2. t.heap = f /\ t.at = n - (k + 1) /\ t.at <= Len(t.heap)
        BY <2>2, <2>3, <2>4, <2>5, <3>1
      <3>3. Claim(t, k + 1)
        BY <2>2, <2>3, <3>2
      <3>4. f \in Seq(W)
        BY <2>2, <2>3, WiderList DEF OverdueLost
      <3>5. t \in Positions(h)
        BY <1>2, <2>4, <3>1, <3>4 DEF Positions
      <3> QED
        BY <1>3, <1>4, <2>1, <2>3, <2>4, <3>3, <3>5
    <2> QED
      BY <2>7, <2>8
  <1>8. Iterated(step, x, n) \in J[n]
    BY <1>2, <1>6, <1>7, IteratedIn
  <1>9. PICK last : last = Iterated(step, x, n)
    OBVIOUS
  <1>10. Claim(last, n)
    BY <1>2, <1>3, <1>8, <1>9
  <1>11. g = last.heap
    BY <1>1, <1>4, <1>5, <1>9 DEF RemoveExpired
  <1> QED
    BY <1>10, <1>11

(* Of the messages that may be evicted the first of the least urgent ones. *)
LEMMA EvictFacts ==
    ASSUME NEW W, Scored(W), Prioritized(W), NEW h, HeapOf(h, W), Evictable(h) # {},
           NEW g, g = EvictLowPriorityMessage(h)
    PROVE  \E x \in W : Expendable(x) /\ HeapOf(g, W \ {x})
  <1>1. PICK L : L = {i \in Evictable(h) :
                       \A j \in Evictable(h) : h[j].message.priority <= h[i].message.priority}
    OBVIOUS
  <1>2. DOMAIN h \subseteq Nat /\ \A i \in DOMAIN h : h[i] \in W
    BY ListFacts DEF HeapOf
  <1>3. \A i \in Evictable(h) : i \in DOMAIN h /\ Expendable(h[i])
    BY DEF Evictable, Expendable
  <1>4. \A i \in Evictable(h) : h[i].message.priority \in 0 .. 3
    BY <1>2, <1>3 DEF Prioritized, Priorities, CRITICAL, LOW
  <1>5. L # {}
    <2>1. PICK T : T = {3 - h[i].message.priority : i \in Evictable(h)}
      OBVIOUS
    <2>2. T \subseteq Nat /\ T # {}
      BY <1>4, <2>1
    <2>3. PICK k \in T : \A j \in T : k <= j
      BY <2>2, LeastNat
    <2>4. PICK i \in Evictable(h) : k = 3 - h[i].message.priority
      BY <2>1, <2>3
    <2>5. \A j \in Evictable(h) : k <= 3 - h[j].message.priority
      BY <2>1, <2>3
    <2>6. \A j \in Evictable(h) : h[j].message.priority <= h[i].message.priority
      BY <1>4, <2>4, <2>5
    <2> QED
      BY <1>1, <2>4, <2>6
  <1>6. PICK i : i = Min(L)
    OBVIOUS
  <1>7. i \in Evictable(h)
    <2>1. L \subseteq Nat
      BY <1>1, <1>2, <1>3
    <2>2. i \in L
      BY <1>5, <1>6, <2>1, MinIn
    <2> QED
      BY <1>1, <2>2
  <1>8. g = HeapRemoveAt(h, i)
    BY <1>1, <1>6 DEF EvictLowPriorityMessage
  <1>9. i \in DOMAIN h /\ Expendable(h[i]) /\ h[i] \in W
    BY <1>2, <1>3, <1>7
  <1>10. HeapOf(g, W \ {h[i]})
    BY <1>8, <1>9, RemoveAtFacts
  <1> QED
    BY <1>9, <1>10

LEMMA EvictUntilFacts ==
    ASSUME NEW W, Scored(W), Prioritized(W), NEW h, HeapOf(h, W), NEW n \in Int,
           NEW g, g = EvictUntil(h, n)
    PROVE  \E V : ExpendableLost(W, V) /\ HeapOf(g, V)
  <1>1. CASE n <= 0
    <2>1. g = h
      BY <1>1 DEF EvictUntil
    <2>2. ExpendableLost(W, W)
      BY DEF ExpendableLost
    <2> QED
      BY <2>1, <2>2
  <1>2. CASE ~(n <= 0)
    <2> DEFINE Claim(f) == \E V : ExpendableLost(W, V) /\ HeapOf(f, V)
    <2>1. n \in Nat /\ n \in 0 .. n /\ 0 \in 0 .. n
      BY <1>2
    <2>2. Range(h) = W
      BY ListFacts DEF HeapOf
    <2>3. PICK J : J = [k \in 0 .. n |-> {f \in Seq(W) : Claim(f)}]
      OBVIOUS
    <2>4. PICK step : step = [f \in Seq(W) |-> EvictStep(f)]
      OBVIOUS
    <2>5. h \in J[0]
      <3>1. ExpendableLost(W, W)
        BY DEF ExpendableLost
      <3>2. h \in Seq(W)
        BY DEF HeapOf, Lists
      <3> QED
        BY <2>1, <2>3, <3>1, <3>2
    <2>6. ASSUME NEW k \in 0 .. n, k < n, NEW f \in J[k]
          PROVE  step[f] \in J[k + 1]
      <3>1. f \in Seq(W) /\ k + 1 \in 0 .. n
        BY <2>1, <2>3, <2>6
      <3>2. PICK V : ExpendableLost(W, V) /\ HeapOf(f, V)
        BY <2>3
      <3>3. PICK r : r = EvictStep(f)
        OBVIOUS
      <3>4. \E U : ExpendableLost(W, U) /\ HeapOf(r, U)
        <4>1. CASE Evictable(f) = {}
          BY <3>2, <3>3, <4>1 DEF EvictStep
        <4>2. CASE Evictable(f) # {}
          <5>1. r = EvictLowPriorityMessage(f)
            BY <3>3, <4>2 DEF EvictStep
          <5>2. Scored(V) /\ Prioritized(V)
            BY <3>2 DEF Scored, Prioritized, ExpendableLost
          <5>3. PICK x \in V : Expendable(x) /\ HeapOf(r, V \ {x})
            BY <3>2, <4>2, <5>1, <5>2, EvictFacts
          <5>4. ExpendableLost(W, V \ {x})
            BY <3>2, <5>3 DEF ExpendableLost
          <5> QED
            BY <5>3, <5>4
        <4> QED
          BY <4>1, <4>2
      <3>5. r \in Seq(W)
        BY <3>4, WiderList DEF ExpendableLost
      <3> QED
        BY <2>3, <2>4, <3>1, <3>3, <3>4, <3>5
    <2>7. Iterated(step, h, n) \in J[n]
      BY <2>1, <2>5, <2>6, IteratedIn
    <2>8. g = Iterated(step, h, n)
      BY <1>2, <2>2, <2>4 DEF EvictUntil
    <2> QED
      BY <2>1, <2>3, <2>7, <2>8
  <1> QED
    BY <1>1, <1>2

LEMMA FreeMemoryFacts ==
    ASSUME NEW W, Scored(W), Prioritized(W), NEW h, HeapOf(h, W), NEW n \in Int,
           NEW g, g = FreeMemorySpace(h, n)
    PROVE  \E V : Forgotten(W, V) /\ HeapOf(g, V)
  <1>1. PICK f : f = RemoveExpired(h)
    OBVIOUS
  <1>2. PICK U : OverdueLost(W, U) /\ HeapOf(f, U)
    BY <1>1, RemoveExpiredFacts
  <1>3. Len(h) \in Nat /\ Len(f) \in Nat
    BY <1>2, ListFacts DEF HeapOf
  <1>4. PICK l : l = n - (Len(h) - Len(f))
    OBVIOUS
  <1>5. g = EvictUntil(f, l) /\ l \in Int
    BY <1>1, <1>3, <1>4 DEF FreeMemorySpace
  <1>6. Scored(U) /\ Prioritized(U)
    BY <1>2 DEF Scored, Prioritized, OverdueLost
  <1>7. PICK V : ExpendableLost(U, V) /\ HeapOf(g, V)
    BY <1>2, <1>5, <1>6, EvictUntilFacts
  <1>8. Forgotten(W, V)
    BY <1>2, <1>7 DEF Forgotten, OverdueLost, ExpendableLost
  <1> QED
    BY <1>7, <1>8


-----------------------------------------------------------------------------
(* The queue.                                                              *)

Messages ==
    [id : {s.id : s \in Submissions}, priority : Priorities, emergencyFlag : BOOLEAN,
     feePerByte : Nat, blockHeight : Nat, size : Nat, retryCount : Nat, maxRetries : Nat,
     ttl : Nat, age : Nat]

Nodes == [message : Messages, score : Int]

UniqueIds(W) == \A x, y \in W : x.message.id = y.message.id => x = y

OrdinaryNodes(W) == {x \in W : ~x.message.emergencyFlag}

IsQueue(q) == q = [heap |-> q.heap, counters |-> q.counters, memory |-> q.memory,
                   reserveUsed |-> q.reserveUsed]

(* The nodes of q are W: a heap of messages, each with an id of its own,   *)
(* and no more ordinary ones than the queue has room for.                  *)
Contents(q, W) ==
    /\ IsQueue(q)
    /\ HeapOf(q.heap, W)
    /\ W \subseteq Nodes /\ UniqueIds(W)
    /\ Cardinality(OrdinaryNodes(W)) <= MaxTotalMessages

LEMMA NodeFacts ==
    ASSUME NEW W, W \subseteq Nodes
    PROVE  /\ Scored(W) /\ Prioritized(W)
           /\ \A x \in W : x.message \in Messages /\ x = [message |-> x.message, score |-> x.score]
  BY DEF Scored, Prioritized, Nodes, Messages

LEMMA Counted ==
    ASSUME NEW W, NEW h, Lists(h, W)
    PROVE  IsFiniteSet(W) /\ Cardinality(W) = Len(h)
  <1>1. PICK n : n = Len(h)
    OBVIOUS
  <1>2. n \in Nat /\ DOMAIN h = 1 .. n /\ \A i \in DOMAIN h : h[i] \in W
    BY <1>1, ListFacts
  <1>3. h \in [1 .. n -> W]
    BY <1>1, <1>2, ListFacts
  <1>4. \A i, j \in 1 .. n : h[i] = h[j] => i = j
    BY <1>2 DEF Lists
  <1>5. \A x \in W : \E i \in 1 .. n : h[i] = x
    BY <1>2 DEF Lists
  <1>6. ExistsBijection(1 .. n, W)
    BY <1>3, <1>4, <1>5 DEF ExistsBijection, Bijection, Injection, Surjection, IsInjective
  <1>7. IsFiniteSet(W)
    BY <1>2, <1>6, FS_NatBijection
  <1>8. Cardinality(W) = n
    BY <1>2, <1>6, FS_CountingElements
  <1> QED
    BY <1>1, <1>7, <1>8

LEMMA OrdinaryFinite ==
    ASSUME NEW W, IsFiniteSet(W)
    PROVE  /\ IsFiniteSet(OrdinaryNodes(W)) /\ Cardinality(OrdinaryNodes(W)) \in Nat
           /\ Cardinality(OrdinaryNodes(W)) <= Cardinality(W)
  <1>1. OrdinaryNodes(W) \in SUBSET W
    BY DEF OrdinaryNodes
  <1>2. IsFiniteSet(OrdinaryNodes(W)) /\ Cardinality(OrdinaryNodes(W)) <= Cardinality(W)
    BY <1>1, FS_Subset
  <1> QED
    BY <1>2, FS_CardinalityType

LEMMA OrdinaryFewer ==
    ASSUME NEW W, IsFiniteSet(W), NEW V, V \subseteq W
    PROVE  Cardinality(OrdinaryNodes(V)) <= Cardinality(OrdinaryNodes(W))
  <1>1. OrdinaryNodes(V) \in SUBSET OrdinaryNodes(W)
    BY DEF OrdinaryNodes
  <1>2. IsFiniteSet(OrdinaryNodes(W))
    BY OrdinaryFinite
  <1> QED
    BY <1>1, <1>2, FS_Subset

(* A queue that has lost messages.                                         *)
LEMMA FewerContents ==
    ASSUME NEW q, NEW W, Contents(q, W), NEW V, V \subseteq W,
           NEW r, IsQueue(r), HeapOf(r.heap, V)
    PROVE  Contents(r, V)
  <1>1. IsFiniteSet(W) /\ IsFiniteSet(V)
    BY Counted DEF Contents, HeapOf
  <1>2. Cardinality(OrdinaryNodes(V)) <= Cardinality(OrdinaryNodes(W))
    BY <1>1, OrdinaryFewer
  <1>3. Cardinality(OrdinaryNodes(V)) \in Nat /\ Cardinality(OrdinaryNodes(W)) \in Nat
    BY <1>1, OrdinaryFinite
  <1>4. Cardinality(OrdinaryNodes(V)) <= MaxTotalMessages
    BY <1>2, <1>3, QueueAssumption DEF Contents
  <1> QED
    BY <1>4 DEF Contents, UniqueIds

(* There is room for m beside the nodes of W.                              *)
RoomFor(m, W) == m.emergencyFlag \/ Cardinality(OrdinaryNodes(W)) < MaxTotalMessages

LEMMA CapacityFacts ==
    ASSUME NEW q, NEW W, Contents(q, W), NEW m \in Messages,
           NEW c, c = CheckCapacityLimits(q, m)
    PROVE  \E V : /\ Forgotten(W, V) /\ Contents(c.queue, V)
                  /\ c.room => RoomFor(m, V)
  <1>1. PICK h : h = q.heap
    OBVIOUS
  <1>2. HeapOf(h, W) /\ W \subseteq Nodes /\ IsQueue(q)
    BY <1>1 DEF Contents
  <1>3. IsFiniteSet(W) /\ Cardinality(W) = Len(h) /\ Len(h) \in Nat /\ Scored(W) /\ Prioritized(W)
    BY <1>2, Counted, NodeFacts, ListFacts DEF HeapOf
  <1>4. Forgotten(W, W) /\ m.emergencyFlag \in BOOLEAN /\ MaxTotalMessages \in Nat
    BY QueueAssumption DEF Forgotten, Messages
  <1>5. CASE ~(Len(h) >= MaxTotalMessages)
    <2>1. c.queue = q
      BY <1>1, <1>5 DEF CheckCapacityLimits
    <2>2. Cardinality(OrdinaryNodes(W)) < MaxTotalMessages
      BY <1>3, <1>4, <1>5, OrdinaryFinite
    <2> QED
      BY <1>4, <2>1, <2>2 DEF RoomFor
  <1>6. CASE Len(h) >= MaxTotalMessages /\ m.emergencyFlag /\ q.reserveUsed < EmergencyCapacityReserve
    <2>1. PICK r : r = [q EXCEPT !.reserveUsed = @ + 1]
      OBVIOUS
    <2>2. c.queue = r
      BY <1>1, <1>6, <2>1 DEF CheckCapacityLimits
    <2>3. IsQueue(r) /\ r.heap = h
      BY <1>1, <1>2, <2>1 DEF IsQueue
    <2>4. Contents(r, W)
      BY <1>2, <2>3, FewerContents
    <2> QED
      BY <1>4, <1>6, <2>2, <2>4 DEF RoomFor
  <1>7. CASE /\ Len(h) >= MaxTotalMessages
             /\ ~(m.emergencyFlag /\ q.reserveUsed < EmergencyCapacityReserve)
             /\ Evictable(h) # {}
    <2>1. PICK r, g : r = [q EXCEPT !.heap = EvictLowPriorityMessage(@)] /\ g = EvictLowPriorityMessage(h)
      OBVIOUS
    <2>2. c.queue = r
      BY <1>1, <1>7, <2>1 DEF CheckCapacityLimits
    <2>3. IsQueue(r) /\ r.heap = g
      BY <1>1, <1>2, <2>1 DEF IsQueue
    <2>4. PICK x \in W : Expendable(x) /\ HeapOf(g, W \ {x})
      BY <1>2, <1>3, <1>7, <2>1, EvictFacts
    <2>5. PICK V : V = W \ {x}
      OBVIOUS
    <2>6. Contents(r, V)
      <3>1. V \subseteq W /\ HeapOf(r.heap, V)
        BY <2>3, <2>4, <2>5
      <3> QED
        BY <2>3, <3>1, FewerContents
    <2>7. Forgotten(W, V)
      BY <2>4, <2>5 DEF Forgotten
    <2>8. Cardinality(OrdinaryNodes(V)) < MaxTotalMessages
      <3>1. PICK O : O = OrdinaryNodes(W)
        OBVIOUS
      <3>2. IsFiniteSet(O) /\ Cardinality(O) \in Nat /\ Cardinality(O) <= MaxTotalMessages
        BY <1>3, <3>1, OrdinaryFinite DEF Contents
      <3>3. x \in O
        BY <2>4, <3>1 DEF OrdinaryNodes, Expendable
      <3>4. OrdinaryNodes(V) = O \ {x}
        BY <2>5, <3>1 DEF OrdinaryNodes
      <3>5. Cardinality(O \ {x}) = Cardinality(O) - 1
        BY <3>2, <3>3, FS_RemoveElement
      <3> QED
        BY <1>4, <3>2, <3>4, <3>5
    <2> QED
      BY <2>2, <2>6, <2>7, <2>8 DEF RoomFor
  <1>8. CASE /\ Len(h) >= MaxTotalMessages
             /\ ~(m.emergencyFlag /\ q.reserveUsed < EmergencyCapacityReserve)
             /\ Evictable(h) = {}
    <2>1. c.queue = q /\ c.room = FALSE
      BY <1>1, <1>8 DEF CheckCapacityLimits
    <2> QED
      BY <1>4, <2>1
  <1> QED
    BY <1>5, <1>6, <1>7, <1>8

LEMMA MemoryFacts ==
    ASSUME NEW q, NEW W, Contents(q, W), NEW m \in Messages,
           NEW c, c = CheckMemory(q, m)
    PROVE  \E V : Forgotten(W, V) /\ Contents(c.queue, V)
  <1>1. HeapOf(q.heap, W) /\ W \subseteq Nodes /\ IsQueue(q)
    BY DEF Contents
  <1>2. CASE c.queue = q
    <2>1. Forgotten(W, W)
      BY DEF Forgotten
    <2> QED
      BY <1>2, <2>1
  <1>3. CASE c.queue # q
    <2>1. PICK f : f = FreeMemorySpace(q.heap, m.size)
      OBVIOUS
    <2>2. PICK r : r = [q EXCEPT !.heap = f]
      OBVIOUS
    <2>3. c.queue = r
      BY <1>3, <2>1, <2>2 DEF CheckMemory
    <2>4. Scored(W) /\ Prioritized(W)
      BY <1>1, NodeFacts
    <2>5. m.size \in Int
      BY DEF Messages
    <2>6. PICK V : Forgotten(W, V) /\ HeapOf(f, V)
      BY <1>1, <2>1, <2>4, <2>5, FreeMemoryFacts
    <2>7. IsQueue(r) /\ r.heap = f
      BY <1>1, <2>2 DEF IsQueue
    <2>8. Contents(r, V)
      <3>1. V \subseteq W
        BY <2>6 DEF Forgotten
      <3> QED
        BY <2>6, <2>7, <3>1, FewerContents
    <2> QED
      BY <2>3, <2>6, <2>8
  <1> QED
    BY <1>2, <1>3


LEMMA ForgottenTwice ==
    ASSUME NEW W, NEW V, NEW U, Forgotten(W, V), Forgotten(V, U)
    PROVE  Forgotten(W, U)
  BY DEF Forgotten

LEMMA AgeFacts ==
    ASSUME NEW a, NEW b, a \in Int, b \in Int
    PROVE  Min({a, b}) = IF a <= b THEN a ELSE b
  <1>1. CASE a <= b
    <2>1. PICK x : x = Min({a, b})
      OBVIOUS
    <2>2. x \in {a, b} /\ \A y \in {a, b} : x <= y
      BY <1>1, <2>1 DEF Min
    <2> QED
      BY <1>1, <2>1, <2>2
  <1>2. CASE ~(a <= b)
    <2>1. PICK x : x = Min({a, b})
      OBVIOUS
    <2>2. b <= a /\ b <= b
      BY <1>2
    <2>3. x \in {a, b} /\ \A y \in {a, b} : x <= y
      BY <2>1, <2>2 DEF Min
    <2> QED
      BY <1>2, <2>1, <2>3
  <1> QED
    BY <1>1, <1>2

LEMMA ScoreIsInt ==
    ASSUME NEW m \in Messages
    PROVE  PriorityScore(m) \in Int
  <1>1. m.priority \in Int /\ m.feePerByte \in Int /\ m.blockHeight \in Int /\ m.age \in Int
    BY DEF Messages, Priorities, CRITICAL, LOW
  <1>2. PICK a : a = m.age * TickSeconds
    OBVIOUS
  <1>3. a \in Int
    BY <1>1, <1>2, QueueAssumption
  <1>4. PICK b : b = Min({a, 100})
    OBVIOUS
  <1>5. b \in Int
    BY <1>3, <1>4, AgeFacts
  <1>6. PICK e : e = IF m.emergencyFlag THEN 10000 ELSE 0
    OBVIOUS
  <1>7. e \in Int
    BY <1>6
  <1>8. PriorityScore(m) = 100 * (1000 * m.priority - e - 10 * m.feePerByte - b) - m.blockHeight
    BY <1>2, <1>4, <1>6 DEF PriorityScore
  <1> QED
    BY <1>1, <1>5, <1>7, <1>8

Added(r, W, m) == \E node \in Nodes : node.message = m /\ Contents(r, W \cup {node})

LEMMA InsertedFacts ==
    ASSUME NEW q, NEW W, Contents(q, W), NEW m \in Messages, RoomFor(m, W),
           \A x \in W : x.message.id # m.id,
           NEW r, r = Inserted(q, m)
    PROVE  Added(r, W, m)
  <1>1. HeapOf(q.heap, W) /\ W \subseteq Nodes /\ IsQueue(q) /\ UniqueIds(W)
    BY DEF Contents
  <1>2. PICK node : node = [message |-> m, score |-> PriorityScore(m)]
    OBVIOUS
  <1>3. node \in Nodes /\ node.message = m /\ node.score \in Int
    BY <1>2, ScoreIsInt DEF Nodes
  <1>4. PICK g, V : g = HeapInsert(q.heap, node) /\ V = W \cup {node}
    OBVIOUS
  <1>5. IsQueue(r) /\ r.heap = g
    BY <1>1, <1>2, <1>4 DEF Inserted, IsQueue
  <1>6. node \notin W
    BY <1>3
  <1>7. HeapOf(g, V)
    <2>1. Scored(W)
      BY <1>1, NodeFacts
    <2> QED
      BY <1>1, <1>3, <1>4, <1>6, <2>1, InsertFacts
  <1>8. V \subseteq Nodes /\ UniqueIds(V)
    BY <1>1, <1>3, <1>4 DEF UniqueIds
  <1>9. Cardinality(OrdinaryNodes(V)) <= MaxTotalMessages
    <2>1. PICK O : O = OrdinaryNodes(W)
      OBVIOUS
    <2>2. IsFiniteSet(O) /\ Cardinality(O) \in Nat /\ Cardinality(O) <= MaxTotalMessages
      BY <1>1, <2>1, Counted, OrdinaryFinite DEF Contents, HeapOf
    <2>3. CASE m.emergencyFlag
      <3>1. OrdinaryNodes(V) = O
        BY <1>3, <1>4, <2>1, <2>3 DEF OrdinaryNodes
      <3> QED
        BY <2>2, <3>1
    <2>4. CASE ~m.emergencyFlag
      <3>1. OrdinaryNodes(V) = O \cup {node}
        BY <1>3, <1>4, <2>1, <2>4 DEF OrdinaryNodes
      <3>2. node \notin O
        BY <1>6, <2>1 DEF OrdinaryNodes
      <3>3. Cardinality(O \cup {node}) = Cardinality(O) + 1
        BY <2>2, <3>2, FS_AddElement
      <3>4. Cardinality(O) < MaxTotalMessages
        BY <2>1, <2>4 DEF RoomFor
      <3> QED
        BY <2>2, <3>1, <3>3, <3>4, QueueAssumption
    <2> QED
      BY <2>3, <2>4
  <1>10. Contents(r, V)
    BY <1>5, <1>7, <1>8, <1>9 DEF Contents
  <1> QED
    BY <1>3, <1>4, <1>10 DEF Added

(* What enqueue of m leaves of the nodes W: m may be added, and what is    *)
(* lost is overdue or may be evicted.                                      *)
Enqueued(r, W, m) ==
    \E V : /\ Forgotten(W, V)
           /\ Contents(r, V) \/ Added(r, V, m)

LEMMA EnqueueFacts ==
    ASSUME NEW q, NEW W, Contents(q, W), NEW m \in Messages,
           \A x \in W : x.message.id # m.id,
           NEW r, r = Enqueue(q, m)
    PROVE  Enqueued(r, W, m)
  <1>1. PICK c : c = CheckCapacityLimits(q, m)
    OBVIOUS
  <1>2. PICK V : Forgotten(W, V) /\ Contents(c.queue, V) /\ (c.room => RoomFor(m, V))
    BY <1>1, CapacityFacts
  <1>3. CASE ~c.room
    <2>1. r = c.queue
      BY <1>1, <1>3 DEF Enqueue
    <2> QED
      BY <1>2, <2>1 DEF Enqueued
  <1>4. CASE c.room
    <2>1. PICK d : d = CheckMemory(c.queue, m)
      OBVIOUS
    <2>2. PICK U : Forgotten(V, U) /\ Contents(d.queue, U)
      BY <1>2, <2>1, MemoryFacts
    <2>3. Forgotten(W, U)
      BY <1>2, <2>2, ForgottenTwice
    <2>4. CASE ~d.room
      <3>1. r = d.queue
        BY <1>1, <1>4, <2>1, <2>4 DEF Enqueue
      <3> QED
        BY <2>2, <2>3, <3>1 DEF Enqueued
    <2>5. CASE d.room
      <3>1. r = Inserted(d.queue, m)
        BY <1>1, <1>4, <2>1, <2>5 DEF Enqueue
      <3>2. RoomFor(m, U)
        <4>1. IsFiniteSet(V) /\ IsFiniteSet(U) /\ U \subseteq V
          BY <1>2, <2>2, Counted DEF Contents, HeapOf, Forgotten
        <4>2. Cardinality(OrdinaryNodes(U)) <= Cardinality(OrdinaryNodes(V))
          BY <4>1, OrdinaryFewer
        <4>3. Cardinality(OrdinaryNodes(U)) \in Nat /\ Cardinality(OrdinaryNodes(V)) \in Nat
          BY <4>1, OrdinaryFinite
        <4>4. RoomFor(m, V)
          BY <1>2, <1>4
        <4> QED
          BY <4>2, <4>3, <4>4, QueueAssumption DEF RoomFor
      <3>3. \A x \in U : x.message.id # m.id
        BY <2>3 DEF Forgotten
      <3>4. Added(r, U, m)
        <4>1. PICK e : e = d.queue
          OBVIOUS
        <4>2. Contents(e, U) /\ r = Inserted(e, m)
          BY <2>2, <3>1, <4>1
        <4> QED
          BY <3>2, <3>3, <4>2, InsertedFacts
      <3> QED
        BY <2>3, <3>4 DEF Enqueued
    <2> QED
      BY <2>4, <2>5
  <1> QED
    BY <1>3, <1>4

LEMMA WithoutExpiredFacts ==
    ASSUME NEW q, NEW W, Contents(q, W), NEW r, r = WithoutExpired(q)
    PROVE  \E V : OverdueLost(W, V) /\ Contents(r, V)
  <1>1. HeapOf(q.heap, W) /\ W \subseteq Nodes /\ IsQueue(q)
    BY DEF Contents
  <1>2. PICK f : f = RemoveExpired(q.heap)
    OBVIOUS
  <1>3. IsQueue(r) /\ r.heap = f
    BY <1>1, <1>2 DEF WithoutExpired, IsQueue
  <1>4. PICK V : OverdueLost(W, V) /\ HeapOf(f, V)
    BY <1>1, <1>2, NodeFacts, RemoveExpiredFacts
  <1>5. Contents(r, V)
    <2>1. V \subseteq W
      BY <1>4 DEF OverdueLost
    <2> QED
      BY <1>3, <1>4, <2>1, FewerContents
  <1> QED
    BY <1>4, <1>5

LEMMA DequeueFacts ==
    ASSUME NEW q, NEW W, Contents(q, W), q.heap # <<>>, NEW r, r = Dequeue(q)
    PROVE  \E x \in W : /\ Peek(q) = x.message /\ Contents(r, W \ {x})
                        /\ \A y \in W : x.score <= y.score
  <1>1. PICK h : h = q.heap
    OBVIOUS
  <1>2. HeapOf(h, W) /\ W \subseteq Nodes /\ IsQueue(q) /\ Scored(W)
    BY <1>1, NodeFacts DEF Contents
  <1>3. h # <<>> /\ h \in Seq(W) /\ Lists(h, W)
    BY <1>1, <1>2 DEF HeapOf, Lists
  <1>4. 1 \in DOMAIN h /\ h[1] \in W
    BY <1>3
  <1>5. \A i \in DOMAIN h : h[1].score <= h[i].score
    BY <1>2, RootLeast
  <1>6. \A y \in W : h[1].score <= y.score
    BY <1>3, <1>5 DEF Lists
  <1>7. PICK f : f = HeapExtractMax(h)
    OBVIOUS
  <1>8. HeapOf(f, W \ {h[1]})
    BY <1>2, <1>3, <1>7, ExtractFacts
  <1>9. IsQueue(r) /\ r.heap = f
    BY <1>1, <1>2, <1>7 DEF Dequeue, IsQueue
  <1>10. Contents(r, W \ {h[1]})
    <2>1. PICK V : V = W \ {h[1]}
      OBVIOUS
    <2>2. V \subseteq W /\ HeapOf(r.heap, V)
      BY <1>8, <1>9, <2>1
    <2>3. Contents(r, V)
      BY <1>9, <2>2, FewerContents
    <2> QED
      BY <2>1, <2>3
  <1>11. Peek(q) = h[1].message
    BY <1>1 DEF Peek
  <1> QED
    BY <1>4, <1>6, <1>10, <1>11


(* A node, a minute later.                                                 *)
AgedNode(x) == [message |-> Older(x.message), score |-> x.score]

Aged(W) == {AgedNode(x) : x \in W}

LEMMA OlderFacts ==
    ASSUME NEW m \in Messages, NEW o, o = Older(m)
    PROVE  /\ o \in Messages /\ o.id = m.id
           /\ o.emergencyFlag = m.emergencyFlag /\ o.priority = m.priority
  <1>1. PICK a : a = Min({m.age + 1, m.ttl + 1})
    OBVIOUS
  <1>2. PICK b, c : b = m.age + 1 /\ c = m.ttl + 1
    OBVIOUS
  <1>3. a \in Nat
    <2>1. b \in Nat /\ c \in Nat
      BY <1>2 DEF Messages
    <2>2. a = Min({b, c})
      BY <1>1, <1>2
    <2> QED
      BY <2>1, <2>2, AgeFacts
  <1>4. o = [m EXCEPT !.age = a]
    BY <1>1 DEF Older
  <1> QED
    BY <1>3, <1>4 DEF Messages

LEMMA AgedFacts ==
    ASSUME NEW W, W \subseteq Nodes, NEW x \in W, NEW y, y = AgedNode(x)
    PROVE  /\ y \in Nodes /\ y.message.id = x.message.id /\ y.score = x.score
           /\ y.message.emergencyFlag = x.message.emergencyFlag
           /\ y.message.priority = x.message.priority
  <1>1. x.message \in Messages /\ x.score \in Int
    BY DEF Nodes
  <1>2. PICK o : o = Older(x.message)
    OBVIOUS
  <1>3. /\ o \in Messages /\ o.id = x.message.id
        /\ o.emergencyFlag = x.message.emergencyFlag /\ o.priority = x.message.priority
    BY <1>1, <1>2, OlderFacts
  <1>4. y = [message |-> o, score |-> x.score]
    BY <1>2 DEF AgedNode
  <1> QED
    BY <1>1, <1>3, <1>4 DEF Nodes

LEMMA QueueAgedFacts ==
    ASSUME NEW q, NEW W, Contents(q, W), NEW r, r = QueueAged(q)
    PROVE  Contents(r, Aged(W))
  <1>1. PICK h, n, V : h = q.heap /\ n = Len(h) /\ V = Aged(W)
    OBVIOUS
  <1>2. HeapOf(h, W) /\ W \subseteq Nodes /\ IsQueue(q) /\ UniqueIds(W) /\ Lists(h, W)
    BY <1>1 DEF Contents, HeapOf
  <1>3. n \in Nat /\ DOMAIN h = 1 .. n /\ \A i \in DOMAIN h : h[i] \in W
    BY <1>1, <1>2, ListFacts
  <1>4. PICK g : g = [i \in 1 .. n |-> AgedNode(h[i])]
    OBVIOUS
  <1>5. IsQueue(r) /\ r.heap = g
    BY <1>1, <1>2, <1>3, <1>4 DEF QueueAged, AgedNode, IsQueue
  <1>6. \A x \in W : AgedNode(x) \in V
    BY <1>1 DEF Aged
  <1>7. g \in Seq(V) /\ Len(g) = n
    <2>1. g \in [1 .. n -> V]
      BY <1>3, <1>4, <1>6
    <2> QED
      BY <1>3, <2>1, SequenceOf
  <1>8. DOMAIN g = 1 .. n /\ \A i \in 1 .. n : g[i] = AgedNode(h[i])
    BY <1>4
  <1>9. \A y \in V : \E i \in DOMAIN g : g[i] = y
    <2>1. ASSUME NEW y \in V
          PROVE  \E i \in DOMAIN g : g[i] = y
      <3>1. PICK x \in W : y = AgedNode(x)
        BY <1>1 DEF Aged
      <3>2. PICK i \in DOMAIN h : h[i] = x
        BY <1>2 DEF Lists
      <3> QED
        BY <1>3, <1>8, <3>1, <3>2
    <2> QED
      BY <2>1
  <1>10. \A x, y \in W : AgedNode(x).message.id = AgedNode(y).message.id => x = y
    <2>1. \A x \in W : AgedNode(x).message.id = x.message.id
      BY <1>2, AgedFacts
    <2> QED
      BY <1>2, <2>1 DEF UniqueIds
  <1>11. \A i, j \in DOMAIN g : g[i] = g[j] => i = j
    <2>1. ASSUME NEW i \in 1 .. n, NEW j \in 1 .. n, g[i] = g[j]
          PROVE  i = j
      <3>1. h[i] \in W /\ h[j] \in W /\ AgedNode(h[i]) = AgedNode(h[j])
        BY <1>3, <1>8, <2>1
      <3>2. h[i] = h[j]
        BY <1>10, <3>1
      <3> QED
        BY <1>2, <1>3, <3>2 DEF Lists
    <2> QED
      BY <1>8, <2>1
  <1>12. \A i \in 1 .. n : g[i].score = h[i].score
    BY <1>3, <1>8 DEF AgedNode
  <1>13. Ordered(g)
    <2>1. ASSUME NEW j \in 1 .. n, j > 1
          PROVE  g[j \div 2].score <= g[j].score
      <3>1. j \div 2 \in 1 .. n
        BY <1>3, <2>1, Halves
      <3>2. h[j \div 2].score <= h[j].score
        BY <1>2, <1>3, <2>1 DEF HeapOf, Ordered
      <3> QED
        BY <1>12, <3>1, <3>2
    <2> QED
      BY <1>8, <2>1 DEF Ordered
  <1>14. HeapOf(g, V)
    BY <1>7, <1>9, <1>11, <1>13 DEF HeapOf, Lists
  <1>15. V \subseteq Nodes /\ UniqueIds(V)
    <2>1. V \subseteq Nodes
      BY <1>1, <1>2, AgedFacts DEF Aged
    <2> QED
      BY <1>1, <1>10, <2>1 DEF Aged, UniqueIds
  <1>16. Cardinality(OrdinaryNodes(V)) <= MaxTotalMessages
    <2>1. PICK O, P : O = OrdinaryNodes(W) /\ P = OrdinaryNodes(V)
      OBVIOUS
    <2>2. IsFiniteSet(O) /\ Cardinality(O) \in Nat /\ Cardinality(O) <= MaxTotalMessages
      BY <1>2, <2>1, Counted, OrdinaryFinite, <1>1 DEF Contents
    <2>3. PICK f : f = [x \in O |-> AgedNode(x)]
      OBVIOUS
    <2>4. \A x \in W : AgedNode(x).message.emergencyFlag = x.message.emergencyFlag
      BY <1>2, AgedFacts
    <2>5. \A x \in O : AgedNode(x) \in P
      BY <1>6, <2>1, <2>4 DEF OrdinaryNodes
    <2>6. \A y \in P : \E x \in O : y = AgedNode(x)
      BY <1>1, <2>1, <2>4 DEF OrdinaryNodes, Aged
    <2>7. f \in Surjection(O, P)
      BY <2>3, <2>5, <2>6 DEF Surjection
    <2>8. IsFiniteSet(P) /\ Cardinality(P) <= Cardinality(O)
      BY <2>2, <2>7, FS_Surjection
    <2>9. Cardinality(P) \in Nat
      BY <2>8, FS_CardinalityType
    <2> QED
      BY <2>1, <2>2, <2>8, <2>9, QueueAssumption
  <1>17. Contents(r, V)
    BY <1>5, <1>14, <1>15, <1>16 DEF Contents
  <1> QED
    BY <1>1, <1>17

LEMMA EmptyFacts ==
    Contents(EmptyQueue, {})
  <1>1. IsQueue(EmptyQueue) /\ EmptyQueue.heap = <<>>
    BY DEF EmptyQueue, IsQueue
  <1>2. HeapOf(<<>>, {})
    BY DEF HeapOf, Lists, Ordered
  <1>3. OrdinaryNodes({}) = {}
    BY DEF OrdinaryNodes
  <1>4. Cardinality(OrdinaryNodes({})) <= MaxTotalMessages
    BY <1>3, FS_EmptySet, QueueAssumption
  <1> QED
    BY <1>1, <1>2, <1>4 DEF Contents, UniqueIds

LEMMA LoadedFacts ==
    ASSUME NEW q, NEW W, Contents(q, W), NEW r, r = LoadQueueState(SavedState(q))
    PROVE  Contents(r, W) /\ r.heap = q.heap
  <1>1. IsQueue(r) /\ r.heap = q.heap
    BY DEF LoadQueueState, SavedState, EmptyQueue, IsQueue
  <1>2. HeapOf(r.heap, W)
    BY <1>1 DEF Contents
  <1> QED
    BY <1>1, <1>2, FewerContents


-----------------------------------------------------------------------------
(* What the buffer shows of the queue.                                     *)

Shown(W) == {Entry(x) : x \in W}

Late(W) == OverdueOf({x.message : x \in W})

(* The steps of PriorityBuffer from the entries E to the entries F, when   *)
(* the ids in O are overdue.                                               *)
Lost(E, F, O) == \A w \in E \ F : w.id \in O \/ w.expendable

Refused(E, F, O) == F \ E = {} /\ Lost(E, F, O)

PutIn(E, F, O) ==
    /\ Cardinality(F \ E) = 1 /\ Lost(E, F, O)
    /\ Cardinality({w \in F : w.ordinary}) <= MaxTotalMessages

TakenOut(E, F, O) ==
    /\ F \ E = {}
    /\ \E m \in E \ F : /\ \A w \in (E \ F) \ {m} : w.id \in O
                        /\ \A w \in F : m.score <= w.score

BufferStep(W, U) ==
    \/ Shown(U) = Shown(W) \/ Shown(U) = {}
    \/ Refused(Shown(W), Shown(U), Late(W))
    \/ PutIn(Shown(W), Shown(U), Late(W))
    \/ TakenOut(Shown(W), Shown(U), Late(W))

LEMMA EntryFacts ==
    ASSUME NEW x
    PROVE  /\ Entry(x).id = x.message.id /\ Entry(x).score = x.score
           /\ Entry(x).ordinary = ~x.message.emergencyFlag
           /\ Entry(x).expendable = Expendable(x)
  BY DEF Entry, Expendable

LEMMA LateFacts ==
    ASSUME NEW W, NEW x \in W, Expired(x.message)
    PROVE  x.message.id \in Late(W)
  BY DEF Late, OverdueOf

LEMMA ShownFacts ==
    ASSUME NEW W, NEW w
    PROVE  w \in Shown(W) <=> \E x \in W : w = Entry(x)
  BY DEF Shown

LEMMA LostFacts ==
    ASSUME NEW W, NEW V, Forgotten(W, V), NEW U, V \subseteq U
    PROVE  Lost(Shown(W), Shown(U), Late(W))
  <1>1. ASSUME NEW w \in Shown(W), w \notin Shown(U)
        PROVE  w.id \in Late(W) \/ w.expendable
    <2>1. PICK x \in W : w = Entry(x)
      BY <1>1, ShownFacts
    <2>2. x \notin V
      BY <1>1, <2>1, ShownFacts
    <2>3. CASE Expired(x.message)
      BY <2>1, <2>3, EntryFacts, LateFacts
    <2>4. CASE Expendable(x)
      BY <2>1, <2>4, EntryFacts
    <2> QED
      BY <2>2, <2>3, <2>4 DEF Forgotten
  <1> QED
    BY <1>1 DEF Lost

LEMMA RefusedFacts ==
    ASSUME NEW W, NEW V, Forgotten(W, V)
    PROVE  Refused(Shown(W), Shown(V), Late(W))
  <1>1. Lost(Shown(W), Shown(V), Late(W))
    BY LostFacts
  <1>2. Shown(V) \subseteq Shown(W)
    BY DEF Forgotten, Shown
  <1> QED
    BY <1>1, <1>2 DEF Refused

LEMMA PutFacts ==
    ASSUME NEW W, NEW V, Forgotten(W, V), NEW node, \A x \in W : x.message.id # node.message.id,
           NEW r, NEW U, U = V \cup {node}, Contents(r, U)
    PROVE  PutIn(Shown(W), Shown(U), Late(W))
  <1>1. Lost(Shown(W), Shown(U), Late(W))
    BY LostFacts
  <1>2. Shown(U) \ Shown(W) = {Entry(node)}
    <2>1. Entry(node) \notin Shown(W)
      <3>1. \A x \in W : Entry(x) # Entry(node)
        BY EntryFacts
      <3> QED
        BY <3>1, ShownFacts
    <2>2. \A x \in V : Entry(x) \in Shown(W)
      BY ShownFacts DEF Forgotten
    <2>3. Entry(node) \in Shown(U)
      BY ShownFacts
    <2>4. \A w \in Shown(U) : w = Entry(node) \/ \E x \in V : w = Entry(x)
      BY ShownFacts
    <2> QED
      BY <2>1, <2>2, <2>3, <2>4
  <1>3. Cardinality(Shown(U) \ Shown(W)) = 1
    BY <1>2, FS_Singleton
  <1>4. Cardinality({w \in Shown(U) : w.ordinary}) <= MaxTotalMessages
    <2>1. PICK O, P : O = OrdinaryNodes(U) /\ P = {w \in Shown(U) : w.ordinary}
      OBVIOUS
    <2>2. IsFiniteSet(O) /\ Cardinality(O) \in Nat /\ Cardinality(O) <= MaxTotalMessages
      BY <2>1, Counted, OrdinaryFinite DEF Contents, HeapOf
    <2>3. PICK f : f = [x \in O |-> Entry(x)]
      OBVIOUS
    <2>4. \A x \in O : Entry(x) \in P
      BY <2>1, EntryFacts, ShownFacts DEF OrdinaryNodes
    <2>5. \A w \in P : \E x \in O : w = Entry(x)
      <3>1. ASSUME NEW w \in P
            PROVE  \E x \in O : w = Entry(x)
        <4>1. w \in Shown(U) /\ w.ordinary
          BY <2>1
        <4>2. PICK x \in U : w = Entry(x)
          BY <4>1, ShownFacts
        <4>3. ~x.message.emergencyFlag
          BY <4>1, <4>2, EntryFacts
        <4>4. x \in O
          BY <2>1, <4>3 DEF OrdinaryNodes
        <4> QED
          BY <4>2, <4>4
      <3> QED
        BY <3>1
    <2>6. f \in Surjection(O, P)
      BY <2>3, <2>4, <2>5 DEF Surjection
    <2>7. IsFiniteSet(P) /\ Cardinality(P) <= Cardinality(O)
      BY <2>2, <2>6, FS_Surjection
    <2>8. Cardinality(P) \in Nat
      BY <2>7, FS_CardinalityType
    <2> QED
      BY <2>1, <2>2, <2>7, <2>8, QueueAssumption
  <1> QED
    BY <1>1, <1>3, <1>4 DEF PutIn

LEMMA TakenFacts ==
    ASSUME NEW W, UniqueIds(W), NEW V, OverdueLost(W, V), NEW x \in V,
           \A y \in V : x.score <= y.score, NEW U, U = V \ {x}
    PROVE  TakenOut(Shown(W), Shown(U), Late(W))
  <1>1. V \subseteq W /\ U \subseteq W
    BY DEF OverdueLost
  <1>2. Shown(U) \ Shown(W) = {}
    BY <1>1, ShownFacts
  <1>3. \A y \in W : Entry(y) = Entry(x) => y = x
    BY <1>1, EntryFacts DEF UniqueIds
  <1>4. Entry(x) \in Shown(W) /\ Entry(x) \notin Shown(U)
    <2>1. \A y \in U : Entry(y) # Entry(x)
      BY <1>1, <1>3
    <2> QED
      BY <1>1, <2>1, ShownFacts
  <1>5. ASSUME NEW w \in Shown(W), w \notin Shown(U), w # Entry(x)
        PROVE  w.id \in Late(W)
    <2>1. PICK y \in W : w = Entry(y)
      BY ShownFacts
    <2>2. y \notin U /\ y # x
      BY <1>5, <2>1, ShownFacts
    <2>3. Expired(y.message)
      BY <2>2 DEF OverdueLost
    <2> QED
      BY <2>1, <2>3, EntryFacts, LateFacts
  <1>6. \A w \in Shown(U) : Entry(x).score <= w.score
    BY EntryFacts, ShownFacts
  <1> QED
    BY <1>2, <1>4, <1>5, <1>6 DEF TakenOut

-----------------------------------------------------------------------------
(* The invariant.                                                          *)

RoundRecords == [message : Messages, stage : {"taken", "sending"}]

(* No message is in two places, and all were sent.                         *)
Apart(W, R, S) ==
    /\ R \subseteq RoundRecords
    /\ \A r, t \in R : r.message.id = t.message.id => r = t
    /\ \A r \in R : \A x \in W : r.message.id # x.message.id
    /\ \A r \in R : r.message.id \in S
    /\ \A x \in W : x.message.id \in S

PriorityInv ==
    /\ Contents(queue, Range(queue.heap))
    /\ Apart(Range(queue.heap), rounds, submitted)

LEMMA EnqueueStep ==
    ASSUME NEW q, NEW W, Contents(q, W), NEW m \in Messages,
           \A x \in W : x.message.id # m.id,
           NEW r, r = Enqueue(q, m)
    PROVE  \E U : /\ Contents(r, U) /\ BufferStep(W, U)
                  /\ \A x \in U : x \in W \/ x.message.id = m.id
  <1>1. Enqueued(r, W, m)
    BY EnqueueFacts
  <1>2. PICK V : Forgotten(W, V) /\ (Contents(r, V) \/ Added(r, V, m))
    BY <1>1 DEF Enqueued
  <1>3. CASE Contents(r, V)
    <2>1. Refused(Shown(W), Shown(V), Late(W))
      BY <1>2, RefusedFacts
    <2> QED
      BY <1>2, <1>3, <2>1 DEF BufferStep, Forgotten
  <1>4. CASE Added(r, V, m)
    <2>1. PICK node \in Nodes : node.message = m /\ Contents(r, V \cup {node})
      BY <1>4 DEF Added
    <2>2. PICK U : U = V \cup {node}
      OBVIOUS
    <2>3. Contents(r, U) /\ \A x \in W : x.message.id # node.message.id
      BY <2>1, <2>2
    <2>4. PutIn(Shown(W), Shown(U), Late(W))
      BY <1>2, <2>2, <2>3, PutFacts
    <2>5. \A x \in U : x \in W \/ x.message.id = m.id
      BY <1>2, <2>1, <2>2 DEF Forgotten
    <2> QED
      BY <2>3, <2>4, <2>5 DEF BufferStep
  <1> QED
    BY <1>2, <1>3, <1>4


LEMMA MessageFacts ==
    ASSUME NEW s \in Submissions, NEW p \in Priorities, NEW e \in BOOLEAN, NEW n \in Nat,
           NEW t \in Nat, NEW m, m = Message(s, p, e, n, t)
    PROVE  m \in Messages /\ m.id = s.id
  <1>1. s.feePerByte \in Nat /\ s.blockHeight \in Nat /\ s.size \in Nat
    BY PriorityAssumption
  <1> QED
    BY <1>1 DEF Message, Messages

LEMMA AdjustedPriority ==
    ASSUME NEW base \in Priorities, NEW sum
    PROVE  AdjustPriorityByScore(base, sum) \in Priorities
  <1>1. base \in Int /\ base >= 0 /\ base <= 3 /\ CRITICAL = 0 /\ LOW = 3
    BY DEF Priorities, CRITICAL, LOW
  <1>2. PICK up, down : up = base - 1 /\ down = base + 1
    OBVIOUS
  <1>3. up \in Int /\ down \in Int
    BY <1>1, <1>2
  <1>4. Min({3, down}) \in Priorities
    BY <1>1, <1>2, <1>3, AgeFacts DEF Priorities
  <1>5. Max({0, up}) \in Priorities
    <2>1. CASE 0 >= up
      <3>1. PICK x : x = Max({0, up})
        OBVIOUS
      <3>2. 0 >= 0 /\ 0 >= up
        BY <2>1
      <3>3. x \in {0, up} /\ \A y \in {0, up} : x >= y
        BY <3>1, <3>2 DEF Max
      <3> QED
        BY <1>1, <1>3, <2>1, <3>1, <3>3 DEF Priorities
    <2>2. CASE ~(0 >= up)
      <3>1. PICK x : x = Max({0, up})
        OBVIOUS
      <3>2. up >= 0 /\ up >= up
        BY <1>3, <2>2
      <3>3. x \in {0, up} /\ \A y \in {0, up} : x >= y
        BY <3>1, <3>2 DEF Max
      <3> QED
        BY <1>1, <1>2, <1>3, <2>2, <3>1, <3>3 DEF Priorities
    <2> QED
      BY <2>1, <2>2
  <1> QED
    BY <1>1, <1>2, <1>4, <1>5 DEF AdjustPriorityByScore

LEMMA TransactionPriorityFacts ==
    ASSUME NEW fee, NEW e
    PROVE  TransactionPriority(fee, e) \in Priorities
  <1>1. FeeBasedPriority(fee) \in Priorities
    BY DEF FeeBasedPriority, Priorities, CRITICAL, HIGH, NORMAL, LOW
  <1> QED
    BY <1>1, AdjustedPriority DEF TransactionPriority

LEMMA HigherFacts ==
    ASSUME NEW p \in Priorities
    PROVE  Max({HIGH, p}) \in Priorities
  <1>1. p \in Int /\ p >= 0 /\ p <= 3 /\ HIGH = 1
    BY DEF Priorities, CRITICAL, LOW, HIGH
  <1>2. PICK x : x = Max({1, p})
    OBVIOUS
  <1>3. \E y \in {1, p} : \A z \in {1, p} : y >= z
    BY <1>1
  <1>4. x \in {1, p}
    BY <1>2, <1>3 DEF Max
  <1> QED
    BY <1>1, <1>2, <1>4 DEF Priorities, CRITICAL, LOW

LEMMA CalculatedPriority ==
    ASSUME NEW s, NEW e
    PROVE  CalculatePriority(s, e) \in Priorities
  <1>1. PICK p : p = CASE s.type = "transaction" -> TransactionPriority(s.feePerByte, e)
                       [] s.type = "block"       -> BlockPriority(s.blockHeight)
                       [] s.type = "sync"        -> HIGH
                       [] s.type = "discovery"   -> NORMAL
                       [] OTHER                  -> LOW
    OBVIOUS
  <1>2. /\ HIGH \in Priorities /\ NORMAL \in Priorities /\ LOW \in Priorities
        /\ CRITICAL \in Priorities
    BY DEF Priorities, CRITICAL, HIGH, NORMAL, LOW
  <1>3. BlockPriority(s.blockHeight) \in Priorities
    BY <1>2 DEF BlockPriority
  <1>4. p \in Priorities
    BY <1>1, <1>2, <1>3, TransactionPriorityFacts
  <1>5. CalculatePriority(s, e) = ContextualPriority(s.type, p, e)
    BY <1>1 DEF CalculatePriority
  <1>6. Max({HIGH, p}) \in Priorities
    BY <1>4, HigherFacts
  <1> QED
    BY <1>2, <1>4, <1>5, <1>6, CalculatorAssumption DEF ContextualPriority

LEMMA OfPriorityFacts ==
    ASSUME NEW s \in Submissions, NEW p \in Priorities, NEW m, m = OfPriority(s, p)
    PROVE  m \in Messages /\ m.id = s.id
  <1>1. MaxAttempts[p] \in Nat /\ TimeToLive[p] \in Nat
    BY PriorityAssumption
  <1>2. PICK e : e = (p = CRITICAL)
    OBVIOUS
  <1>3. e \in BOOLEAN
    BY <1>2
  <1>4. m = Message(s, p, e, MaxAttempts[p], TimeToLive[p])
    BY <1>2 DEF OfPriority
  <1> QED
    BY <1>1, <1>3, <1>4, MessageFacts

LEMMA BlockFacts ==
    ASSUME NEW s \in Submissions, NEW m, m = SendBlock(s)
    PROVE  m \in Messages /\ m.id = s.id
  <1>1. PICK e, n, t, p : e = FALSE /\ n = 5 /\ t = TimeToLive[CRITICAL] /\ p = CRITICAL
    OBVIOUS
  <1>2. m = Message(s, p, e, n, t)
    BY <1>1 DEF SendBlock
  <1>3. p \in Priorities
    BY <1>1 DEF Priorities, CRITICAL, HIGH, LOW
  <1>4. e \in BOOLEAN /\ n \in Nat /\ t \in Nat
    BY <1>1, <1>3, PriorityAssumption
  <1> QED
    BY <1>2, <1>3, <1>4, MessageFacts

LEMMA ProofFacts ==
    ASSUME NEW s \in Submissions, NEW m, m = SendMerkleProof(s)
    PROVE  m \in Messages /\ m.id = s.id
  <1>1. PICK e, n, t, p : e = FALSE /\ n = 3 /\ t = TimeToLive[HIGH] /\ p = HIGH
    OBVIOUS
  <1>2. m = Message(s, p, e, n, t)
    BY <1>1 DEF SendMerkleProof
  <1>3. p \in Priorities
    BY <1>1 DEF Priorities, CRITICAL, HIGH, LOW
  <1>4. e \in BOOLEAN /\ n \in Nat /\ t \in Nat
    BY <1>1, <1>3, PriorityAssumption
  <1> QED
    BY <1>2, <1>3, <1>4, MessageFacts

(* Whatever is sent enters the queue as a message with its id.             *)
LEMMA SubmittedFacts ==
    ASSUME NEW s \in Submissions, s.call # "emergency",
           NEW m, m = CASE s.call = "transaction" -> SendUTXOPriorityTransaction(s)
                        [] s.call = "message"     -> SendMessage(s)
                        [] s.call = "block"       -> SendBlock(s)
                        [] s.call = "proof"       -> SendMerkleProof(s)
    PROVE  m \in Messages /\ m.id = s.id
  <1>1. s.call \in {"transaction", "message", "block", "proof"}
    BY PriorityAssumption
  <1>4. CASE s.call = "transaction"
    <2>1. PICK p : p = IF s.priority \in {HIGH, NORMAL, LOW} THEN s.priority
                       ELSE TransactionPriority(s.feePerByte, contextEmergency)
      OBVIOUS
    <2>2. p \in Priorities
      <3>1. s.priority \in Priorities
        BY PriorityAssumption
      <3> QED
        BY <2>1, <3>1, TransactionPriorityFacts
    <2>3. m = OfPriority(s, p)
      BY <1>4, <2>1 DEF SendUTXOPriorityTransaction
    <2> QED
      BY <2>2, <2>3, OfPriorityFacts
  <1>5. CASE s.call = "message"
    <2>1. PICK p \in Priorities : p = CalculatePriority(s, contextEmergency)
      BY CalculatedPriority
    <2>2. m = OfPriority(s, p)
      BY <1>5, <2>1 DEF SendMessage
    <2> QED
      BY <2>2, OfPriorityFacts
  <1>6. CASE s.call = "block"
    <2>1. m = SendBlock(s)
      BY <1>6
    <2> QED
      BY <2>1, BlockFacts
  <1>7. CASE s.call = "proof"
    <2>1. m = SendMerkleProof(s)
      BY <1>7
    <2> QED
      BY <2>1, ProofFacts
  <1> QED
    BY <1>1, <1>4, <1>5, <1>6, <1>7

LEMMA EmergencyFacts ==
    ASSUME NEW s \in Submissions, NEW m, m = SendEmergency(s)
    PROVE  m \in Messages /\ m.id = s.id
  <1>1. CRITICAL \in Priorities
    BY DEF Priorities, CRITICAL, LOW
  <1>2. EmergencyMaxRetries \in Nat /\ EmergencyTimeToLive \in Nat
    BY PriorityAssumption
  <1>3. PICK e : e = TRUE
    OBVIOUS
  <1>4. m = Message(s, CRITICAL, e, EmergencyMaxRetries, EmergencyTimeToLive) /\ e \in BOOLEAN
    BY <1>3 DEF SendEmergency
  <1> QED
    BY <1>1, <1>2, <1>4, MessageFacts


LEMMA RangeIs ==
    ASSUME NEW q, NEW W, Contents(q, W)
    PROVE  Range(q.heap) = W
  BY ListFacts DEF Contents, HeapOf

(* Each step is a step of the buffer between the nodes of the queue before *)
(* it and some nodes after it, and keeps the messages apart.               *)
Kept(U) ==
    /\ Contents(queue', U) /\ Apart(U, rounds', submitted')
    /\ BufferStep(Range(queue.heap), U)

LEMMA EnterKeeps ==
    ASSUME PriorityInv, NEW s \in Submissions, s.id \notin submitted,
           NEW m \in Messages, m.id = s.id,
           queue' = Enqueue(queue, m), rounds' = rounds, submitted' = submitted \cup {s.id}
    PROVE  \E U : Kept(U)
  <1>1. PICK W : W = Range(queue.heap)
    OBVIOUS
  <1>2. Contents(queue, W) /\ Apart(W, rounds, submitted)
    BY <1>1 DEF PriorityInv
  <1>3. \A x \in W : x.message.id # m.id
    BY <1>2 DEF Apart
  <1>4. PICK r : r = Enqueue(queue, m)
    OBVIOUS
  <1>5. PICK U : /\ Contents(r, U) /\ BufferStep(W, U)
                 /\ \A x \in U : x \in W \/ x.message.id = m.id
    BY <1>2, <1>3, <1>4, EnqueueStep
  <1>6. Apart(U, rounds', submitted')
    BY <1>2, <1>5 DEF Apart
  <1> QED
    BY <1>1, <1>4, <1>5, <1>6 DEF Kept

(* A message of a round goes back into the queue.                          *)
LEMMA ReturnKeeps ==
    ASSUME PriorityInv, NEW r \in rounds, NEW m \in Messages, m.id = r.message.id,
           queue' = Enqueue(queue, m), rounds' = rounds \ {r}, submitted' = submitted
    PROVE  \E U : Kept(U)
  <1>1. PICK W : W = Range(queue.heap)
    OBVIOUS
  <1>2. Contents(queue, W) /\ Apart(W, rounds, submitted)
    BY <1>1 DEF PriorityInv
  <1>3. \A x \in W : x.message.id # m.id
    BY <1>2 DEF Apart
  <1>4. PICK q : q = Enqueue(queue, m)
    OBVIOUS
  <1>5. PICK U : /\ Contents(q, U) /\ BufferStep(W, U)
                 /\ \A x \in U : x \in W \/ x.message.id = m.id
    BY <1>2, <1>3, <1>4, EnqueueStep
  <1>6. Apart(U, rounds', submitted')
    BY <1>2, <1>5 DEF Apart
  <1> QED
    BY <1>1, <1>4, <1>5, <1>6 DEF Kept

(* The queue stays, no message enters a round.                             *)
LEMMA StayKeeps ==
    ASSUME PriorityInv, queue' = queue, submitted' = submitted,
           Apart(Range(queue.heap), rounds', submitted)
    PROVE  \E U : Kept(U)
  <1>1. PICK W : W = Range(queue.heap)
    OBVIOUS
  <1>2. Contents(queue', W) /\ Apart(W, rounds', submitted')
    BY <1>1 DEF PriorityInv
  <1>3. BufferStep(W, W)
    BY DEF BufferStep
  <1> QED
    BY <1>1, <1>2, <1>3 DEF Kept

LEMMA FewerApart ==
    ASSUME NEW W, NEW R, NEW S, Apart(W, R, S), NEW T, T \subseteq R
    PROVE  Apart(W, T, S)
  BY DEF Apart

LEMMA ProcessKeeps ==
    ASSUME PriorityInv, ProcessMessageQueue
    PROVE  \E U : Kept(U)
  <1>1. PICK W : W = Range(queue.heap)
    OBVIOUS
  <1>2. Contents(queue, W) /\ Apart(W, rounds, submitted) /\ submitted' = submitted
    BY <1>1 DEF PriorityInv, ProcessMessageQueue
  <1>3. PICK fresh : fresh = WithoutExpired(queue)
    OBVIOUS
  <1>4. PICK V : OverdueLost(W, V) /\ Contents(fresh, V)
    BY <1>2, <1>3, WithoutExpiredFacts
  <1>5. CASE fresh.heap = <<>>
    <2>1. queue' = fresh /\ rounds' = rounds
      BY <1>3, <1>5 DEF ProcessMessageQueue
    <2>2. Forgotten(W, V)
      BY <1>4 DEF OverdueLost, Forgotten
    <2>3. BufferStep(W, V)
      BY <2>2, RefusedFacts DEF BufferStep
    <2>4. Apart(V, rounds, submitted)
      BY <1>2, <1>4 DEF Apart, OverdueLost
    <2> QED
      BY <1>1, <1>2, <1>4, <2>1, <2>3, <2>4 DEF Kept
  <1>6. CASE fresh.heap # <<>>
    <2>1. PICK m, q : m = Peek(fresh) /\ q = Dequeue(fresh)
      OBVIOUS
    <2>2. queue' = q /\ rounds' = rounds \cup {[message |-> m, stage |-> "taken"]}
      BY <1>3, <1>6, <2>1 DEF ProcessMessageQueue
    <2>3. PICK x \in V : /\ m = x.message /\ Contents(q, V \ {x})
                         /\ \A y \in V : x.score <= y.score
      BY <1>4, <1>6, <2>1, DequeueFacts
    <2>4. PICK U : U = V \ {x}
      OBVIOUS
    <2>5. V \subseteq W /\ W \subseteq Nodes /\ UniqueIds(W)
      BY <1>2, <1>4 DEF OverdueLost, Contents
    <2>6. TakenOut(Shown(W), Shown(U), Late(W))
      BY <1>4, <2>3, <2>4, <2>5, TakenFacts
    <2>7. BufferStep(W, U)
      BY <2>6 DEF BufferStep
    <2>8. PICK t : t = [message |-> m, stage |-> "taken"]
      OBVIOUS
    <2>9. t \in RoundRecords /\ t.message = x.message
      BY <2>3, <2>5, <2>8, NodeFacts DEF RoundRecords
    <2>10. \A y \in U : y \in W /\ y.message.id # x.message.id
      BY <2>4, <2>5 DEF UniqueIds
    <2>11. \A r \in rounds : r.message.id # x.message.id
      BY <1>2, <2>5 DEF Apart
    <2>12. x.message.id \in submitted
      BY <1>2, <2>5 DEF Apart
    <2>13. Apart(U, rounds', submitted')
      BY <1>2, <2>2, <2>8, <2>9, <2>10, <2>11, <2>12 DEF Apart
    <2> QED
      BY <1>1, <2>2, <2>3, <2>4, <2>7, <2>13 DEF Kept
  <1> QED
    BY <1>5, <1>6


LEMMA RoundKeeps ==
    ASSUME PriorityInv, NEW r \in rounds, Continue(r)
    PROVE  \E U : Kept(U)
  <1>1. PICK W : W = Range(queue.heap)
    OBVIOUS
  <1>2. Contents(queue, W) /\ Apart(W, rounds, submitted)
    BY <1>1 DEF PriorityInv
  <1>3. r.message \in Messages /\ r = [message |-> r.message, stage |-> r.stage]
    BY <1>2 DEF Apart, RoundRecords
  <1>4. CASE PutBack(r)
    BY <1>3, <1>4, ReturnKeeps DEF PutBack
  <1>5. CASE Transmit(r)
    <2>1. PICK t : t = [r EXCEPT !.stage = "sending"]
      OBVIOUS
    <2>2. t \in RoundRecords /\ t.message = r.message
      BY <1>3, <2>1 DEF RoundRecords
    <2>3. rounds' = (rounds \ {r}) \cup {t} /\ queue' = queue /\ submitted' = submitted
      BY <1>5, <2>1 DEF Transmit
    <2>4. \A u \in rounds \ {r} : u.message.id # t.message.id
      BY <1>2, <2>2 DEF Apart
    <2>5. Apart(W, rounds', submitted)
      BY <1>2, <2>2, <2>3, <2>4 DEF Apart
    <2> QED
      BY <1>1, <2>3, <2>5, StayKeeps
  <1>6. CASE Transmitted(r)
    <2>1. rounds' \subseteq rounds /\ queue' = queue /\ submitted' = submitted
      BY <1>6 DEF Transmitted
    <2>2. Apart(W, rounds', submitted)
      BY <1>2, <2>1, FewerApart
    <2> QED
      BY <1>1, <2>1, <2>2, StayKeeps
  <1>7. CASE TransmissionFailed(r)
    <2>1. PICK m : m = Retried(r.message)
      OBVIOUS
    <2>2. m \in Messages /\ m.id = r.message.id
      BY <1>3, <2>1 DEF Retried, Messages
    <2>3. rounds' = rounds \ {r} /\ submitted' = submitted
      BY <1>7 DEF TransmissionFailed
    <2>4. CASE queue' = Enqueue(queue, m)
      BY <2>2, <2>3, <2>4, ReturnKeeps
    <2>5. CASE queue' = queue
      <3>1. Apart(W, rounds', submitted)
        BY <1>2, <2>3, FewerApart
      <3> QED
        BY <1>1, <2>3, <2>5, <3>1, StayKeeps
    <2> QED
      BY <1>7, <2>1, <2>4, <2>5 DEF TransmissionFailed
  <1> QED
    BY <1>4, <1>5, <1>6, <1>7 DEF Continue

LEMMA AgedShown ==
    ASSUME NEW W, W \subseteq Nodes
    PROVE  Shown(Aged(W)) = Shown(W)
  <1>1. \A x \in W : Entry(AgedNode(x)) = Entry(x)
    BY AgedFacts DEF Entry
  <1> QED
    BY <1>1 DEF Shown, Aged

LEMMA TickKeeps ==
    ASSUME PriorityInv, Tick
    PROVE  \E U : Kept(U)
  <1>1. PICK W, U : W = Range(queue.heap) /\ U = Aged(W)
    OBVIOUS
  <1>2. Contents(queue, W) /\ Apart(W, rounds, submitted) /\ W \subseteq Nodes
    BY <1>1 DEF PriorityInv, Contents
  <1>3. /\ queue' = QueueAged(queue) /\ submitted' = submitted
        /\ rounds' = {[message |-> Older(r.message), stage |-> r.stage] : r \in rounds}
    BY DEF Tick
  <1>4. Contents(queue', U)
    BY <1>1, <1>2, <1>3, QueueAgedFacts
  <1>5. BufferStep(W, U)
    BY <1>1, <1>2, AgedShown DEF BufferStep
  <1>6. \A y \in U : \E x \in W : y.message.id = x.message.id
    BY <1>1, <1>2, AgedFacts DEF Aged
  <1>7. \A t \in rounds' : /\ t \in RoundRecords
                           /\ \E r \in rounds : /\ t.message.id = r.message.id
                                                /\ t = [message |-> Older(r.message), stage |-> r.stage]
    <2>1. ASSUME NEW t \in rounds'
          PROVE  /\ t \in RoundRecords
                 /\ \E r \in rounds : /\ t.message.id = r.message.id
                                      /\ t = [message |-> Older(r.message), stage |-> r.stage]
      <3>1. PICK r \in rounds : t = [message |-> Older(r.message), stage |-> r.stage]
        BY <1>3
      <3>2. r.message \in Messages /\ r.stage \in {"taken", "sending"}
        BY <1>2 DEF Apart, RoundRecords
      <3>3. Older(r.message) \in Messages /\ Older(r.message).id = r.message.id
        BY <3>2, OlderFacts
      <3> QED
        BY <3>1, <3>2, <3>3 DEF RoundRecords
    <2> QED
      BY <2>1
  <1>8. Apart(U, rounds', submitted')
    <2>1. \A s, t \in rounds' : s.message.id = t.message.id => s = t
      BY <1>2, <1>7 DEF Apart
    <2>2. \A t \in rounds' : \A y \in U : t.message.id # y.message.id
      BY <1>2, <1>6, <1>7 DEF Apart
    <2>3. \A t \in rounds' : t.message.id \in submitted'
      BY <1>2, <1>3, <1>7 DEF Apart
    <2>4. \A y \in U : y.message.id \in submitted'
      BY <1>2, <1>3, <1>6 DEF Apart
    <2> QED
      BY <1>7, <2>1, <2>2, <2>3, <2>4 DEF Apart
  <1> QED
    BY <1>1, <1>4, <1>5, <1>8 DEF Kept

LEMMA ClearKeeps ==
    ASSUME PriorityInv, ClearUTXOQueue
    PROVE  \E U : Kept(U)
  <1>1. Contents(queue', {}) /\ rounds' = rounds /\ submitted' = submitted
    BY EmptyFacts DEF ClearUTXOQueue
  <1>2. Apart({}, rounds', submitted')
    BY <1>1 DEF PriorityInv, Apart
  <1>3. BufferStep(Range(queue.heap), {})
    BY DEF BufferStep, Shown
  <1> QED
    BY <1>1, <1>2, <1>3 DEF Kept

LEMMA RestartKeeps ==
    ASSUME PriorityInv, Restart
    PROVE  \E U : Kept(U)
  <1>1. PICK W : W = Range(queue.heap)
    OBVIOUS
  <1>2. Contents(queue, W) /\ Apart(W, rounds, submitted)
    BY <1>1 DEF PriorityInv
  <1>3. queue' = LoadQueueState(SavedState(queue)) /\ rounds' = {} /\ submitted' = submitted
    BY DEF Restart
  <1>4. Contents(queue', W)
    BY <1>2, <1>3, LoadedFacts
  <1>5. Apart(W, rounds', submitted')
    BY <1>2, <1>3 DEF Apart
  <1>6. BufferStep(W, W)
    BY DEF BufferStep
  <1> QED
    BY <1>1, <1>4, <1>5, <1>6 DEF Kept

LEMMA NextKeeps ==
    ASSUME PriorityInv, Next
    PROVE  \E U : Kept(U)
  <1>1. ASSUME NEW s \in Submissions, s.id \notin submitted, s.call = "emergency",
               SendEmergencyUTXOTransaction(s)
        PROVE  \E U : Kept(U)
    <2>1. PICK m : m = SendEmergency(s)
      OBVIOUS
    <2>2. m \in Messages /\ m.id = s.id
      BY <2>1, EmergencyFacts
    <2>3. queue' = Enqueue(queue, m) /\ rounds' = rounds /\ submitted' = submitted \cup {s.id}
      BY <1>1, <2>1 DEF SendEmergencyUTXOTransaction
    <2> QED
      BY <1>1, <2>2, <2>3, EnterKeeps
  <1>2. ASSUME NEW s \in Submissions, s.id \notin submitted, s.call # "emergency", Submit(s)
        PROVE  \E U : Kept(U)
    <2>1. PICK m : m = CASE s.call = "transaction" -> SendUTXOPriorityTransaction(s)
                         [] s.call = "message"     -> SendMessage(s)
                         [] s.call = "block"       -> SendBlock(s)
                         [] s.call = "proof"       -> SendMerkleProof(s)
      OBVIOUS
    <2>2. m \in Messages /\ m.id = s.id
      BY <1>2, <2>1, SubmittedFacts
    <2>3. queue' = Enqueue(queue, m) /\ rounds' = rounds /\ submitted' = submitted \cup {s.id}
      BY <1>2, <2>1 DEF Submit
    <2> QED
      BY <1>2, <2>2, <2>3, EnterKeeps
  <1>3. CASE EnableUTXOEmergencyMode \/ DisableUTXOEmergencyMode \/ EmergencyTimer
    <2>1. queue' = queue /\ rounds' = rounds /\ submitted' = submitted
      BY <1>3 DEF EnableUTXOEmergencyMode, DisableUTXOEmergencyMode, SetEmergencyMode, EmergencyTimer
    <2> QED
      BY <2>1, StayKeeps DEF PriorityInv
  <1> QED
    BY <1>1, <1>2, <1>3, ProcessKeeps, RoundKeeps, ClearKeeps, RestartKeeps, TickKeeps DEF Next

LEMMA PriorityInvInit ==
    Init => PriorityInv
  <1> SUFFICES ASSUME Init
               PROVE  PriorityInv
    OBVIOUS
  <1>1. queue = EmptyQueue /\ rounds = {}
    BY DEF Init
  <1>2. Contents(queue, {}) /\ Range(queue.heap) = {}
    BY <1>1, EmptyFacts, RangeIs
  <1>3. Apart({}, rounds, submitted)
    BY <1>1 DEF Apart
  <1> QED
    BY <1>2, <1>3 DEF PriorityInv

LEMMA PriorityInvNext ==
    ASSUME PriorityInv, [Next]_priorityVars
    PROVE  PriorityInv'
  <1>1. CASE Next
    <2>1. PICK U : Kept(U)
      BY <1>1, NextKeeps
    <2>2. Contents(queue', U) /\ Apart(U, rounds', submitted')
      BY <2>1 DEF Kept
    <2>3. PICK q : q = queue'
      OBVIOUS
    <2>4. Range(q.heap) = U
      BY <2>2, <2>3, RangeIs
    <2> QED
      BY <2>2, <2>3, <2>4 DEF PriorityInv
  <1>2. CASE UNCHANGED priorityVars
    BY <1>2 DEF priorityVars, PriorityInv
  <1> QED
    BY <1>1, <1>2


-----------------------------------------------------------------------------
(* Theorems.                                                               *)

LEMMA EntriesShown ==
    ASSUME NEW q, NEW W, Contents(q, W)
    PROVE  Entries(q.heap) = Shown(W) /\ OverdueOf(Queued(q)) = Late(W)
  <1>1. \A x \in W : \E i \in DOMAIN q.heap : q.heap[i] = x
    BY DEF Contents, HeapOf, Lists
  <1>2. \A i \in DOMAIN q.heap : q.heap[i] \in W
    BY ListFacts DEF Contents, HeapOf
  <1>3. Entries(q.heap) = Shown(W)
    BY <1>1, <1>2 DEF Entries, Shown
  <1>4. Queued(q) = {x.message : x \in W}
    BY <1>1, <1>2 DEF Queued
  <1> QED
    BY <1>3, <1>4 DEF Late

LEMMA SameCount ==
    ASSUME NEW S
    PROVE  Buffer!Cardinality(S) = Cardinality(S)
  BY DEF Cardinality, Buffer!Cardinality

(* The steps of the queue are steps of the buffer.                         *)
LEMMA BufferSteps ==
    ASSUME PriorityInv, [Next]_priorityVars
    PROVE  [Buffer!BufferNext]_(Buffer!bufferVars)
  <1>1. CASE Next
    <2>1. PICK U : Kept(U)
      BY <1>1, NextKeeps
    <2>2. PICK W, q, E, F, O : /\ W = Range(queue.heap) /\ q = queue'
                               /\ E = Entries(queue.heap) /\ F = Entries(q.heap)
                               /\ O = OverdueOf(Queued(queue))
      OBVIOUS
    <2>3. Contents(queue, W) /\ Contents(q, U) /\ BufferStep(W, U)
      BY <2>1, <2>2 DEF PriorityInv, Kept
    <2>4. E = Shown(W) /\ F = Shown(U) /\ O = Late(W)
      BY <2>2, <2>3, EntriesShown
    <2>5. F = E \/ F = {} \/ Refused(E, F, O) \/ PutIn(E, F, O) \/ TakenOut(E, F, O)
      BY <2>3, <2>4 DEF BufferStep
    <2>6. Entries(queue.heap)' = F
      BY <2>2
    <2>7. CASE F = E
      BY <2>2, <2>6, <2>7 DEF Buffer!BufferNext, Buffer!TimePasses
    <2>8. CASE F = {}
      BY <2>6, <2>8 DEF Buffer!BufferNext, Buffer!Empty
    <2>9. CASE Refused(E, F, O)
      <3>1. Buffer!Refuse
        BY <2>2, <2>6, <2>9
           DEF Buffer!Refuse, Buffer!Entered, Buffer!Left, Buffer!Forgettable, Buffer!Overdue,
               Refused, Lost
      <3> QED
        BY <3>1 DEF Buffer!BufferNext
    <2>10. CASE PutIn(E, F, O)
      <3>1. Buffer!Put
        BY <2>2, <2>6, <2>10, SameCount
           DEF Buffer!Put, Buffer!Entered, Buffer!Left, Buffer!Forgettable, Buffer!Overdue,
               Buffer!Ordinary, PutIn, Lost
      <3> QED
        BY <3>1 DEF Buffer!BufferNext
    <2>11. CASE TakenOut(E, F, O)
      <3>1. Buffer!Take
        BY <2>2, <2>6, <2>11
           DEF Buffer!Take, Buffer!Entered, Buffer!Left, Buffer!Overdue, TakenOut
      <3> QED
        BY <3>1 DEF Buffer!BufferNext
    <2> QED
      BY <2>5, <2>7, <2>8, <2>9, <2>10, <2>11
  <1>2. CASE UNCHANGED priorityVars
    BY <1>2 DEF priorityVars, Buffer!bufferVars
  <1> QED
    BY <1>1, <1>2

(* The heap, with its evictions, retries, messages put back, overlapping   *)
(* rounds and restarts, implements the buffer it stands for: whatever is   *)
(* sent, the most urgent message leaves first, no emergency and no block   *)
(* is thrown away before its time, and ordinary messages never enter the   *)
(* reserve for emergencies.                                                *)
THEOREM MostUrgentFirstTheorem == Spec => MostUrgentFirst
  <1>1. Init => Buffer!BufferInit
    <2> SUFFICES ASSUME Init
                 PROVE  Buffer!BufferInit
      OBVIOUS
    <2>1. Entries(queue.heap) = Shown({}) /\ OverdueOf(Queued(queue)) = Late({})
      BY EmptyFacts, EntriesShown DEF Init
    <2>2. Shown({}) = {} /\ Late({}) = {}
      BY DEF Shown, Late, OverdueOf
    <2> QED
      BY <2>1, <2>2 DEF Buffer!BufferInit
  <1>2. PriorityInv /\ [Next]_priorityVars => PriorityInv'
    BY PriorityInvNext
  <1>3. PriorityInv /\ [Next]_priorityVars => [Buffer!BufferNext]_(Buffer!bufferVars)
    BY BufferSteps
  <1> QED
    BY PriorityInvInit, <1>1, <1>2, <1>3, PTL DEF Spec, MostUrgentFirst, Buffer!BufferSpec

(* The emergency mode that a transaction switched on has an end: however   *)
(* calls and timers interleave, a timer that switches it off is pending.   *)
THEOREM EmergencyWillEndTheorem == Spec => []EmergencyWillEnd
  <1> DEFINE EmergencyInv == timers \in Nat /\ EmergencyWillEnd
  <1>1. Init => EmergencyInv
    BY DEF Init, EmergencyWillEnd
  <1>2. EmergencyInv /\ [Next]_priorityVars => EmergencyInv'
    <2> SUFFICES ASSUME EmergencyInv, [Next]_priorityVars
                 PROVE  EmergencyInv'
      OBVIOUS
    <2>1. CASE UNCHANGED emergencyVars
      BY <2>1 DEF emergencyVars, EmergencyWillEnd
    <2>2. ASSUME NEW s \in Submissions, SendEmergencyUTXOTransaction(s)
          PROVE  EmergencyInv'
      BY <2>2 DEF SendEmergencyUTXOTransaction, EmergencyWillEnd
    <2>3. CASE EnableUTXOEmergencyMode \/ DisableUTXOEmergencyMode
      BY <2>3 DEF EnableUTXOEmergencyMode, DisableUTXOEmergencyMode, SetEmergencyMode, EmergencyWillEnd
    <2>4. CASE EmergencyTimer
      BY <2>4 DEF EmergencyTimer, EmergencyWillEnd
    <2>5. CASE Restart
      BY <2>5 DEF Restart, EmergencyWillEnd
    <2>6. ASSUME NEW s \in Submissions, Submit(s)
          PROVE  UNCHANGED emergencyVars
      BY <2>6 DEF Submit
    <2>7. ASSUME NEW r \in rounds, Continue(r)
          PROVE  UNCHANGED emergencyVars
      BY <2>7 DEF Continue, PutBack, Transmit, Transmitted, TransmissionFailed
    <2>8. ProcessMessageQueue \/ ClearUTXOQueue \/ Tick \/ UNCHANGED priorityVars
             => UNCHANGED emergencyVars
      BY DEF ProcessMessageQueue, ClearUTXOQueue, Tick, priorityVars, emergencyVars
    <2> QED
      BY <2>1, <2>2, <2>3, <2>4, <2>5, <2>6, <2>7, <2>8 DEF Next
  <1>3. EmergencyInv => EmergencyWillEnd
    OBVIOUS
  <1> QED
    BY <1>1, <1>2, <1>3, PTL DEF Spec
=============================================================================
