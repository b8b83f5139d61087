----------------------------- MODULE LedgerFacts -----------------------------
(***************************************************************************)
(* Lemmas about the operators the ledger is built from.                    *)
(*                                                                         *)
(* Sums over finite sets: TotalValue is the solution of its recursive      *)
(* equation, adding an element adds its value, and the order of summation  *)
(* does not matter.  The induction is by least counterexample (WFMin on    *)
(* the strict subset ordering).                                            *)
(*                                                                         *)
(* Retargeting: for all parameters, the next difficulty is in the          *)
(* configured range when the difficulty it starts from is, and positive in *)
(* any case.                                                               *)
(***************************************************************************)
EXTENDS UTXOTransactions, Difficulty, FiniteSetTheorems, WellFoundedInduction,
        TLAPS

-----------------------------------------------------------------------------
(* Sums.                                                                   *)

Pick(s) == CHOOSE x \in s : TRUE

(* g solves the recursive equation of a sum of the values v[x].            *)
Solves(g, v, S) ==
    g = [s \in SUBSET S |->
            IF s = {} THEN 0 ELSE v[Pick(s)] + g[s \ {Pick(s)}]]

(* The sum the equation defines.                                           *)
SumOf(v, S) == (CHOOSE g : Solves(g, v, S))[S]

LEMMA PickIn ==
    ASSUME NEW s, s # {}
    PROVE  Pick(s) \in s
  BY DEF Pick

(* A nonempty collection of finite sets has a member none of whose strict  *)
(* subsets belongs to it.                                                  *)
LEMMA LeastSubset ==
    ASSUME NEW S, IsFiniteSet(S), NEW T, T \subseteq SUBSET S, T # {}
    PROVE  \E t \in T : \A u \in T : ~(u \subseteq t /\ u # t)
  <1>1. IsWellFoundedOn(StrictSubsetOrdering(S), SUBSET S)
    BY FS_StrictSubsetOrderingWellFounded, FS_FiniteSubsetsOfFinite
  <1>2. PICK t \in T : \A u \in T : ~(<<u, t>> \in StrictSubsetOrdering(S))
    BY <1>1, WFMin
  <1>3. ASSUME NEW u \in T, u \subseteq t, u # t
        PROVE  FALSE
    <2>1. <<u, t>> \in StrictSubsetOrdering(S)
      BY <1>3 DEF StrictSubsetOrdering
    <2> QED
      BY <1>2, <2>1
  <1> QED
    BY <1>3

(* Two solutions agree wherever both are defined.                          *)
LEMMA SolutionsAgree ==
    ASSUME NEW v, NEW S, NEW T, IsFiniteSet(S),
           NEW g, Solves(g, v, S), NEW h, Solves(h, v, T),
           NEW s, s \subseteq S, s \subseteq T
    PROVE  g[s] = h[s]
  <1> DEFINE Bad == {t \in SUBSET s : g[t] # h[t]}
  <1> SUFFICES ASSUME Bad # {}
               PROVE  FALSE
    OBVIOUS
  <1>1. IsFiniteSet(s)
    BY FS_Subset
  <1>2. PICK t \in Bad : \A u \in Bad : ~(u \subseteq t /\ u # t)
    <2>1. Bad \subseteq SUBSET s
      OBVIOUS
    <2> HIDE DEF Bad
    <2> QED
      BY <1>1, <2>1, LeastSubset
  <1>3. t \in SUBSET S /\ t \in SUBSET T
    OBVIOUS
  <1>4. /\ g[t] = IF t = {} THEN 0 ELSE v[Pick(t)] + g[t \ {Pick(t)}]
        /\ h[t] = IF t = {} THEN 0 ELSE v[Pick(t)] + h[t \ {Pick(t)}]
    BY <1>3 DEF Solves
  <1>5. CASE t = {}
    BY <1>4, <1>5
  <1>6. CASE t # {}
    <2>1. Pick(t) \in t
      BY <1>6, PickIn
    <2>2. t \ {Pick(t)} \subseteq t /\ t \ {Pick(t)} # t /\ t \ {Pick(t)} \in SUBSET s
      BY <2>1
    <2>3. g[t \ {Pick(t)}] = h[t \ {Pick(t)}]
      BY <1>2, <2>2
    <2> QED
      BY <1>4, <1>6, <2>3
  <1> QED
    BY <1>5, <1>6

(* Every finite set has a solution.                                        *)
LEMMA SolutionExists ==
    ASSUME NEW v, NEW S, IsFiniteSet(S)
    PROVE  \E g : Solves(g, v, S)
  <1> DEFINE Sol(t) == CHOOSE g : Solves(g, v, t)
             Bad == {t \in SUBSET S : ~ \E g : Solves(g, v, t)}
  <1> SUFFICES ASSUME Bad # {}
               PROVE  FALSE
    OBVIOUS
  <1>1. PICK t \in Bad : \A u \in Bad : ~(u \subseteq t /\ u # t)
    <2>1. Bad \subseteq SUBSET S
      OBVIOUS
    <2> HIDE DEF Bad
    <2> QED
      BY <2>1, LeastSubset
  <1>2. \A u : u \subseteq t /\ u # t => Solves(Sol(u), v, u)
    BY <1>1
  <1> HIDE DEF Sol
  <1> DEFINE f == [s \in SUBSET t |->
                     IF s = {} THEN 0
                     ELSE v[Pick(s)] + Sol(s \ {Pick(s)})[s \ {Pick(s)}]]
  <1>3. ASSUME NEW s, s \subseteq t, s # t
        PROVE  f[s] = Sol(s)[s]
    <2>1. Solves(Sol(s), v, s)
      BY <1>2, <1>3
    <2>2. Sol(s)[s] = IF s = {} THEN 0 ELSE v[Pick(s)] + Sol(s)[s \ {Pick(s)}]
      BY <2>1 DEF Solves
    <2>3. CASE s = {}
      BY <2>2, <2>3
    <2>4. CASE s # {}
      <3> DEFINE r == s \ {Pick(s)}
      <3>1. r \subseteq s /\ r # s /\ r \subseteq t /\ r # t
        BY <1>3, <2>4, PickIn
      <3>2. Solves(Sol(r), v, r)
        BY <1>2, <3>1
      <3>3. IsFiniteSet(r)
        BY <1>3, <3>1, FS_Subset
      <3>4. Sol(s)[r] = Sol(r)[r]
        BY <2>1, <3>1, <3>2, <3>3, SolutionsAgree
      <3>5. f[s] = v[Pick(s)] + Sol(r)[r]
        BY <1>3, <2>4
      <3> QED
        BY <2>2, <2>4, <3>4, <3>5
    <2> QED
      BY <2>3, <2>4
  <1>4. Solves(f, v, t)
    <2>1. ASSUME NEW s \in SUBSET t
          PROVE  f[s] = IF s = {} THEN 0 ELSE v[Pick(s)] + f[s \ {Pick(s)}]
      <3>1. CASE s = {}
        BY <3>1
      <3>2. CASE s # {}
        <4>1. s \ {Pick(s)} \subseteq t /\ s \ {Pick(s)} # t
          BY <3>2, PickIn
        <4>2. f[s \ {Pick(s)}] = Sol(s \ {Pick(s)})[s \ {Pick(s)}]
          BY <1>3, <4>1
        <4> QED
          BY <3>2, <4>2
      <3> QED
        BY <3>1, <3>2
    <2>2. f = [s \in SUBSET t |-> f[s]]
      OBVIOUS
    <2> HIDE DEF f
    <2> QED
      BY <2>1, <2>2 DEF Solves
  <1> QED
    BY <1>1, <1>4

-----------------------------------------------------------------------------
(* What the sum is.                                                        *)

LEMMA SumSolution ==
    ASSUME NEW v, NEW S, IsFiniteSet(S), NEW T, T \subseteq S
    PROVE  SumOf(v, T) = (CHOOSE g : Solves(g, v, S))[T]
  <1>1. IsFiniteSet(T)
    BY FS_Subset
  <1>2. PICK g : g = CHOOSE f : Solves(f, v, S)
    OBVIOUS
  <1>3. PICK h : h = CHOOSE f : Solves(f, v, T)
    OBVIOUS
  <1>4. Solves(g, v, S) /\ Solves(h, v, T)
    BY <1>1, <1>2, <1>3, SolutionExists
  <1>5. h[T] = g[T]
    <2>1. T \subseteq T
      OBVIOUS
    <2>2. \A t : t \subseteq T /\ t \subseteq S => h[t] = g[t]
      BY <1>1, <1>4, SolutionsAgree
    <2> QED
      BY <2>1, <2>2
  <1> QED
    BY <1>2, <1>3, <1>5 DEF SumOf

LEMMA SumEmpty ==
    ASSUME NEW v
    PROVE  SumOf(v, {}) = 0
  <1>1. Solves((CHOOSE g : Solves(g, v, {})), v, {})
    BY FS_EmptySet, SolutionExists
  <1> QED
    BY <1>1 DEF SumOf, Solves

LEMMA SumPick ==
    ASSUME NEW v, NEW S, IsFiniteSet(S), S # {}
    PROVE  SumOf(v, S) = v[Pick(S)] + SumOf(v, S \ {Pick(S)})
  <1> DEFINE g == CHOOSE g : Solves(g, v, S)
  <1>1. Solves(g, v, S)
    BY SolutionExists
  <1>2. SumOf(v, S) = g[S] /\ SumOf(v, S \ {Pick(S)}) = g[S \ {Pick(S)}]
    BY SumSolution
  <1> HIDE DEF g
  <1> QED
    BY <1>1, <1>2 DEF Solves

LEMMA SumInt ==
    ASSUME NEW v, NEW S, IsFiniteSet(S), \A x \in S : v[x] \in Int
    PROVE  SumOf(v, S) \in Int
  <1> DEFINE Bad == {t \in SUBSET S : SumOf(v, t) \notin Int}
  <1> SUFFICES ASSUME Bad # {}
               PROVE  FALSE
    OBVIOUS
  <1>1. PICK t \in Bad : \A u \in Bad : ~(u \subseteq t /\ u # t)
    <2>1. Bad \subseteq SUBSET S
      OBVIOUS
    <2> HIDE DEF Bad
    <2> QED
      BY <2>1, LeastSubset
  <1>2. IsFiniteSet(t)
    BY FS_Subset
  <1>3. t # {}
    BY SumEmpty
  <1>4. Pick(t) \in t /\ SumOf(v, t) = v[Pick(t)] + SumOf(v, t \ {Pick(t)})
    BY <1>2, <1>3, SumPick, PickIn
  <1>5. SumOf(v, t \ {Pick(t)}) \in Int
    BY <1>1, <1>4
  <1> QED
    BY <1>1, <1>4, <1>5

(* Any element can be taken out first.                                     *)
LEMMA SumRemove ==
    ASSUME NEW v, NEW S, IsFiniteSet(S), \A x \in S : v[x] \in Int,
           NEW a \in S
    PROVE  SumOf(v, S) = v[a] + SumOf(v, S \ {a})
  <1> DEFINE Bad == {t \in SUBSET S :
                        \E x \in t : SumOf(v, t) # v[x] + SumOf(v, t \ {x})}
  <1> SUFFICES ASSUME Bad # {}
               PROVE  FALSE
    OBVIOUS
  <1>1. PICK t \in Bad : \A u \in Bad : ~(u \subseteq t /\ u # t)
    <2>1. Bad \subseteq SUBSET S
      OBVIOUS
    <2> HIDE DEF Bad
    <2> QED
      BY <2>1, LeastSubset
  <1>2. PICK x \in t : SumOf(v, t) # v[x] + SumOf(v, t \ {x})
    BY <1>1
  <1>3. PICK p : p = Pick(t)
    OBVIOUS
  <1>4. IsFiniteSet(t) /\ p \in t
    BY <1>2, <1>3, FS_Subset, PickIn
  <1>5. SumOf(v, t) = v[p] + SumOf(v, t \ {p})
    BY <1>2, <1>3, <1>4, SumPick
  <1>6. CASE x = p
    BY <1>2, <1>5, <1>6
  <1>7. CASE x # p
    <2>1. \A u : u \subseteq t /\ u # t =>
              \A y \in u : SumOf(v, u) = v[y] + SumOf(v, u \ {y})
      BY <1>1
    <2>2. SumOf(v, t \ {p}) = v[x] + SumOf(v, (t \ {p}) \ {x})
      BY <1>4, <1>7, <2>1
    <2>3. SumOf(v, t \ {x}) = v[p] + SumOf(v, (t \ {p}) \ {x})
      <3>1. (t \ {x}) \ {p} = (t \ {p}) \ {x}
        OBVIOUS
      <3>2. SumOf(v, t \ {x}) = v[p] + SumOf(v, (t \ {x}) \ {p})
        BY <1>2, <1>4, <1>7, <2>1
      <3> QED
        BY <3>1, <3>2
    <2>4. PICK rest : rest = SumOf(v, (t \ {p}) \ {x})
      OBVIOUS
    <2>5. rest \in Int
      <3>1. IsFiniteSet((t \ {p}) \ {x})
        BY <1>4, FS_Subset
      <3> QED
        BY <1>1, <2>4, <3>1, SumInt
    <2>6. v[x] \in Int /\ v[p] \in Int
      BY <1>1, <1>2, <1>4
    <2>7. SumOf(v, t) = v[p] + (v[x] + rest)
      BY <1>5, <2>2, <2>4
    <2>8. v[x] + SumOf(v, t \ {x}) = v[x] + (v[p] + rest)
      BY <2>3, <2>4
    <2> HIDE DEF Bad
    <2>9. v[p] + (v[x] + rest) = v[x] + (v[p] + rest)
      BY <2>5, <2>6
    <2> QED
      BY <1>2, <2>7, <2>8, <2>9
  <1> QED
    BY <1>6, <1>7

LEMMA SumAdd ==
    ASSUME NEW v, NEW S, IsFiniteSet(S), \A x \in S : v[x] \in Int,
           NEW a, a \notin S, v[a] \in Int
    PROVE  SumOf(v, S \cup {a}) = v[a] + SumOf(v, S)
  <1>1. IsFiniteSet(S \cup {a})
    BY FS_AddElement
  <1>2. (S \cup {a}) \ {a} = S
    OBVIOUS
  <1> QED
    BY <1>1, <1>2, SumRemove

(* The sum over two disjoint sets.                                         *)
LEMMA SumUnion ==
    ASSUME NEW v, NEW S, NEW T, IsFiniteSet(S), IsFiniteSet(T), S \cap T = {},
           \A x \in S \cup T : v[x] \in Int
    PROVE  SumOf(v, S \cup T) = SumOf(v, S) + SumOf(v, T)
  <1> DEFINE Bad == {t \in SUBSET T :
                        SumOf(v, S \cup t) # SumOf(v, S) + SumOf(v, t)}
  <1> SUFFICES ASSUME Bad # {}
               PROVE  FALSE
    OBVIOUS
  <1>1. PICK t \in Bad : \A u \in Bad : ~(u \subseteq t /\ u # t)
    <2>1. Bad \subseteq SUBSET T
      OBVIOUS
    <2> HIDE DEF Bad
    <2> QED
      BY <2>1, LeastSubset
  <1>2. IsFiniteSet(t) /\ IsFiniteSet(S \cup t)
    BY FS_Subset, FS_Union
  <1>3. SumOf(v, S) \in Int
    BY SumInt
  <1>4. CASE t = {}
    BY <1>1, <1>3, <1>4, SumEmpty
  <1>5. CASE t # {}
    <2>1. PICK a : a \in t
      BY <1>5
    <2>2. SumOf(v, S \cup (t \ {a})) = SumOf(v, S) + SumOf(v, t \ {a})
      BY <1>1, <2>1
    <2>3. SumOf(v, t) = v[a] + SumOf(v, t \ {a})
      BY <1>2, <2>1, SumRemove
    <2>4. SumOf(v, S \cup t) = v[a] + SumOf(v, S \cup (t \ {a}))
      <3>1. (S \cup t) \ {a} = S \cup (t \ {a})
        BY <2>1
      <3> QED
        BY <1>2, <2>1, <3>1, SumRemove
    <2>5. SumOf(v, t \ {a}) \in Int /\ v[a] \in Int
      <3>1. IsFiniteSet(t \ {a})
        BY <1>2, FS_Subset
      <3> QED
        BY <2>1, <3>1, SumInt
    <2> QED
      BY <1>1, <1>3, <2>2, <2>3, <2>4, <2>5
  <1> QED
    BY <1>4, <1>5

LEMMA SumNat ==
    ASSUME NEW v, NEW S, IsFiniteSet(S), \A x \in S : v[x] \in Nat
    PROVE  SumOf(v, S) \in Nat
  <1> DEFINE Bad == {t \in SUBSET S : SumOf(v, t) \notin Nat}
  <1> SUFFICES ASSUME Bad # {}
               PROVE  FALSE
    OBVIOUS
  <1>1. PICK t \in Bad : \A u \in Bad : ~(u \subseteq t /\ u # t)
    <2>1. Bad \subseteq SUBSET S
      OBVIOUS
    <2> HIDE DEF Bad
    <2> QED
      BY <2>1, LeastSubset
  <1>2. IsFiniteSet(t)
    BY FS_Subset
  <1>3. t # {}
    BY SumEmpty
  <1>4. Pick(t) \in t /\ SumOf(v, t) = v[Pick(t)] + SumOf(v, t \ {Pick(t)})
    BY <1>2, <1>3, SumPick, PickIn
  <1>5. SumOf(v, t \ {Pick(t)}) \in Nat
    BY <1>1, <1>4
  <1> QED
    BY <1>1, <1>4, <1>5

-----------------------------------------------------------------------------
(* TotalValue is such a sum.                                               *)

LEMMA TotalValueIsSum ==
    ASSUME NEW S, NEW v, \A u \in S : v[u] = u.value
    PROVE  TotalValue(S) = SumOf(v, S)
  <1>1. TotalValue(S) =
            (CHOOSE g : g = [s \in SUBSET S |->
                IF s = {} THEN 0 ELSE Pick(s).value + g[s \ {Pick(s)}]])[S]
    BY DEF TotalValue, MapThenSumSet, MapThenFoldSet, Pick
  <1>2. \A s \in SUBSET S : s # {} => Pick(s).value = v[Pick(s)]
    BY PickIn
  <1>3. ASSUME NEW g
        PROVE  [s \in SUBSET S |->
                   IF s = {} THEN 0 ELSE Pick(s).value + g[s \ {Pick(s)}]]
               = [s \in SUBSET S |->
                   IF s = {} THEN 0 ELSE v[Pick(s)] + g[s \ {Pick(s)}]]
    BY <1>2
  <1>4. \A g : Solves(g, v, S) <=>
                 g = [s \in SUBSET S |->
                   IF s = {} THEN 0 ELSE Pick(s).value + g[s \ {Pick(s)}]]
    BY <1>3 DEF Solves
  <1> QED
    BY ZenonT(40), <1>1, <1>4 DEF SumOf

(* The image of a finite set, and the outputs of a transaction.            *)
LEMMA ImageFinite ==
    ASSUME NEW S, IsFiniteSet(S), NEW f
    PROVE  IsFiniteSet({f[x] : x \in S})
  <1> DEFINE T == {f[x] : x \in S}
             g == [x \in S |-> f[x]]
  <1>1. g \in Surjection(S, T)
    BY DEF Surjection
  <1> HIDE DEF g
  <1> QED
    BY <1>1, FS_Surjection

LEMMA OutputsFinite ==
    ASSUME NEW tx, NEW V, tx.outputs \in Seq(V)
    PROVE  IsFiniteSet(OutputsOf(tx))
  <1> DEFINE f == [i \in DOMAIN tx.outputs |->
                     [txId |-> tx.id, outputIndex |-> i - 1,
                      value |-> tx.outputs[i].value, to |-> tx.outputs[i].to]]
  <1>1. IsFiniteSet(DOMAIN tx.outputs)
    <2>1. DOMAIN tx.outputs = 1 .. Len(tx.outputs) /\ Len(tx.outputs) \in Nat
      OBVIOUS
    <2> QED
      BY <2>1, FS_Interval
  <1>2. OutputsOf(tx) = {f[i] : i \in DOMAIN tx.outputs}
    BY DEF OutputsOf
  <1> HIDE DEF f
  <1> QED
    BY <1>1, <1>2, ImageFinite

LEMMA TotalValueInt ==
    ASSUME NEW S, IsFiniteSet(S), \A u \in S : u.value \in Int
    PROVE  TotalValue(S) \in Int
  <1> DEFINE v == [u \in S |-> u.value]
  <1>1. TotalValue(S) = SumOf(v, S)
    BY TotalValueIsSum
  <1>2. \A u \in S : v[u] \in Int
    OBVIOUS
  <1> HIDE DEF v
  <1> QED
    BY <1>1, <1>2, SumInt

(* Coins that are each worth something are worth something together.       *)
LEMMA TotalValuePositive ==
    ASSUME NEW S, IsFiniteSet(S), S # {}, \A u \in S : u.value \in Nat \ {0}
    PROVE  TotalValue(S) \in Nat \ {0}
  <1> DEFINE v == [u \in S |-> u.value]
  <1>1. TotalValue(S) = SumOf(v, S)
    BY TotalValueIsSum
  <1>2. \A u \in S : v[u] \in Nat \ {0}
    OBVIOUS
  <1> HIDE DEF v
  <1>3. Pick(S) \in S /\ SumOf(v, S) = v[Pick(S)] + SumOf(v, S \ {Pick(S)})
    BY SumPick, PickIn
  <1>4. SumOf(v, S \ {Pick(S)}) \in Nat
    <2>1. IsFiniteSet(S \ {Pick(S)})
      BY FS_RemoveElement
    <2> QED
      BY <1>2, <2>1, SumNat
  <1> QED
    BY <1>1, <1>2, <1>3, <1>4

LEMMA TotalValueUnion ==
    ASSUME NEW S, IsFiniteSet(S), \A u \in S : u.value \in Int,
           NEW T, IsFiniteSet(T), \A u \in T : u.value \in Int,
           S \cap T = {}
    PROVE  TotalValue(S \cup T) = TotalValue(S) + TotalValue(T)
  <1> DEFINE v == [u \in S \cup T |-> u.value]
  <1>1. /\ TotalValue(S) = SumOf(v, S)
        /\ TotalValue(T) = SumOf(v, T)
        /\ TotalValue(S \cup T) = SumOf(v, S \cup T)
    BY TotalValueIsSum
  <1>2. \A u \in S \cup T : v[u] \in Int
    OBVIOUS
  <1> HIDE DEF v
  <1> QED
    BY <1>1, <1>2, SumUnion

LEMMA TotalValueOne ==
    ASSUME NEW u, u.value \in Int
    PROVE  TotalValue({u}) = u.value
  <1> DEFINE v == [x \in {u} |-> x.value]
  <1>1. TotalValue({u}) = SumOf(v, {u}) /\ v[u] = u.value
    BY TotalValueIsSum
  <1>2. {u} = {} \cup {u}
    OBVIOUS
  <1> HIDE DEF v
  <1>3. SumOf(v, {} \cup {u}) = v[u] + SumOf(v, {})
    BY <1>1, FS_EmptySet, SumAdd
  <1> QED
    BY <1>1, <1>2, <1>3, SumEmpty

LEMMA TotalValueEmpty == TotalValue({}) = 0
  <1> DEFINE v == [x \in {} |-> x.value]
  <1>1. TotalValue({}) = SumOf(v, {})
    BY TotalValueIsSum
  <1> HIDE DEF v
  <1> QED
    BY <1>1, SumEmpty

-----------------------------------------------------------------------------
(* Retargeting.                                                            *)

AllowedRange == MinDifficulty .. MaxDifficulty

(* A quotient of positive denominator between the two absolute bounds.     *)
InRange(q) ==
    /\ q.num \in Int /\ q.den \in Nat \ {0}
    /\ MinDifficulty * q.den <= q.num
    /\ q.num <= MaxDifficulty * q.den

(* A quotient the retarget formula may produce, Infinity included.         *)
Retargeted(q) ==
    /\ q.num \in Int /\ q.den \in Nat
    /\ q.den = 0 => q.num = 1

LEMMA ProductMonotone ==
    ASSUME NEW a \in Int, NEW b \in Int, NEW d \in Nat, a <= b
    PROVE  a * d <= b * d
  <1>1. PICK k \in Nat : b = a + k
    <2>1. b - a \in Nat /\ b = a + (b - a)
      OBVIOUS
    <2> QED
      BY <2>1
  <1>2. k * d \in Nat
    OBVIOUS
  <1> QED
    BY <1>1, <1>2

LEMMA DivisionBounds ==
    ASSUME NEW p \in Int, NEW d \in Nat \ {0}
    PROVE  /\ p \div d \in Int
           /\ (p \div d) * d <= p
           /\ p < (p \div d) * d + d
  OBVIOUS

LEMMA FloorInRange ==
    ASSUME NEW q, InRange(q)
    PROVE  Floor(q) \in AllowedRange
  <1> DEFINE f == q.num \div q.den
  <1>1. /\ q.num \in Int /\ q.den \in Nat \ {0}
        /\ MinDifficulty * q.den <= q.num
        /\ q.num <= MaxDifficulty * q.den
        /\ MinDifficulty \in Int /\ MaxDifficulty \in Int
    BY DifficultyAssumption DEF InRange
  <1>2. f \in Int /\ f * q.den <= q.num /\ q.num < f * q.den + q.den
    BY <1>1, DivisionBounds
  <1> HIDE DEF f
  <1>3. MinDifficulty <= f
    <2> SUFFICES ASSUME f + 1 <= MinDifficulty
                 PROVE  FALSE
      BY <1>1, <1>2
    <2>1. (f + 1) * q.den <= MinDifficulty * q.den
      BY <1>1, <1>2, ProductMonotone
    <2>2. (f + 1) * q.den = f * q.den + q.den
      BY <1>1, <1>2
    <2> QED
      BY <1>1, <1>2, <2>1, <2>2
  <1>4. f <= MaxDifficulty
    <2> SUFFICES ASSUME MaxDifficulty + 1 <= f
                 PROVE  FALSE
      BY <1>1, <1>2
    <2>1. (MaxDifficulty + 1) * q.den <= f * q.den
      BY <1>1, <1>2, ProductMonotone
    <2>2. (MaxDifficulty + 1) * q.den = MaxDifficulty * q.den + q.den
      BY <1>1
    <2> QED
      BY <1>1, <1>2, <2>1, <2>2
  <1> QED
    BY <1>1, <1>2, <1>3, <1>4 DEF Floor, AllowedRange, f

LEMMA WholeInRange ==
    ASSUME NEW k \in AllowedRange
    PROVE  InRange(Whole(k))
  BY DifficultyAssumption DEF InRange, Whole, AllowedRange

(* The absolute bounds bring any quotient into the range, Infinity too.    *)
LEMMA AbsoluteBoundsInRange ==
    ASSUME NEW q, Retargeted(q)
    PROVE  InRange(AbsoluteBounds(q))
  <1> USE DifficultyAssumption
  <1>1. /\ InRange(Whole(MinDifficulty))
        /\ InRange(Whole(MaxDifficulty))
    BY WholeInRange DEF AllowedRange
  <1>2. /\ Whole(MinDifficulty).num = MinDifficulty
        /\ Whole(MinDifficulty).den = 1
        /\ Whole(MaxDifficulty).num = MaxDifficulty
        /\ Whole(MaxDifficulty).den = 1
    BY DEF Whole
  <1>3. CASE q.den = 0
    <2>1. Less(Whole(MaxDifficulty), q) /\ ~Less(q, Whole(MinDifficulty))
      <3>1. q.num = 1 /\ MinDifficulty * 0 = 0 /\ MaxDifficulty * 0 = 0
        BY <1>3 DEF Retargeted
      <3> QED
        BY <1>2, <1>3, <3>1 DEF Less
    <2> QED
      BY <1>1, <2>1 DEF AbsoluteBounds
  <1>4. CASE q.den # 0 /\ ~Less(q, Whole(MinDifficulty)) /\ ~Less(Whole(MaxDifficulty), q)
    <2>1. q.num \in Int /\ q.den \in Nat \ {0}
      BY <1>4 DEF Retargeted
    <2>2. MinDifficulty * q.den <= q.num /\ q.num <= MaxDifficulty * q.den
      BY <1>2, <1>4, <2>1 DEF Less
    <2> QED
      BY <1>4, <2>1, <2>2 DEF InRange, AbsoluteBounds
  <1> QED
    BY <1>1, <1>3, <1>4 DEF AbsoluteBounds

(* The ratio bounds keep it there.                                         *)
LEMMA DifficultyBoundsInRange ==
    ASSUME NEW q, Retargeted(q), NEW c \in AllowedRange
    PROVE  InRange(DifficultyBounds(q, c))
  <1> USE DifficultyAssumption
  <1>1. PICK b : b = AbsoluteBounds(q)
    OBVIOUS
  <1>2. /\ b.num \in Int /\ b.den \in Nat \ {0}
        /\ MinDifficulty * b.den <= b.num
        /\ b.num <= MaxDifficulty * b.den
    BY <1>1, AbsoluteBoundsInRange DEF InRange
  <1>3. PICK r : r = MaxDifficultyRatio
    OBVIOUS
  <1>4. r \in Nat \ {0} /\ c \in Nat /\ MinDifficulty <= c /\ c <= MaxDifficulty
    BY <1>3 DEF AllowedRange
  <1>5. c * r \in Nat /\ c <= c * r
    <2>1. 1 * c <= r * c
      BY <1>4, ProductMonotone
    <2> QED
      BY <1>4, <2>1
  <1>6. CASE Less(Whole(c * r), b)
    <2>1. (c * r) * b.den < b.num
      BY <1>2, <1>5, <1>6 DEF Less, Whole
    <2>2. (c * r) < MaxDifficulty
      <3> SUFFICES ASSUME MaxDifficulty <= c * r
                   PROVE  FALSE
        BY <1>5
      <3>1. MaxDifficulty * b.den <= (c * r) * b.den
        BY <1>2, <1>5, ProductMonotone
      <3> QED
        BY <1>2, <1>5, <2>1, <3>1
    <2>3. c * r \in AllowedRange
      BY <1>4, <1>5, <2>2 DEF AllowedRange
    <2> QED
      BY <1>1, <1>3, <1>6, <2>3, WholeInRange DEF DifficultyBounds
  <1>7. CASE /\ ~Less(Whole(c * r), b)
             /\ Less(b, [num |-> c, den |-> r])
             /\ Less(Whole(MinDifficulty), b)
    <2>1. b.num * r < c * b.den /\ MinDifficulty * b.den < b.num
      BY <1>2, <1>4, <1>7 DEF Less, Whole
    <2>2. MinDifficulty * r <= c
      <3> SUFFICES ASSUME c + 1 <= MinDifficulty * r
                   PROVE  FALSE
        BY <1>4
      <3>1. (MinDifficulty * b.den) * r <= b.num * r
        BY <1>2, <1>4, ProductMonotone
      <3>2. c * b.den <= (MinDifficulty * r) * b.den
        BY <1>2, <1>4, ProductMonotone
      <3>3. (MinDifficulty * b.den) * r = (MinDifficulty * r) * b.den
        BY <1>2, <1>4
      <3> QED
        BY <1>2, <1>4, <2>1, <3>1, <3>2, <3>3
    <2>3. c <= MaxDifficulty * r
      <3>1. 1 * MaxDifficulty <= r * MaxDifficulty
        BY <1>4, ProductMonotone
      <3> QED
        BY <1>4, <3>1
    <2>4. InRange([num |-> c, den |-> r])
      BY <1>4, <2>2, <2>3 DEF InRange
    <2> QED
      BY <1>1, <1>3, <1>7, <2>4 DEF DifficultyBounds
  <1>8. CASE /\ ~Less(Whole(c * r), b)
             /\ ~(Less(b, [num |-> c, den |-> r]) /\ Less(Whole(MinDifficulty), b))
    BY <1>1, <1>2, <1>3, <1>8 DEF DifficultyBounds, InRange
  <1> QED
    BY <1>6, <1>7, <1>8

LEMMA RetargetRetargeted ==
    ASSUME NEW c \in Nat, NEW timespan \in Int, NEW k \in Nat
    PROVE  Retargeted(Retarget(c, timespan, k))
  <1>1. c * TargetBlockTime * k \in Nat
    BY DifficultyAssumption DEF AllowedRange
  <1> QED
    BY <1>1 DEF Retargeted, Retarget

(* Whatever the timestamps, the next difficulty is in the range.           *)
LEMMA NextInRange ==
    ASSUME NEW c \in AllowedRange, NEW ts \in Seq(Int)
    PROVE  CalculateNextDifficulty(c, ts) \in AllowedRange
  <1> USE DifficultyAssumption
  <1>1. PICK count : count = IF Len(ts) < AdjustmentPeriod THEN Len(ts)
                                                           ELSE AdjustmentPeriod
    OBVIOUS
  <1>2. count \in Nat /\ count <= Len(ts) /\ Len(ts) \in Nat
    BY <1>1
  <1>3. CASE count < 2
    BY <1>1, <1>3 DEF CalculateNextDifficulty
  <1>4. CASE ~(count < 2)
    <2>1. ts[Len(ts)] - ts[Len(ts) - count + 1] \in Int
      BY <1>2, <1>4
    <2>2. count - 1 \in Nat /\ c \in Nat
      BY <1>2, <1>4 DEF AllowedRange
    <2> DEFINE q == Retarget(c, ts[Len(ts)] - ts[Len(ts) - count + 1], count - 1)
    <2>3. Floor(DifficultyBounds(q, c)) \in AllowedRange
      BY <2>1, <2>2, RetargetRetargeted, DifficultyBoundsInRange, FloorInRange
    <2> QED
      BY <1>1, <1>4, <2>3 DEF CalculateNextDifficulty
  <1> QED
    BY <1>3, <1>4

-----------------------------------------------------------------------------
(* From any positive difficulty, in the range or not, the next one is      *)
(* positive.                                                               *)

Positive(q) ==
    /\ q.num \in Int /\ q.den \in Nat \ {0}
    /\ q.den <= q.num

LEMMA FloorPositive ==
    ASSUME NEW q, Positive(q)
    PROVE  Floor(q) \in Nat \ {0}
  <1> DEFINE f == q.num \div q.den
  <1>1. f \in Int /\ q.num < f * q.den + q.den
    BY DivisionBounds DEF Positive
  <1> HIDE DEF f
  <1>2. f > 0
    <2> SUFFICES ASSUME f <= 0
                 PROVE  FALSE
      BY <1>1
    <2>1. f * q.den <= 0 * q.den
      BY <1>1, ProductMonotone DEF Positive
    <2> QED
      BY <1>1, <2>1 DEF Positive
  <1> QED
    BY <1>1, <1>2 DEF Floor, f

LEMMA DifficultyBoundsPositive ==
    ASSUME NEW q, Retargeted(q), NEW c \in Nat \ {0}
    PROVE  Positive(DifficultyBounds(q, c))
  <1> USE DifficultyAssumption
  <1>1. PICK b : b = AbsoluteBounds(q)
    OBVIOUS
  <1>2. b.num \in Int /\ b.den \in Nat \ {0} /\ b.den <= b.num
    <2>1. InRange(b)
      BY <1>1, AbsoluteBoundsInRange
    <2>2. 1 * b.den <= MinDifficulty * b.den
      BY <2>1, ProductMonotone DEF InRange
    <2> QED
      BY <2>1, <2>2 DEF InRange
  <1>3. PICK r : r = MaxDifficultyRatio
    OBVIOUS
  <1>4. r \in Nat \ {0}
    BY <1>3
  <1>5. c * r \in Nat \ {0}
    <2>1. 1 * c <= r * c
      BY <1>4, ProductMonotone
    <2> QED
      BY <1>4, <2>1
  <1>6. Positive(Whole(c * r))
    BY <1>5 DEF Positive, Whole
  <1>7. CASE Less(b, [num |-> c, den |-> r])
    <2>1. b.num * r < c * b.den
      BY <1>2, <1>4, <1>7 DEF Less
    <2>2. b.den * r <= b.num * r
      BY <1>2, <1>4, ProductMonotone
    <2>3. r <= c
      <3> SUFFICES ASSUME c <= r
                   PROVE  FALSE
        BY <1>4
      <3>1. c * b.den <= r * b.den
        BY <1>2, <1>4, ProductMonotone
      <3>2. r * b.den = b.den * r
        BY <1>2, <1>4
      <3>3. b.den * r \in Int /\ b.num * r \in Int /\ c * b.den \in Int
        BY <1>2, <1>4
      <3> QED
        BY <2>1, <2>2, <3>1, <3>2, <3>3
    <2> QED
      BY <1>1, <1>2, <1>3, <1>4, <1>6, <2>3 DEF DifficultyBounds, Positive
  <1>8. CASE ~Less(b, [num |-> c, den |-> r])
    BY <1>1, <1>2, <1>3, <1>6, <1>8 DEF DifficultyBounds, Positive
  <1> QED
    BY <1>7, <1>8

LEMMA NextPositive ==
    ASSUME NEW c \in Nat \ {0}, NEW ts \in Seq(Int)
    PROVE  CalculateNextDifficulty(c, ts) \in Nat \ {0}
  <1> USE DifficultyAssumption
  <1>1. PICK count : count = IF Len(ts) < AdjustmentPeriod THEN Len(ts)
                                                           ELSE AdjustmentPeriod
    OBVIOUS
  <1>2. count \in Nat /\ count <= Len(ts) /\ Len(ts) \in Nat
    BY <1>1
  <1>3. CASE count < 2
    BY <1>1, <1>3 DEF CalculateNextDifficulty
  <1>4. CASE ~(count < 2)
    <2>1. ts[Len(ts)] - ts[Len(ts) - count + 1] \in Int
      BY <1>2, <1>4
    <2>2. count - 1 \in Nat
      BY <1>2, <1>4
    <2> DEFINE q == Retarget(c, ts[Len(ts)] - ts[Len(ts) - count + 1], count - 1)
    <2>3. Floor(DifficultyBounds(q, c)) \in Nat \ {0}
      BY <2>1, <2>2, RetargetRetargeted, DifficultyBoundsPositive, FloorPositive
    <2> QED
      BY <1>1, <1>4, <2>3 DEF CalculateNextDifficulty
  <1> QED
    BY <1>3, <1>4
=============================================================================
