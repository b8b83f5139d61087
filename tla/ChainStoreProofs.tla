-------------------------- MODULE ChainStoreProofs --------------------------
(***************************************************************************)
(* Theorems about ChainStore: what the database holds can be built on,     *)
(* whatever was interrupted, for every number of blocks, transactions,     *)
(* allocations and crashes and for all parameters of the difficulty, as    *)
(* long as a call is awaited before the next one is made.                  *)
(***************************************************************************)
EXTENDS ChainStore, LedgerFacts

-----------------------------------------------------------------------------
(* Sequences of blocks in rising order.                                    *)

OnePerIndex(blocks) ==
    \A b, c \in blocks : b.index = c.index => b = c

Rising(s) ==
    /\ \A i, k \in DOMAIN s : i < k => s[i].index < s[k].index
    /\ \A i \in DOMAIN s : s[i].index >= i - 1

LEMMA LeastNat ==
    ASSUME NEW T, T \subseteq Nat, T # {}
    PROVE  \E n \in T : \A m \in T : n <= m
  <1>1. PICK n \in T : \A m \in T : ~ (<<m, n>> \in OpToRel(<, Nat))
    BY WFMin, NatLessThanWellFounded
  <1>2. \A m \in T : ~ (m < n)
    BY <1>1 DEF OpToRel
  <1> QED
    BY <1>2

(* The blocks of a finite set, one per index, can be put in order ...      *)
InOrder(s, S) ==
    /\ s \in [1 .. Cardinality(S) -> S]
    /\ \A i, j \in DOMAIN s : i < j => s[i].index < s[j].index

LEMMA OrderExists ==
    ASSUME NEW S, IsFiniteSet(S), \A b \in S : b.index \in Nat, OnePerIndex(S)
    PROVE  \E s : InOrder(s, S)
  <1> DEFINE Bad == {n \in Nat : \E T \in SUBSET S :
                                     Cardinality(T) = n /\ ~ \E s : InOrder(s, T)}
  <1>1. \A T \in SUBSET S : IsFiniteSet(T) /\ Cardinality(T) \in Nat
    BY FS_Subset, FS_CardinalityType
  <1>2. ASSUME Bad # {}
        PROVE  FALSE
    <2>1. PICK n \in Bad : \A m \in Bad : n <= m
      BY <1>2, LeastNat
    <2>2. PICK T \in SUBSET S : Cardinality(T) = n /\ ~ \E s : InOrder(s, T)
      BY <2>1
    <2>3. IsFiniteSet(T) /\ n \in Nat
      BY <1>1, <2>1
    <2>4. CASE T = {}
      <3>1. InOrder(<<>>, {})
        BY FS_EmptySet DEF InOrder
      <3> QED
        BY <2>2, <2>4, <3>1
    <2>5. CASE T # {}
      <3> DEFINE indices == {b.index : b \in T}
      <3>0. indices \subseteq Nat /\ indices # {}
        BY <2>5
      <3> HIDE DEF indices
      <3>1. PICK k \in indices : \A m \in indices : k <= m
        BY <3>0, LeastNat
      <3> USE DEF indices
      <3>2. PICK b \in T : b.index = k
        BY <3>1
      <3>3. \A c \in T \ {b} : b.index < c.index
        BY <3>1, <3>2 DEF OnePerIndex
      <3>4. Cardinality(T \ {b}) = n - 1 /\ n - 1 \in Nat
        <4>1. Cardinality(T \ {b}) = n - 1
          BY <2>2, <2>3, <3>2, FS_RemoveElement
        <4>2. T \ {b} \in SUBSET S
          OBVIOUS
        <4> QED
          BY <1>1, <4>1, <4>2
      <3>5. PICK s : InOrder(s, T \ {b})
        <4>1. n - 1 \notin Bad
          BY <2>1, <2>3, <3>4
        <4> QED
          BY <3>4, <4>1
      <3> DEFINE t == [i \in 1 .. n |-> IF i = 1 THEN b ELSE s[i - 1]]
      <3>6. s \in [1 .. n - 1 -> T \ {b}]
        BY <3>4, <3>5 DEF InOrder
      <3>7. t \in [1 .. n -> T]
        BY <2>3, <3>2, <3>6
      <3>8. ASSUME NEW i \in 1 .. n, NEW j \in 1 .. n, i < j
            PROVE  t[i].index < t[j].index
        <4>1. t[j] = s[j - 1] /\ j - 1 \in 1 .. n - 1
          BY <2>3, <3>8
        <4>2. CASE i = 1
          BY <3>3, <3>6, <4>1, <4>2
        <4>3. CASE i # 1
          <5>1. t[i] = s[i - 1] /\ i - 1 \in 1 .. n - 1 /\ i - 1 < j - 1
            BY <2>3, <3>8, <4>3
          <5> QED
            BY <3>5, <3>6, <4>1, <5>1 DEF InOrder
        <4> QED
          BY <4>2, <4>3
      <3> HIDE DEF t
      <3> QED
        BY <2>2, <3>7, <3>8 DEF InOrder
    <2> QED
      BY <2>4, <2>5
  <1> QED
    BY <1>1, <1>2

(* ... and ByIndex does.                                                   *)
LEMMA ByIndexOrders ==
    ASSUME NEW S, IsFiniteSet(S), \A b \in S : b.index \in Nat, OnePerIndex(S)
    PROVE  InOrder(ByIndex(S), S)
  <1>1. ByIndex(S) = CHOOSE s \in [1 .. Cardinality(S) -> S] : InOrder(s, S)
    BY DEF ByIndex, InOrder
  <1>2. \E s \in [1 .. Cardinality(S) -> S] : InOrder(s, S)
    BY OrderExists DEF InOrder
  <1> QED
    BY <1>1, <1>2

Enumerates(s, S) == s \in Seq(S) /\ Range(s) = S /\ Rising(s)

LEMMA ByIndexEnumerates ==
    ASSUME NEW S, IsFiniteSet(S), \A b \in S : b.index \in Nat, OnePerIndex(S)
    PROVE  Enumerates(ByIndex(S), S)
  <1>1. PICK s : s = ByIndex(S)
    OBVIOUS
  <1>2. PICK n : n = Cardinality(S)
    OBVIOUS
  <1>3. n \in Nat
    BY <1>2, FS_CardinalityType
  <1>4. s \in [1 .. n -> S] /\ DOMAIN s = 1 .. n
    BY <1>1, <1>2, ByIndexOrders DEF InOrder
  <1>5. \A i, j \in 1 .. n : i < j => s[i].index < s[j].index
    BY <1>1, <1>4, ByIndexOrders DEF InOrder
  <1>6. \A i \in 1 .. n : s[i] \in S /\ s[i].index \in Nat
    BY <1>4
  <1>7. s \in Injection(1 .. n, S)
    <2>1. ASSUME NEW i \in 1 .. n, NEW j \in 1 .. n, s[i] = s[j]
          PROVE  i = j
      BY <1>3, <1>5, <1>6, <2>1
    <2> QED
      BY <1>4, <2>1 DEF Injection, IsInjective
  <1>8. s \in Surjection(1 .. n, S)
    <2>1. Cardinality(1 .. n) = n
      BY <1>3, FS_Interval
    <2> QED
      BY <1>2, <1>7, <2>1, FS_Injection
  <1>9. Range(s) = S
    BY <1>4, <1>8 DEF Range, Surjection
  <1>10. \A i \in 1 .. n : s[i].index >= i - 1
    <2> DEFINE Bad == {i \in 1 .. n : ~(s[i].index >= i - 1)}
    <2>1. ASSUME Bad # {}
          PROVE  FALSE
      <3>0. Bad \subseteq Nat
        BY <1>3
      <3> HIDE DEF Bad
      <3>1. PICK i \in Bad : \A k \in Bad : i <= k
        BY <2>1, <3>0, LeastNat
      <3> USE DEF Bad
      <3>2. i \in 1 .. n /\ s[i].index \in Nat /\ s[i].index < i - 1
        BY <1>6, <3>1
      <3>3. i - 1 \in 1 .. n /\ s[i - 1].index \in Nat /\ s[i - 1].index < s[i].index
        BY <1>3, <1>5, <1>6, <3>2
      <3>4. i - 1 \in Bad
        BY <3>2, <3>3
      <3> QED
        BY <3>1, <3>2, <3>4
    <2> QED
      BY <2>1
  <1>11. s \in Seq(S)
    BY <1>3, <1>4
  <1> QED
    BY <1>1, <1>4, <1>5, <1>9, <1>10, <1>11 DEF Enumerates, Rising

(* A set with a block at every index up to some one has each in its place. *)
Covers(S, m) ==
    /\ \A b \in S : b.index \in Nat
    /\ \A i \in 0 .. m : \E b \in S : b.index = i

InPlace(s, m) == \A i \in 1 .. m + 1 : i \in DOMAIN s /\ s[i].index = i - 1

LEMMA GaplessEnumeration ==
    ASSUME NEW S, NEW s, Enumerates(s, S), NEW m \in Nat, Covers(S, m)
    PROVE  InPlace(s, m)
  <1>1. DOMAIN s = 1 .. Len(s) /\ Len(s) \in Nat
    BY DEF Enumerates
  <1>2. \A i \in DOMAIN s : s[i].index \in Nat /\ s[i].index >= i - 1
    BY DEF Enumerates, Rising, Covers
  <1>3. \A i, k \in DOMAIN s : i < k => s[i].index < s[k].index
    BY DEF Enumerates, Rising
  <1>4. \A i \in 0 .. m : \E k \in DOMAIN s : s[k].index = i
    BY DEF Enumerates, Range, Covers
  <1> DEFINE Bad == {i \in 1 .. m + 1 : ~(i \in DOMAIN s /\ s[i].index = i - 1)}
  <1>5. Bad \subseteq Nat
    OBVIOUS
  <1>6. ASSUME Bad # {}
        PROVE  FALSE
    <2> HIDE DEF Bad
    <2>1. PICK i \in Bad : \A k \in Bad : i <= k
      BY <1>5, <1>6, LeastNat
    <2> USE DEF Bad
    <2>2. i \in 1 .. m + 1 /\ ~(i \in DOMAIN s /\ s[i].index = i - 1)
      BY <2>1
    <2>3. PICK k \in DOMAIN s : s[k].index = i - 1
      BY <1>4, <2>2
    <2>4. k \in Nat /\ k >= 1
      BY <1>1, <2>3
    <2>5. ~(k < i)
      <3> SUFFICES ASSUME k < i
                   PROVE  FALSE
        OBVIOUS
      <3>1. k \in 1 .. m + 1 /\ k \notin Bad
        BY <2>1, <2>2, <2>4
      <3>2. s[k].index = k - 1
        BY <3>1
      <3> QED
        BY <2>2, <2>3, <2>4, <3>2
    <2>6. i \in DOMAIN s
      BY <1>1, <2>2, <2>3, <2>4, <2>5
    <2>7. i # k
      BY <2>2, <2>3
    <2>8. s[i].index < i - 1
      BY <1>3, <2>2, <2>3, <2>4, <2>5, <2>6, <2>7
    <2> QED
      BY <1>2, <2>2, <2>6, <2>8
  <1> QED
    BY <1>6 DEF InPlace

(* What is wrong with the pair of blocks at p and p + 1.                   *)
Broken(s, p) ==
    s[p + 1].index # s[p].index + 1 \/ s[p + 1].previousHash # s[p].hash

(* A chain that is not linked is broken at a first place.                  *)
LEMMA FirstGap ==
    ASSUME NEW s \in Seq(Blocks), s # <<>>, s[1].index = 0, ~Linked(s)
    PROVE  \E p \in 1 .. Len(s) - 1 :
               Broken(s, p) /\ \A i \in 1 .. p : s[i].index = i - 1
  <1>1. Len(s) \in Nat /\ DOMAIN s = 1 .. Len(s)
    OBVIOUS
  <1> DEFINE Gaps == {p \in 1 .. Len(s) - 1 : Broken(s, p)}
  <1>2. Gaps \subseteq Nat /\ Gaps # {}
    BY <1>1 DEF Linked, Broken
  <1> HIDE DEF Gaps
  <1>3. PICK p \in Gaps : \A q \in Gaps : p <= q
    BY <1>2, LeastNat
  <1>4. p \in 1 .. Len(s) - 1 /\ Broken(s, p)
    BY <1>3 DEF Gaps
  <1>5. \A q \in 1 .. p - 1 : s[q + 1].index = s[q].index + 1
    <2> SUFFICES ASSUME NEW q \in 1 .. p - 1
                 PROVE  s[q + 1].index = s[q].index + 1
      OBVIOUS
    <2>1. q \in 1 .. Len(s) - 1 /\ ~(p <= q)
      BY <1>1, <1>4
    <2>2. q \notin Gaps
      BY <1>3, <2>1
    <2> QED
      BY <2>1, <2>2 DEF Gaps, Broken
  <1> DEFINE Bad == {i \in 1 .. p : s[i].index # i - 1}
  <1>6. Bad \subseteq Nat
    OBVIOUS
  <1>7. ASSUME Bad # {}
        PROVE  FALSE
    <2> HIDE DEF Bad
    <2>1. PICK i \in Bad : \A k \in Bad : i <= k
      BY <1>6, <1>7, LeastNat
    <2> USE DEF Bad
    <2>2. i \in 1 .. p /\ s[i].index # i - 1 /\ i # 1
      BY <2>1
    <2>3. i - 1 \in 1 .. p - 1 /\ i - 1 \notin Bad
      BY <1>1, <1>4, <2>1, <2>2
    <2>4. s[i - 1].index = (i - 1) - 1
      BY <1>4, <2>3
    <2>5. s[(i - 1) + 1].index = s[i - 1].index + 1
      BY <1>5, <2>3
    <2> QED
      BY <1>1, <1>4, <2>2, <2>4, <2>5
  <1> QED
    BY <1>4, <1>7

-----------------------------------------------------------------------------
(* The inductive invariant.                                                *)

Writes ==
    [op: {"blocks"}, arg: SUBSET Blocks] \cup [op: {"latest"}, arg: Nat]
        \cup [op: {"utxo", "del utxo"}, arg: OutpointIds]
        \cup [op: {"bare utxos"}, arg: SUBSET OutpointIds]
        \cup [op: {"pending"}, arg: SUBSET Txs] \cup [op: {"tx"}, arg: Txs]
        \cup [op: {"difficulty"}, arg: Nat \ {0}]

Jobs ==
    [kind: {"genesis", "tx", "block", "save", "rebuild"},
     reports: SUBSET Blocks, writes: Seq(Writes)]

Disks ==
    [blocks: SUBSET Blocks, utxos: SUBSET OutpointIds,
     bareUtxos: SUBSET OutpointIds, pendingTxs: SUBSET Txs, txs: SUBSET Txs,
     latest: Nat \cup {Absent}, difficulty: (Nat \ {0}) \cup {Absent}]

(* One call at a time: it is the only one the database is working for.     *)
OneCall == jobs = <<>> \/ \E job \in Jobs : jobs = <<job>>

(* The values memory, the call in flight and the database consist of.      *)
ShapeInv ==
    /\ phase \in {"down", "starting", "up"}
    /\ chain \in Seq(Blocks)
    /\ utxo \subseteq OutpointIds
    /\ pending \subseteq Txs
    /\ difficulty \in Nat
    /\ disk \in Disks
    /\ made \subseteq Blocks
    /\ submitted \in Nat
    /\ phase # "down" => chain # <<>> /\ difficulty # 0
    /\ phase = "down" => chain = <<>> /\ jobs = <<>>
    /\ OneCall

FiniteInv ==
    /\ IsFiniteSet(made) /\ \A b \in made : IsFiniteSet(b.txs)
    /\ IsFiniteSet(pending)
    /\ IsFiniteSet(disk.utxos) /\ IsFiniteSet(disk.pendingTxs)

(* What is written is taken from the chain, and nothing is made up.        *)
OriginInv ==
    /\ Range(chain) \subseteq made
    /\ disk.blocks \subseteq made
    /\ acked \subseteq made
    /\ OnePerIndex(disk.blocks)
    /\ GenesisBlock \in made
    /\ \A b \in made : b.index = 0 => b = GenesisBlock
    /\ \A j \in DOMAIN jobs :
           /\ jobs[j].reports \subseteq Range(chain)
           /\ \A i \in DOMAIN jobs[j].writes :
                  /\ jobs[j].writes[i].op = "blocks" =>
                         jobs[j].writes[i].arg \subseteq Range(chain)
                  /\ jobs[j].writes[i].op = "pending" =>
                         IsFiniteSet(jobs[j].writes[i].arg)

(* Every chain starts with the genesis block and rises.                    *)
ChainInv ==
    phase # "down" => chain[1] = GenesisBlock /\ Rising(chain)

(* latest_block is written after the genesis block.                        *)
GenesisInv ==
    /\ disk.latest # Absent => GenesisBlock \in disk.blocks
    /\ phase = "up" => disk.latest # Absent
    /\ \A j \in DOMAIN jobs : jobs[j].kind = "genesis" <=> phase = "starting"
    /\ phase = "starting" =>
           /\ chain = <<GenesisBlock>>
           /\ disk.latest \in {Absent, 0}
           /\ \E job \in Jobs :
                  /\ jobs = <<job>>
                  /\ job.kind = "genesis"
                  /\ \A i \in DOMAIN job.writes :
                         job.writes[i].op = "latest" => job.writes[i].arg = 0
                  /\ \/ GenesisBlock \in disk.blocks
                     \/ job.writes # <<>> /\ job.writes[1] = PutBlocks({GenesisBlock})
                  /\ \/ disk.latest = 0
                     \/ \E i \in DOMAIN job.writes : job.writes[i].op = "latest"

-----------------------------------------------------------------------------
(* A chain with a gap after its block number p.                            *)
GapAfter(p) ==
    /\ p \in 1 .. Len(chain) - 1
    /\ \A i \in 1 .. p : chain[i].index = i - 1
    /\ chain[p + 1].index # p \/ chain[p + 1].previousHash # chain[p].hash
    /\ \A i \in 1 .. p + 1 : chain[i] \in disk.blocks
    /\ disk.latest >= p
    /\ chain[p + 1].index > p => \A b \in disk.blocks : b.index # p
    /\ \A j \in DOMAIN jobs : \A i \in DOMAIN jobs[j].writes :
           jobs[j].writes[i].op = "latest" => jobs[j].writes[i].arg >= p

GapInv == phase = "up" /\ ~Linked(chain) => \E p \in Nat : GapAfter(p)

-----------------------------------------------------------------------------
(* One source of blocks and no failing write.                              *)

Kept == {b \in disk.blocks : b.index \in 0 .. disk.latest}

Gapless(s) == Linked(s) /\ \A i \in DOMAIN s : s[i].index = i - 1

KeptGapless ==
    /\ \A i \in 0 .. disk.latest : \E b \in disk.blocks : b.index = i
    /\ \A b, c \in Kept : c.index = b.index + 1 => c.previousHash = b.hash

(* The latest_block a call is about to write: the chain up to it is stored *)
(* by then, and it is not below the one that is there.                     *)
Prepared(job, i) ==
    LET n == job.writes[i].arg + 1
    IN  /\ n \in 1 .. Len(chain)
        /\ disk.latest < n
        /\ \A k \in 1 .. n :
               \/ chain[k] \in disk.blocks
               \/ \E h \in 1 .. i - 1 :
                      job.writes[h].op = "blocks" /\ chain[k] \in job.writes[h].arg
        /\ \A b \in job.reports : b.index < n
        /\ \A k \in DOMAIN job.writes : job.writes[k].op = "latest" => k = i

JobInv(job) ==
    /\ \A i \in DOMAIN job.writes : job.writes[i].op = "latest" => Prepared(job, i)
    /\ (\A i \in DOMAIN job.writes : job.writes[i].op # "latest")
           => job.reports \subseteq Kept

(* Nothing of a follower's chain is left in memory alone.                  *)
FollowerStored ==
    ~mode.mines => \/ disk.latest = Len(chain) - 1
                   \/ \E j \in DOMAIN jobs : \E i \in DOMAIN jobs[j].writes :
                          jobs[j].writes[i] = PutLatest(Len(chain) - 1)

SourceInv ==
    SingleSource =>
        /\ phase # "down" => Gapless(chain)
        /\ KeptGapless
        /\ acked \subseteq Kept
        /\ phase = "up" =>
               /\ Kept \subseteq Range(chain)
               /\ FollowerStored
               /\ \A j \in DOMAIN jobs : JobInv(jobs[j])

Inv ==
    ShapeInv /\ FiniteInv /\ OriginInv /\ ChainInv /\ GenesisInv /\ GapInv /\ SourceInv

-----------------------------------------------------------------------------
(* What the operators of the store return.                                 *)

LEMMA SetToSeqLists ==
    ASSUME NEW S, IsFiniteSet(S)
    PROVE  SetToSeq(S) \in [1 .. Cardinality(S) -> S]
  <1>1. \E f \in [1 .. Cardinality(S) -> S] : IsInjective(f)
    BY FS_CardinalityType DEF ExistsBijection, Bijection, Injection
  <1> QED
    BY <1>1 DEF SetToSeq

(* A sequence of writes, one for each member of a finite set.              *)
LEMMA WriteEach ==
    ASSUME NEW S, IsFiniteSet(S), NEW W, NEW f, \A x \in S : f[x] \in W
    PROVE  [i \in 1 .. Cardinality(S) |-> f[SetToSeq(S)[i]]] \in Seq(W)
  <1>1. Cardinality(S) \in Nat
    BY FS_CardinalityType
  <1>2. \A i \in 1 .. Cardinality(S) : SetToSeq(S)[i] \in S
    BY SetToSeqLists
  <1> QED
    BY <1>1, <1>2

(* Writes that touch neither the blocks nor latest_block nor the mempool.  *)
QuietWrites == {w \in Writes : w.op \notin {"blocks", "latest", "pending"}}

LEMMA GenesisIsBlock ==
    GenesisBlock \in Blocks /\ IsFiniteSet(GenesisBlock.txs)
  BY StoreAssumption, FS_EmptySet DEF GenesisBlock, Blocks, Txs

LEMMA FrontOfConcatenation ==
    ASSUME NEW S, NEW a \in Seq(S), NEW b \in Seq(S), NEW i \in 1 .. Len(a)
    PROVE  (a \o b)[i] = a[i]
  OBVIOUS

(* What creating the genesis block writes.                                 *)
GenesisOnly ==
    {w \in Writes : /\ w.op = "blocks" => w.arg = {GenesisBlock}
                    /\ w.op = "latest" => w.arg = 0
                    /\ w.op = "pending" => w.arg = {}}

LEMMA GenesisWritten ==
    /\ GenesisWrites \in Seq(GenesisOnly)
    /\ Len(GenesisWrites) >= 2
    /\ GenesisWrites[1] = PutBlocks({GenesisBlock})
    /\ GenesisWrites[2] = PutLatest(0)
  <1>1. PutBlocks({GenesisBlock}) \in GenesisOnly /\ PutLatest(0) \in GenesisOnly
    BY GenesisIsBlock DEF GenesisOnly, Writes, PutBlocks, PutLatest
  <1> DEFINE f == [o \in GenesisOutputs |-> PutUTXO(o)]
             second == [i \in 1 .. Cardinality(GenesisOutputs) |->
                           f[SetToSeq(GenesisOutputs)[i]]]
             first == SaveBlockWrites(GenesisBlock)
             third == SaveWrites(<<GenesisBlock>>, GenesisOutputs, {}, InitialDifficulty)
  <1>2. second \in Seq(GenesisOnly)
    <2>1. IsFiniteSet(GenesisOutputs) /\ GenesisOutputs \subseteq OutpointIds
      BY StoreAssumption DEF OutpointIds
    <2>2. \A o \in GenesisOutputs : f[o] \in GenesisOnly
      BY <2>1 DEF GenesisOnly, Writes, PutUTXO
    <2> HIDE DEF f
    <2> QED
      BY <2>1, <2>2, WriteEach
  <1>3. first = <<PutBlocks({GenesisBlock}), PutLatest(0)>>
    BY DEF SaveBlockWrites, GenesisBlock
  <1>4. first \in Seq(GenesisOnly)
    BY <1>1, <1>3
  <1>5. third \in Seq(GenesisOnly)
    <2>1. Range(<<GenesisBlock>>) = {GenesisBlock}
      BY DEF Range
    <2>2. PutBareUTXOs(GenesisOutputs) \in GenesisOnly
      BY StoreAssumption DEF GenesisOnly, Writes, PutBareUTXOs, OutpointIds
    <2>3. PutPending({}) \in GenesisOnly
      BY DEF GenesisOnly, Writes, PutPending
    <2>4. PutDifficulty(InitialDifficulty) \in GenesisOnly
      BY StoreAssumption DEF GenesisOnly, Writes, PutDifficulty
    <2>5. Len(<<GenesisBlock>>) - 1 = 0
      OBVIOUS
    <2>6. third = <<PutBlocks({GenesisBlock}), PutBareUTXOs(GenesisOutputs),
                    PutPending({}), PutLatest(0), PutDifficulty(InitialDifficulty)>>
      BY <2>1, <2>5 DEF SaveWrites
    <2> HIDE DEF third
    <2> QED
      BY <1>1, <2>2, <2>3, <2>4, <2>6
  <1>6. GenesisWrites = first \o second \o third
    <2>1. \A i \in 1 .. Cardinality(GenesisOutputs) :
              SetToSeq(GenesisOutputs)[i] \in GenesisOutputs
      BY StoreAssumption, SetToSeqLists
    <2>2. second = [i \in 1 .. Cardinality(GenesisOutputs) |->
                       PutUTXO(SetToSeq(GenesisOutputs)[i])]
      BY <2>1
    <2> QED
      BY <2>2 DEF GenesisWrites
  <1> HIDE DEF first, second, third
  <1>7. first \o second \in Seq(GenesisOnly)
    BY <1>2, <1>4
  <1>8. first \o second \o third \in Seq(GenesisOnly)
    BY <1>5, <1>7
  <1>9. Len(first) = 2 /\ Len(first \o second) >= 2
    BY <1>2, <1>3, <1>4
  <1>10. (first \o second \o third)[1] = first[1] /\ (first \o second \o third)[2] = first[2]
    <2>1. (first \o second)[1] = first[1] /\ (first \o second)[2] = first[2]
      <3>1. 1 \in 1 .. Len(first) /\ 2 \in 1 .. Len(first)
        BY <1>9
      <3>2. (first \o second)[1] = first[1]
        BY <1>2, <1>4, <3>1, FrontOfConcatenation
      <3>3. (first \o second)[2] = first[2]
        BY <1>2, <1>4, <3>1, FrontOfConcatenation
      <3> QED
        BY <3>2, <3>3
    <2>2. PICK both \in Seq(GenesisOnly) : both = first \o second
      BY <1>7
    <2>3. (both \o third)[1] = both[1] /\ (both \o third)[2] = both[2]
      BY <1>5, <1>9, <2>2, FrontOfConcatenation
    <2> QED
      BY <2>1, <2>2, <2>3
  <1>11. Len(first \o second \o third) >= 2
    BY <1>5, <1>7, <1>9
  <1> QED
    BY <1>3, <1>6, <1>8, <1>10, <1>11

(* The blocks that count, and what loading makes of them.                  *)
LEMMA LoadedEnumerates ==
    ASSUME ShapeInv, FiniteInv, OriginInv
    PROVE  /\ Enumerates(LoadedBlocks, Kept)
           /\ LoadedBlocks \in Seq(Blocks)
           /\ Range(LoadedBlocks) = Kept
           /\ IsFiniteSet(Kept) /\ Kept \subseteq disk.blocks
  <1>1. Kept \subseteq disk.blocks /\ Kept \subseteq made /\ Kept \subseteq Blocks
    BY DEF Kept, OriginInv, ShapeInv
  <1>2. IsFiniteSet(Kept)
    BY <1>1, FS_Subset DEF FiniteInv
  <1>3. \A b \in Kept : b.index \in Nat
    BY <1>1 DEF Blocks
  <1>4. OnePerIndex(Kept)
    BY <1>1 DEF OriginInv, OnePerIndex
  <1>5. Enumerates(ByIndex(Kept), Kept)
    BY <1>2, <1>3, <1>4, ByIndexEnumerates
  <1>6. LoadedBlocks = ByIndex(Kept)
    BY DEF LoadedBlocks, Kept
  <1>7. LoadedBlocks \in Seq(Blocks)
    BY <1>1, <1>5, <1>6 DEF Enumerates
  <1> QED
    BY <1>1, <1>2, <1>5, <1>6, <1>7 DEF Enumerates

LEMMA IdsFinite ==
    ASSUME NEW txs, IsFiniteSet(txs), txs \subseteq Txs
    PROVE  IsFiniteSet(Ids(txs)) /\ Ids(txs) \subseteq OutpointIds
  <1> DEFINE id == [tx \in txs |-> tx.id]
  <1>1. Ids(txs) = {id[tx] : tx \in txs}
    BY DEF Ids
  <1> HIDE DEF id
  <1>2. IsFiniteSet(Ids(txs))
    BY <1>1, ImageFinite
  <1> QED
    BY <1>2 DEF Ids, Txs

(* Rebuilding the UTXO set leaves blocks, latest_block and mempool alone.  *)
LEMMA RebuildWritten ==
    ASSUME ShapeInv, FiniteInv, OriginInv
    PROVE  RebuildWrites \in Seq(QuietWrites)
  <1> DEFINE ids == [b \in Kept |-> Ids(b.txs)]
             created == UNION {ids[b] : b \in Kept}
             del == [o \in disk.utxos |-> DelUTXO(o)]
             put == [o \in created |-> PutUTXO(o)]
             first == [i \in 1 .. Cardinality(disk.utxos) |-> del[SetToSeq(disk.utxos)[i]]]
             second == [i \in 1 .. Cardinality(created) |-> put[SetToSeq(created)[i]]]
  <1>1. disk.utxos \subseteq OutpointIds /\ IsFiniteSet(disk.utxos)
    BY DEF ShapeInv, Disks, FiniteInv
  <1>2. \A b \in Kept : IsFiniteSet(b.txs) /\ b.txs \subseteq Txs
    <2>1. Kept \subseteq made
      BY DEF Kept, OriginInv
    <2> QED
      BY <2>1 DEF FiniteInv, ShapeInv, Blocks
  <1>3. \A b \in Kept : IsFiniteSet(ids[b]) /\ ids[b] \subseteq OutpointIds
    BY <1>2, IdsFinite
  <1>4. IsFiniteSet({ids[b] : b \in Kept})
    <2> HIDE DEF ids
    <2> QED
      BY LoadedEnumerates, ImageFinite
  <1>5. IsFiniteSet(created) /\ created \subseteq OutpointIds
    <2> HIDE DEF ids
    <2> QED
      BY <1>3, <1>4, FS_UNION
  <1>6. created = UNION {Ids(b.txs) : b \in Range(LoadedBlocks)}
    BY LoadedEnumerates
  <1> HIDE DEF created
  <1>7. first \in Seq(QuietWrites)
    <2>1. \A o \in disk.utxos : del[o] \in QuietWrites
      BY <1>1 DEF QuietWrites, Writes, DelUTXO
    <2> HIDE DEF del
    <2> QED
      BY <1>1, <2>1, WriteEach
  <1>8. second \in Seq(QuietWrites)
    <2>1. \A o \in created : put[o] \in QuietWrites
      BY <1>5 DEF QuietWrites, Writes, PutUTXO
    <2> HIDE DEF put
    <2> QED
      BY <1>5, <2>1, WriteEach
  <1>9. RebuildWrites = first \o second
    <2>1. DOMAIN SetToSeq(disk.utxos) = 1 .. Cardinality(disk.utxos)
          /\ \A i \in 1 .. Cardinality(disk.utxos) : SetToSeq(disk.utxos)[i] \in disk.utxos
      BY <1>1, SetToSeqLists
    <2>2. DOMAIN SetToSeq(created) = 1 .. Cardinality(created)
          /\ \A i \in 1 .. Cardinality(created) : SetToSeq(created)[i] \in created
      BY <1>5, SetToSeqLists
    <2>3. first = [i \in DOMAIN SetToSeq(disk.utxos) |-> DelUTXO(SetToSeq(disk.utxos)[i])]
      BY <2>1
    <2>4. second = [i \in DOMAIN SetToSeq(created) |-> PutUTXO(SetToSeq(created)[i])]
      BY <2>2
    <2> QED
      BY <1>6, <2>3, <2>4 DEF RebuildWrites
  <1> QED
    BY <1>7, <1>8, <1>9

(* The block put on a chain continues it.                                  *)
Continues(b) ==
    /\ b \in Blocks /\ IsFiniteSet(b.txs)
    /\ b.index = LatestBlock.index + 1 /\ b.previousHash = LatestBlock.hash

LEMMA NextBlockContinues ==
    ASSUME ShapeInv, FiniteInv, phase # "down", NEW working \in Nat \ {0},
           NEW txs, txs \subseteq Txs, IsFiniteSet(txs)
    PROVE  Continues(NextBlock(working, txs))
  <1> DEFINE b == NextBlock(working, txs)
             reward == [id |-> <<"reward", Cardinality(made) + 1>>, spends |-> {}]
             times == [i \in DOMAIN chain |-> chain[i].time]
  <1>1. Cardinality(made) + 1 \in Nat
    BY FS_CardinalityType DEF FiniteInv
  <1>2. reward \in Txs
    BY <1>1 DEF Txs, OutpointIds
  <1>3. LatestBlock \in Blocks
    BY DEF LatestBlock, ShapeInv, Last
  <1>4. times \in Seq(Int)
    <2>1. DOMAIN chain = 1 .. Len(chain) /\ Len(chain) \in Nat
          /\ \A i \in 1 .. Len(chain) : chain[i] \in Blocks
      BY DEF ShapeInv
    <2>2. \A i \in 1 .. Len(chain) : chain[i].time \in Int
      BY <2>1 DEF Blocks
    <2> QED
      BY <2>1, <2>2
  <1>5. NextDifficulty(working) \in Nat \ {0}
    <2> HIDE DEF times
    <2>1. CalculateNextDifficulty(working, times) \in Nat \ {0}
      BY <1>4, NextPositive
    <2> QED
      BY <2>1 DEF NextDifficulty, times
  <1>6. b.txs = txs \cup {reward} /\ b.index = LatestBlock.index + 1
        /\ b.previousHash = LatestBlock.hash
    BY DEF NextBlock
  <1>7. IsFiniteSet(b.txs)
    <2> HIDE DEF reward, b
    <2>1. IsFiniteSet(txs \cup {reward})
      BY FS_AddElement
    <2> QED
      BY <1>6, <2>1
  <1>8. b \in Blocks
    <2>1. LatestBlock.index + 1 \in Nat /\ LatestBlock.hash \in Int
          /\ LatestBlock.time + BlockGap \in Nat
      BY <1>3, StoreAssumption DEF Blocks
    <2>2. b.hash \in Nat /\ b.index \in Nat /\ b.previousHash \in Int /\ b.time \in Nat
      BY <1>1, <2>1 DEF NextBlock
    <2>3. b.difficulty \in Nat \ {0}
      BY <1>5 DEF NextBlock
    <2>4. b.txs \subseteq Txs
      BY <1>2, <1>6
    <2>5. b = [hash |-> b.hash, index |-> b.index, previousHash |-> b.previousHash,
               time |-> b.time, difficulty |-> b.difficulty, txs |-> b.txs]
      BY DEF NextBlock
    <2> HIDE DEF b
    <2> QED
      BY <2>2, <2>3, <2>4, <2>5 DEF Blocks
  <1> QED
    BY <1>6, <1>7, <1>8 DEF Continues

-----------------------------------------------------------------------------
(* Calls that leave memory's chain and the database alone: they only put   *)
(* writes before the database.                                             *)

Rest == OriginInv /\ ChainInv /\ GenesisInv /\ GapInv /\ SourceInv

LEMMA InFlight ==
    ASSUME ShapeInv, NEW j \in DOMAIN jobs
    PROVE  j = 1 /\ jobs = <<jobs[1]>> /\ jobs[1] \in Jobs
  BY DEF ShapeInv, OneCall

LEMMA ChainOfBlocks ==
    ASSUME ShapeInv
    PROVE  /\ Len(chain) \in Nat /\ DOMAIN chain = 1 .. Len(chain)
           /\ \A i \in DOMAIN chain : chain[i] \in Blocks /\ chain[i].index \in Nat
  <1>1. chain \in Seq(Blocks)
    BY DEF ShapeInv
  <1>2. Len(chain) \in Nat /\ DOMAIN chain = 1 .. Len(chain)
        /\ \A i \in DOMAIN chain : chain[i] \in Blocks
    BY <1>1
  <1> QED
    BY <1>2 DEF Blocks

LEMMA Idle ==
    ASSUME ShapeInv, MaxInFlight <= 1, CanCall
    PROVE  jobs = <<>>
  BY StoreAssumption DEF ShapeInv, OneCall, CanCall

(* What a call may put before the database.                                *)
MayCall(job) ==
    /\ job \in Jobs
    /\ job.kind # "genesis"
    /\ job.reports \subseteq Range(chain)
    /\ \A i \in DOMAIN job.writes :
           /\ job.writes[i].op = "blocks" => job.writes[i].arg \subseteq Range(chain)
           /\ job.writes[i].op = "pending" => IsFiniteSet(job.writes[i].arg)
           /\ job.writes[i].op = "latest" =>
                  \A p \in Nat : GapAfter(p) => job.writes[i].arg >= p
    /\ SingleSource => JobInv(job)

LEMMA Called ==
    ASSUME Inv, phase = "up", jobs = <<>>, NEW job, MayCall(job), jobs' = <<job>>,
           UNCHANGED <<mode, phase, chain, disk, made, acked>>
    PROVE  Rest'
  <1>1. DOMAIN jobs' = {1} /\ jobs'[1] = job
    OBVIOUS
  <1>2. OriginInv'
    BY <1>1 DEF Inv, OriginInv, MayCall
  <1>3. ChainInv'
    BY DEF Inv, ChainInv
  <1>4. GenesisInv'
    BY <1>1 DEF Inv, GenesisInv, MayCall
  <1>5. GapInv'
    <2> SUFFICES ASSUME ~Linked(chain)
                 PROVE  \E p \in Nat : GapAfter(p)'
      BY DEF GapInv, Linked
    <2>1. PICK p \in Nat : GapAfter(p)
      BY DEF Inv, GapInv
    <2>2. GapAfter(p)'
      BY <1>1, <2>1 DEF GapAfter, MayCall
    <2> QED
      BY <2>2
  <1>6. SourceInv'
    <2> SUFFICES ASSUME SingleSource
                 PROVE  /\ Gapless(chain)' /\ KeptGapless' /\ (acked \subseteq Kept)'
                        /\ (Kept \subseteq Range(chain))' /\ FollowerStored'
                        /\ (\A j \in DOMAIN jobs : JobInv(jobs[j]))'
      BY DEF SourceInv, SingleSource
    <2>1. Gapless(chain)' /\ KeptGapless' /\ (acked \subseteq Kept)'
          /\ (Kept \subseteq Range(chain))'
      BY DEF Inv, SourceInv, Gapless, Linked, KeptGapless, Kept
    <2>2. FollowerStored'
      BY DEF Inv, SourceInv, FollowerStored
    <2>3. JobInv(job)'
      BY DEF MayCall, JobInv, Prepared, Kept
    <2>4. (\A j \in DOMAIN jobs : JobInv(jobs[j]))'
      BY <1>1, <2>3
    <2> QED
      BY <2>1, <2>2, <2>4
  <1> QED
    BY <1>2, <1>3, <1>4, <1>5, <1>6 DEF Rest

(* A call that reports nothing and writes neither blocks nor latest_block. *)
LEMMA QuietMayCall ==
    ASSUME NEW kind \in {"tx", "rebuild"}, NEW writes \in Seq(QuietWrites)
    PROVE  MayCall(Job(kind, {}, writes))
  <1>1. \A i \in DOMAIN writes :
            writes[i] \in Writes /\ writes[i].op \notin {"blocks", "latest", "pending"}
    BY DEF QuietWrites
  <1>2. writes \in Seq(Writes)
    BY DEF QuietWrites
  <1>3. Job(kind, {}, writes) \in Jobs
    BY <1>2 DEF Job, Jobs
  <1> QED
    BY <1>1, <1>3 DEF Job, MayCall, JobInv

LEMMA AddTransactionInv ==
    ASSUME Inv, MaxInFlight <= 1, NEW o \in utxo, AddTransaction(o)
    PROVE  Inv'
  <1> DEFINE tx == [id |-> <<"tx", submitted + 1>>, spends |-> {o}]
             job == Job("tx", {}, <<PutTx(tx)>>)
  <1>1. tx \in Txs
    BY DEF Inv, ShapeInv, Txs, OutpointIds
  <1>2. phase = "up" /\ jobs = <<>> /\ jobs' = <<job>> /\ pending' = pending \cup {tx}
    BY Idle DEF AddTransaction, CanCall, Inv
  <1>3. MayCall(job)
    <2>1. PutTx(tx) \in QuietWrites
      BY <1>1 DEF QuietWrites, Writes, PutTx
    <2>2. <<PutTx(tx)>> \in Seq(QuietWrites)
      BY <2>1
    <2> QED
      BY <2>2, QuietMayCall
  <1>4. UNCHANGED <<mode, phase, chain, utxo, difficulty, disk, made, acked>>
        /\ submitted' = submitted + 1
    BY DEF AddTransaction
  <1> HIDE DEF tx, job
  <1>5. Rest'
    BY <1>2, <1>3, <1>4, Called
  <1>6. ShapeInv'
    <2>1. job \in Jobs
      BY <1>3 DEF MayCall
    <2> QED
      BY <1>1, <1>2, <1>4, <2>1 DEF Inv, ShapeInv, OneCall
  <1>7. FiniteInv'
    <2>1. IsFiniteSet(pending \cup {tx})
      BY FS_AddElement DEF Inv, FiniteInv
    <2> QED
      BY <1>2, <1>4, <2>1 DEF Inv, FiniteInv
  <1> QED
    BY <1>5, <1>6, <1>7 DEF Inv, Rest

LEMMA RebuildInv ==
    ASSUME Inv, MaxInFlight <= 1, RebuildUTXOSet
    PROVE  Inv'
  <1> DEFINE job == Job("rebuild", {}, RebuildWrites)
  <1>1. phase = "up" /\ jobs = <<>> /\ jobs' = <<job>>
        /\ UNCHANGED <<mode, phase, memory, disk, made, acked, submitted>>
    BY DEF RebuildUTXOSet, CanCall
  <1>2. MayCall(job)
    BY RebuildWritten, QuietMayCall DEF Inv
  <1> HIDE DEF job
  <1>3. Rest'
    BY <1>1, <1>2, Called DEF memory
  <1>4. ShapeInv'
    <2>1. job \in Jobs
      BY <1>2 DEF MayCall
    <2> QED
      BY <1>1, <2>1 DEF Inv, ShapeInv, OneCall, memory
  <1>5. FiniteInv'
    BY <1>1 DEF Inv, FiniteInv, memory
  <1> QED
    BY <1>3, <1>4, <1>5 DEF Inv, Rest

(* Where a gapless chain ends.                                             *)
LEMMA LatestBelow ==
    ASSUME Inv, SingleSource, phase = "up"
    PROVE  disk.latest \in Nat /\ disk.latest < Len(chain)
  <1>1. disk.latest \in Nat
    BY DEF Inv, GenesisInv, ShapeInv, Disks
  <1>2. PICK b \in disk.blocks : b.index = disk.latest
    BY <1>1 DEF Inv, SourceInv, KeptGapless
  <1>3. b \in Kept
    BY <1>1, <1>2 DEF Kept
  <1>4. PICK i \in DOMAIN chain : chain[i] = b
    BY <1>3 DEF Inv, SourceInv, Range
  <1>5. chain[i].index = i - 1 /\ i \in 1 .. Len(chain)
    BY <1>4 DEF Inv, SourceInv, Gapless, ShapeInv
  <1> QED
    BY <1>1, <1>2, <1>4, <1>5

LEMMA SaveInv ==
    ASSUME Inv, MaxInFlight <= 1, Save
    PROVE  Inv'
  <1> DEFINE writes == SaveWrites(chain, utxo, pending, difficulty)
             job == Job("save", Range(chain), writes)
  <1>1. phase = "up" /\ jobs = <<>> /\ jobs' = <<job>>
        /\ UNCHANGED <<mode, phase, memory, disk, made, acked, submitted>>
    BY Idle DEF Save, CanCall, Inv
  <1>2. Len(chain) \in Nat /\ Len(chain) - 1 \in Nat /\ DOMAIN chain = 1 .. Len(chain)
        /\ Range(chain) \subseteq Blocks
    BY <1>1 DEF Inv, ShapeInv, Range
  <1>3. writes = <<PutBlocks(Range(chain)), PutBareUTXOs(utxo), PutPending(pending),
                   PutLatest(Len(chain) - 1), PutDifficulty(difficulty)>>
    BY DEF SaveWrites
  <1>4. writes \in Seq(Writes)
    <2>1. PutBlocks(Range(chain)) \in Writes
      BY <1>2 DEF Writes, PutBlocks
    <2>2. PutBareUTXOs(utxo) \in Writes /\ PutPending(pending) \in Writes
      BY DEF Writes, PutBareUTXOs, PutPending, Inv, ShapeInv
    <2>3. PutLatest(Len(chain) - 1) \in Writes
      BY <1>2 DEF Writes, PutLatest
    <2>4. PutDifficulty(difficulty) \in Writes
      BY <1>1 DEF Writes, PutDifficulty, Inv, ShapeInv
    <2> HIDE DEF writes
    <2> QED
      BY <1>3, <2>1, <2>2, <2>3, <2>4
  <1> HIDE DEF writes
  <1>5. \A i \in DOMAIN writes : i \in Nat /\ (i = 1 \/ i = 2 \/ i = 3 \/ i = 4 \/ i = 5)
    BY <1>3
  <1>51. /\ 4 \in DOMAIN writes
         /\ writes[1].op = "blocks" /\ writes[1].arg = Range(chain)
    BY <1>3 DEF PutBlocks
  <1>52. /\ writes[2].op = "bare utxos"
         /\ writes[3].op = "pending" /\ writes[3].arg = pending
    BY <1>3 DEF PutBareUTXOs, PutPending
  <1>53. /\ writes[4].op = "latest" /\ writes[4].arg = Len(chain) - 1
         /\ writes[5].op = "difficulty"
    BY <1>3 DEF PutLatest, PutDifficulty
  <1>6. job \in Jobs /\ job.writes = writes /\ job.reports = Range(chain)
        /\ job.kind = "save"
    BY <1>2, <1>4 DEF Job, Jobs
  <1> HIDE DEF job
  <1>7. ASSUME SingleSource
        PROVE  JobInv(job)
    <2>1. \A i \in DOMAIN chain : chain[i].index = i - 1
      BY <1>1, <1>7 DEF Inv, SourceInv, Gapless
    <2>2. \A b \in job.reports : b.index < Len(chain)
      BY <1>2, <1>6, <2>1 DEF Range
    <2>3. disk.latest < Len(chain)
      BY <1>1, <1>7, LatestBelow
    <2>4. \A k \in 1 .. Len(chain) : chain[k] \in writes[1].arg
      BY <1>2, <1>51 DEF Range
    <2>5. Len(chain) \in 1 .. Len(chain)
      BY <1>2
    <2>6. Prepared(job, 4)
      <3>1. job.writes[4].arg + 1 = Len(chain)
        BY <1>2, <1>53, <1>6
      <3>2. \A k \in 1 .. Len(chain) : \E h \in 1 .. 4 - 1 :
                job.writes[h].op = "blocks" /\ chain[k] \in job.writes[h].arg
        <4>1. 1 \in 1 .. 4 - 1
          OBVIOUS
        <4> QED
          BY <1>51, <1>6, <2>4, <4>1
      <3>3. \A k \in DOMAIN job.writes : job.writes[k].op = "latest" => k = 4
        BY <1>5, <1>51, <1>52, <1>53, <1>6
      <3> QED
        BY <2>2, <2>3, <2>5, <3>1, <3>2, <3>3 DEF Prepared
    <2> QED
      BY <1>5, <1>51, <1>52, <1>53, <1>6, <2>6 DEF JobInv
  <1>8. MayCall(job)
    <2>1. IsFiniteSet(pending)
      BY DEF Inv, FiniteInv
    <2>2. \A p \in Nat : GapAfter(p) => Len(chain) - 1 >= p
      BY <1>2 DEF GapAfter
    <2> QED
      BY <1>5, <1>51, <1>52, <1>53, <1>6, <1>7, <2>1, <2>2 DEF MayCall
  <1>9. Rest'
    BY <1>1, <1>8, Called DEF memory
  <1>10. ShapeInv'
    BY <1>1, <1>6 DEF Inv, ShapeInv, OneCall, memory
  <1>11. FiniteInv'
    BY <1>1 DEF Inv, FiniteInv, memory
  <1> QED
    BY <1>9, <1>10, <1>11 DEF Inv, Rest

-----------------------------------------------------------------------------
(* A block is put on the chain.                                            *)

Extended(b) ==
    /\ Len(chain) \in Nat \ {0} /\ Len(chain') = Len(chain) + 1
    /\ DOMAIN chain = 1 .. Len(chain) /\ DOMAIN chain' = 1 .. Len(chain) + 1
    /\ \A i \in 1 .. Len(chain) : chain[i] \in Blocks /\ chain'[i] = chain[i]
    /\ chain'[Len(chain) + 1] = b
    /\ chain' \in Seq(Blocks) /\ chain' # <<>>
    /\ LatestBlock = chain[Len(chain)]

LEMMA ChainExtended ==
    ASSUME ShapeInv, phase = "up", NEW b, Continues(b), chain' = Append(chain, b)
    PROVE  Extended(b)
  BY DEF ShapeInv, Continues, Extended, LatestBlock, Last

LEMMA RangeExtended ==
    ASSUME NEW b, Extended(b)
    PROVE  Range(chain)' = Range(chain) \cup {b}
  BY DEF Extended, Range

LEMMA ExtendedChainInv ==
    ASSUME Inv, phase = "up", NEW b, Continues(b), Extended(b)
    PROVE  ChainInv' /\ b.index \in Nat /\ b.index >= Len(chain)
  <1>1. b.index = chain[Len(chain)].index + 1
    BY DEF Continues, Extended
  <1>2. \A i \in 1 .. Len(chain) : chain[i].index \in Nat /\ chain[i].index >= i - 1
    BY DEF Inv, ChainInv, Rising, Extended, Blocks
  <1>3. \A i, k \in 1 .. Len(chain) : i < k => chain[i].index < chain[k].index
    BY DEF Inv, ChainInv, Rising, Extended
  <1>4. Len(chain) \in 1 .. Len(chain)
    BY DEF Extended
  <1>5. b.index \in Nat /\ b.index >= Len(chain)
    BY <1>1, <1>2, <1>4 DEF Extended
  <1>6. \A i \in 1 .. Len(chain) : chain[i].index < b.index
    <2> SUFFICES ASSUME NEW i \in 1 .. Len(chain)
                 PROVE  chain[i].index < b.index
      OBVIOUS
    <2>1. CASE i = Len(chain)
      BY <1>1, <1>2, <2>1
    <2>2. CASE i # Len(chain)
      <3>0. PICK n \in Nat : n = Len(chain)
        BY DEF Extended
      <3>1. i < Len(chain)
        BY <2>2, <3>0
      <3>2. chain[i].index < chain[Len(chain)].index
        BY <1>3, <1>4, <3>1
      <3> QED
        BY <1>1, <1>2, <1>4, <3>2
    <2> QED
      BY <2>1, <2>2
  <1>7. \A i \in DOMAIN chain' : i \in 1 .. Len(chain) \/ i = Len(chain) + 1
    BY DEF Extended
  <1>8. Rising(chain)'
    <2>1. ASSUME NEW i \in DOMAIN chain', NEW k \in DOMAIN chain', i < k
          PROVE  chain'[i].index < chain'[k].index
      <3>1. i \in 1 .. Len(chain)
        BY <1>7, <2>1 DEF Extended
      <3> QED
        BY <1>3, <1>6, <1>7, <2>1, <3>1 DEF Extended
    <2>2. ASSUME NEW i \in DOMAIN chain'
          PROVE  chain'[i].index >= i - 1
      BY <1>2, <1>5, <1>7 DEF Extended
    <2> QED
      BY <2>1, <2>2 DEF Rising
  <1>9. chain'[1] = GenesisBlock
    BY DEF Inv, ChainInv, Extended
  <1> QED
    BY <1>5, <1>8, <1>9 DEF ChainInv

LEMMA ExtendedLinked ==
    ASSUME NEW b, Continues(b), Extended(b), Linked(chain)
    PROVE  Linked(chain)'
  <1> SUFFICES ASSUME NEW i \in 1 .. Len(chain') - 1
               PROVE  /\ chain'[i + 1].index = chain'[i].index + 1
                      /\ chain'[i + 1].previousHash = chain'[i].hash
    BY DEF Linked
  <1>1. CASE i = Len(chain)
    BY <1>1 DEF Extended, Continues
  <1>2. CASE i # Len(chain)
    <2>0. PICK n \in Nat : n = Len(chain) /\ Len(chain') = n + 1
      BY DEF Extended
    <2>1. i \in 1 .. Len(chain) - 1 /\ i \in 1 .. Len(chain) /\ i + 1 \in 1 .. Len(chain)
      BY <1>2, <2>0
    <2> QED
      BY <2>1 DEF Extended, Linked
  <1> QED
    BY <1>1, <1>2

(* A gap stays where it was, whatever comes after it.                      *)
LEMMA ExtendedGapInv ==
    ASSUME Inv, phase = "up", NEW b, Continues(b), Extended(b),
           UNCHANGED <<phase, disk>>,
           \A j \in DOMAIN jobs' : \A i \in DOMAIN jobs'[j].writes :
               jobs'[j].writes[i].op = "latest" =>
                   \/ /\ jobs'[j].writes[i].arg \in Nat
                      /\ jobs'[j].writes[i].arg >= Len(chain)
                   \/ \E k \in DOMAIN jobs : \E h \in DOMAIN jobs[k].writes :
                          jobs[k].writes[h] = jobs'[j].writes[i]
    PROVE  GapInv'
  <1> SUFFICES ASSUME ~Linked(chain)'
               PROVE  \E p \in Nat : GapAfter(p)'
    BY DEF GapInv
  <1>1. PICK p \in Nat : GapAfter(p)
    BY ExtendedLinked DEF Inv, GapInv
  <1>2. p \in 1 .. Len(chain) - 1 /\ p \in 1 .. Len(chain)' - 1
        /\ p \in 1 .. Len(chain) /\ p + 1 \in 1 .. Len(chain)
    BY <1>1 DEF GapAfter, Extended
  <1>3. \A i \in 1 .. p + 1 : chain'[i] = chain[i]
    BY <1>2 DEF Extended
  <1>4. p \in 1 .. p + 1 /\ p + 1 \in 1 .. p + 1 /\ \A i \in 1 .. p : i \in 1 .. p + 1
    BY <1>2
  <1>5. \A j \in DOMAIN jobs' : \A i \in DOMAIN jobs'[j].writes :
           jobs'[j].writes[i].op = "latest" => jobs'[j].writes[i].arg >= p
    <2> SUFFICES ASSUME NEW j \in DOMAIN jobs', NEW i \in DOMAIN jobs'[j].writes,
                        jobs'[j].writes[i].op = "latest"
                 PROVE  jobs'[j].writes[i].arg >= p
      OBVIOUS
    <2>1. CASE /\ jobs'[j].writes[i].arg \in Nat
               /\ jobs'[j].writes[i].arg >= Len(chain)
      <3> PICK x : x = jobs'[j].writes[i].arg
        OBVIOUS
      <3>1. PICK n \in Nat : n = Len(chain)
        BY DEF Extended
      <3> QED
        BY <1>2, <2>1, <3>1
    <2>2. CASE \E k \in DOMAIN jobs : \E h \in DOMAIN jobs[k].writes :
                  jobs[k].writes[h] = jobs'[j].writes[i]
      BY <1>1, <2>2 DEF GapAfter
    <2> QED
      BY <2>1, <2>2
  <1>6. GapAfter(p)'
    BY <1>1, <1>2, <1>3, <1>4, <1>5 DEF GapAfter
  <1> QED
    BY <1>6

LEMMA ExtendedGapless ==
    ASSUME NEW b, Continues(b), Extended(b), Gapless(chain)
    PROVE  Gapless(chain)' /\ b.index = Len(chain)
  <1>1. Linked(chain)'
    BY ExtendedLinked DEF Gapless
  <1>2. b.index = Len(chain)
    BY DEF Gapless, Continues, Extended
  <1>3. \A i \in DOMAIN chain' : i \in 1 .. Len(chain) \/ i = Len(chain) + 1
    BY DEF Extended
  <1>4. \A i \in DOMAIN chain' : chain'[i].index = i - 1
    BY <1>2, <1>3 DEF Gapless, Extended
  <1> QED
    BY <1>1, <1>2, <1>4 DEF Gapless

LEMMA MineBlockInv ==
    ASSUME Inv, MineBlock
    PROVE  Inv'
  <1> DEFINE b == NextBlock(difficulty, pending)
  <1>1. /\ mode.mines /\ phase = "up"
        /\ chain' = Append(chain, b) /\ made' = made \cup {b}
        /\ difficulty' = b.difficulty /\ pending' = {}
        /\ utxo' = (utxo \ Spends(pending)) \cup Ids(b.txs)
        /\ UNCHANGED <<mode, phase, jobs, disk, acked, submitted>>
    BY DEF MineBlock
  <1>2. Continues(b)
    <2>1. difficulty \in Nat \ {0} /\ pending \subseteq Txs /\ IsFiniteSet(pending)
      BY <1>1 DEF Inv, ShapeInv, FiniteInv
    <2> QED
      BY <1>1, <2>1, NextBlockContinues DEF Inv
  <1> HIDE DEF b
  <1>3. Extended(b)
    BY <1>1, <1>2, ChainExtended DEF Inv
  <1>4. b \in Blocks /\ IsFiniteSet(b.txs) /\ b.index \in Nat /\ b.index # 0
    <2>1. b.index >= Len(chain) /\ b.index \in Nat
      BY <1>1, <1>2, <1>3, ExtendedChainInv
    <2> QED
      BY <1>2, <1>3, <2>1 DEF Continues, Extended
  <1>5. ShapeInv'
    <2>1. Ids(b.txs) \subseteq OutpointIds
      BY <1>4, IdsFinite DEF Blocks
    <2>2. b.difficulty \in Nat \ {0}
      BY <1>4 DEF Blocks
    <2> QED
      BY <1>1, <1>3, <1>4, <2>1, <2>2 DEF Inv, ShapeInv, OneCall, Extended
  <1>6. FiniteInv'
    <2>1. IsFiniteSet(made \cup {b})
      BY FS_AddElement DEF Inv, FiniteInv
    <2> QED
      BY <1>1, <1>4, <2>1, FS_EmptySet DEF Inv, FiniteInv
  <1>7. OriginInv'
    BY <1>1, <1>3, <1>4, RangeExtended DEF Inv, OriginInv
  <1>8. ChainInv'
    BY <1>1, <1>2, <1>3, ExtendedChainInv
  <1>9. GenesisInv'
    BY <1>1 DEF Inv, GenesisInv
  <1>10. GapInv'
    BY <1>1, <1>2, <1>3, ExtendedGapInv
  <1>11. SourceInv'
    <2> SUFFICES ASSUME SingleSource
                 PROVE  /\ Gapless(chain)' /\ KeptGapless' /\ (acked \subseteq Kept)'
                        /\ (Kept \subseteq Range(chain))' /\ FollowerStored'
                        /\ (\A j \in DOMAIN jobs : JobInv(jobs[j]))'
      BY <1>1 DEF SourceInv, SingleSource
    <2>1. Gapless(chain)'
      BY <1>1, <1>2, <1>3, ExtendedGapless DEF Inv, SourceInv
    <2>2. KeptGapless' /\ (acked \subseteq Kept)'
      BY <1>1 DEF Inv, SourceInv, KeptGapless, Kept
    <2>3. (Kept \subseteq Range(chain))'
      BY <1>1, <1>3, RangeExtended DEF Inv, SourceInv, Kept
    <2>4. FollowerStored'
      BY <1>1 DEF FollowerStored
    <2>5. ASSUME NEW job, JobInv(job)
          PROVE  JobInv(job)'
      <3>1. ASSUME NEW i, Prepared(job, i)
            PROVE  Prepared(job, i)'
        <4> DEFINE n == job.writes[i].arg + 1
        <4>1. n \in 1 .. Len(chain)
          BY <3>1 DEF Prepared
        <4> HIDE DEF n
        <4>2. n \in 1 .. Len(chain)' /\ \A k \in 1 .. n : chain'[k] = chain[k]
          BY <1>3, <4>1 DEF Extended
        <4> USE DEF n
        <4> QED
          BY <1>1, <3>1, <4>2 DEF Prepared
      <3> QED
        BY <1>1, <2>5, <3>1 DEF JobInv, Kept
    <2>6. (\A j \in DOMAIN jobs : JobInv(jobs[j]))'
      <3>1. \A j \in DOMAIN jobs : JobInv(jobs[j])
        BY <1>1 DEF Inv, SourceInv
      <3>2. \A j \in DOMAIN jobs : JobInv(jobs[j])'
        BY <1>1, <2>5, <3>1
      <3> QED
        BY <1>1, <3>2
    <2> QED
      BY <2>1, <2>2, <2>3, <2>4, <2>6
  <1> QED
    BY <1>5, <1>6, <1>7, <1>8, <1>9, <1>10, <1>11 DEF Inv

(* What latest_block says is stored is the beginning of the chain.         *)
LEMMA KeptIsPrefix ==
    ASSUME Inv, SingleSource, phase = "up"
    PROVE  /\ \A k \in 1 .. disk.latest + 1 : k \in DOMAIN chain /\ chain[k] \in Kept
           /\ \A b \in Kept : \E k \in 1 .. disk.latest + 1 : b = chain[k]
  <1>1. disk.latest \in Nat /\ disk.latest < Len(chain) /\ Len(chain) \in Nat
        /\ DOMAIN chain = 1 .. Len(chain)
    BY LatestBelow DEF Inv, ShapeInv
  <1>2. \A i \in DOMAIN chain : chain[i].index = i - 1
    BY DEF Inv, SourceInv, Gapless
  <1>3. ASSUME NEW k \in 1 .. disk.latest + 1
        PROVE  k \in DOMAIN chain /\ chain[k] \in Kept
    <2>1. k \in DOMAIN chain
      BY <1>1
    <2>2. k - 1 \in 0 .. disk.latest
      BY <1>1
    <2>3. PICK b \in disk.blocks : b.index = k - 1
      BY <2>2 DEF Inv, SourceInv, KeptGapless
    <2>4. b \in Kept
      BY <2>2, <2>3 DEF Kept
    <2>5. PICK i \in DOMAIN chain : chain[i] = b
      BY <2>4 DEF Inv, SourceInv, Range
    <2>6. i - 1 = k - 1
      BY <1>2, <2>3, <2>5
    <2>7. i = k
      BY <1>1, <2>5, <2>6
    <2> QED
      BY <2>1, <2>4, <2>5, <2>7
  <1>4. ASSUME NEW b \in Kept
        PROVE  \E k \in 1 .. disk.latest + 1 : b = chain[k]
    <2>1. PICK i \in DOMAIN chain : chain[i] = b
      BY DEF Inv, SourceInv, Range
    <2>2. b.index = i - 1 /\ b.index \in 0 .. disk.latest
      BY <1>2, <2>1 DEF Kept
    <2>3. i \in 1 .. disk.latest + 1
      BY <1>1, <2>1, <2>2
    <2> QED
      BY <2>1, <2>3
  <1> QED
    BY <1>3, <1>4

LEMMA AddBlockInv ==
    ASSUME Inv, MaxInFlight <= 1, NEW txs \in SUBSET pending, AddBlock(txs)
    PROVE  Inv'
  <1> PICK b : b = PeerBlock(txs)
    OBVIOUS
  <1> PICK job : job = Job("block", {b}, SaveBlockWrites(b))
    OBVIOUS
  <1>1. /\ mode.follows /\ phase = "up" /\ jobs = <<>>
        /\ chain' = Append(chain, b) /\ made' = made \cup {b}
        /\ difficulty' \in {b.difficulty, difficulty} /\ pending' = pending \ txs
        /\ utxo' = utxo \cup Ids(b.txs) /\ jobs' = <<job>>
        /\ UNCHANGED <<mode, phase, disk, acked, submitted>>
    BY Idle DEF AddBlock, CanCall, Inv
  <1>2. Continues(b)
    <2>1. LatestBlock \in Blocks
      BY <1>1 DEF LatestBlock, Inv, ShapeInv, Last
    <2>2. LatestBlock.difficulty \in Nat \ {0}
      BY <2>1 DEF Blocks
    <2>3. txs \subseteq Txs /\ IsFiniteSet(txs)
      BY FS_Subset DEF Inv, ShapeInv, FiniteInv
    <2> QED
      BY <1>1, <2>2, <2>3, NextBlockContinues DEF Inv, PeerBlock
  <1>3. Extended(b)
    BY <1>1, <1>2, ChainExtended DEF Inv
  <1>4. b \in Blocks /\ IsFiniteSet(b.txs) /\ b.index \in Nat /\ b.index # 0
        /\ b.index >= Len(chain)
    <2>1. b.index >= Len(chain) /\ b.index \in Nat
      BY <1>1, <1>2, <1>3, ExtendedChainInv
    <2> QED
      BY <1>2, <1>3, <2>1 DEF Continues, Extended
  <1>51. job.kind = "block" /\ job.reports = {b}
    BY DEF Job
  <1>52. job.writes = <<PutBlocks({b}), PutLatest(b.index)>>
    BY DEF Job, SaveBlockWrites
  <1>5. job \in Jobs
    <2>1. PutBlocks({b}) \in Writes /\ PutLatest(b.index) \in Writes
      BY <1>4 DEF PutBlocks, PutLatest, Writes
    <2>2. <<PutBlocks({b}), PutLatest(b.index)>> \in Seq(Writes)
      BY <2>1
    <2>3. job.writes \in Seq(Writes)
      BY <1>52, <2>2
    <2>4. job = [kind |-> job.kind, reports |-> job.reports, writes |-> job.writes]
      BY DEF Job
    <2> QED
      BY <1>4, <1>51, <2>3, <2>4 DEF Jobs
  <1>61. DOMAIN job.writes = {1, 2}
    <2>1. DOMAIN job.writes = 1 .. 2
      BY <1>52
    <2> QED
      BY <2>1
  <1>62. job.writes[1].op = "blocks" /\ job.writes[1].arg = {b}
    BY <1>52 DEF PutBlocks
  <1>63. job.writes[2] = PutLatest(b.index)
    BY <1>52
  <1>64. job.writes[2].op = "latest" /\ job.writes[2].arg = b.index
    BY <1>63 DEF PutLatest
  <1>7. DOMAIN jobs' = {1} /\ jobs'[1] = job /\ DOMAIN jobs = {}
    BY <1>1
  <1>8. ShapeInv'
    <2>1. Ids(b.txs) \subseteq OutpointIds
      BY <1>4, IdsFinite DEF Blocks
    <2>2. b.difficulty \in Nat \ {0}
      BY <1>4 DEF Blocks
    <2>3. difficulty' \in Nat \ {0}
      BY <1>1, <2>2 DEF Inv, ShapeInv
    <2>4. OneCall'
      BY <1>1, <1>5 DEF OneCall
    <2> QED
      BY <1>1, <1>3, <1>4, <2>1, <2>3, <2>4 DEF Inv, ShapeInv, Extended
  <1>9. FiniteInv'
    <2>1. IsFiniteSet(made \cup {b})
      BY FS_AddElement DEF Inv, FiniteInv
    <2>2. IsFiniteSet(pending \ txs)
      BY FS_Subset DEF Inv, FiniteInv
    <2> QED
      BY <1>1, <1>4, <2>1, <2>2 DEF Inv, FiniteInv
  <1>10. OriginInv'
    <2>1. Range(chain)' = Range(chain) \cup {b}
      BY <1>3, RangeExtended
    <2>2. jobs'[1].reports \subseteq Range(chain)'
      BY <1>51, <1>7, <2>1
    <2>3. ASSUME NEW i \in DOMAIN jobs'[1].writes
          PROVE  /\ jobs'[1].writes[i].op = "blocks" =>
                        jobs'[1].writes[i].arg \subseteq Range(chain)'
                 /\ jobs'[1].writes[i].op # "pending"
      BY <1>61, <1>62, <1>64, <1>7, <2>1
    <2>4. /\ (Range(chain) \subseteq made)' /\ (disk.blocks \subseteq made)'
          /\ (acked \subseteq made)' /\ OnePerIndex(disk.blocks)'
          /\ (GenesisBlock \in made)'
          /\ (\A c \in made : c.index = 0 => c = GenesisBlock)'
      BY <1>1, <1>4, <2>1 DEF Inv, OriginInv
    <2> QED
      BY <1>7, <2>2, <2>3, <2>4 DEF OriginInv
  <1>11. ChainInv'
    BY <1>1, <1>2, <1>3, ExtendedChainInv
  <1>12. GenesisInv'
    BY <1>1, <1>51, <1>7 DEF Inv, GenesisInv
  <1>13. GapInv'
    <2>1. \A j \in DOMAIN jobs' : \A i \in DOMAIN jobs'[j].writes :
              jobs'[j].writes[i].op = "latest" =>
                  /\ jobs'[j].writes[i].arg \in Nat
                  /\ jobs'[j].writes[i].arg >= Len(chain)
      BY <1>4, <1>61, <1>62, <1>64, <1>7
    <2> QED
      BY <1>1, <1>2, <1>3, <2>1, ExtendedGapInv
  <1>14. SourceInv'
    <2> SUFFICES ASSUME SingleSource
                 PROVE  /\ Gapless(chain)' /\ KeptGapless' /\ (acked \subseteq Kept)'
                        /\ (Kept \subseteq Range(chain))' /\ FollowerStored'
                        /\ (\A j \in DOMAIN jobs : JobInv(jobs[j]))'
      BY <1>1 DEF SourceInv, SingleSource
    <2>1. Gapless(chain)' /\ b.index = Len(chain)
      BY <1>1, <1>2, <1>3, ExtendedGapless DEF Inv, SourceInv
    <2>2. KeptGapless' /\ (acked \subseteq Kept)'
      BY <1>1 DEF Inv, SourceInv, KeptGapless, Kept
    <2>3. (Kept \subseteq Range(chain))'
      BY <1>1, <1>3, RangeExtended DEF Inv, SourceInv, Kept
    <2>4. PICK n \in Nat : n = Len(chain)
      BY <1>3 DEF Extended
    <2>5. Len(chain)' = n + 1
      BY <1>3, <2>4 DEF Extended
    <2>6. FollowerStored'
      <3>1. PutLatest(b.index) = PutLatest(Len(chain)' - 1)
        BY <2>1, <2>4, <2>5
      <3> QED
        BY <1>61, <1>63, <1>7, <3>1 DEF FollowerStored
    <2>7. disk.latest = n - 1
      <3>1. ~mode.mines
        BY <1>1 DEF SingleSource
      <3> QED
        BY <1>1, <1>7, <2>4, <3>1 DEF Inv, SourceInv, FollowerStored
    <2>8. Prepared(job, 2)'
      <3>1. job.writes[2].arg + 1 = n + 1
        BY <1>64, <2>1, <2>4
      <3>2. ASSUME NEW k \in 1 .. n + 1
            PROVE  \/ chain'[k] \in disk'.blocks
                   \/ \E h \in 1 .. 2 - 1 :
                          job.writes[h].op = "blocks" /\ chain'[k] \in job.writes[h].arg
        <4>1. CASE k = n + 1
          <5>1. chain'[k] = b
            BY <1>3, <2>4, <4>1 DEF Extended
          <5>2. job.writes[1].op = "blocks" /\ chain'[k] \in job.writes[1].arg
            BY <1>62, <5>1
          <5>3. 1 \in 1 .. 2 - 1
            OBVIOUS
          <5> QED
            BY <5>2, <5>3
        <4>2. CASE k # n + 1
          <5>1. k \in 1 .. n /\ k \in 1 .. disk.latest + 1
            BY <2>4, <2>7, <4>2
          <5>2. chain'[k] = chain[k]
            BY <1>3, <2>4, <5>1 DEF Extended
          <5>3. chain[k] \in disk.blocks
            BY <1>1, <5>1, KeptIsPrefix DEF Kept
          <5> QED
            BY <1>1, <5>2, <5>3
        <4> QED
          BY <4>1, <4>2
      <3>3. disk'.latest < n + 1 /\ n + 1 \in 1 .. Len(chain)'
        BY <1>1, <2>5, <2>7
      <3>4. \A c \in job.reports : c.index < n + 1
        <4>1. b.index < n + 1
          BY <2>1, <2>4
        <4> QED
          BY <1>51, <4>1
      <3>5. \A k \in DOMAIN job.writes : job.writes[k].op = "latest" => k = 2
        BY <1>61, <1>62
      <3> QED
        BY <3>1, <3>2, <3>3, <3>4, <3>5 DEF Prepared
    <2>9. JobInv(job)'
      BY <1>61, <1>62, <1>64, <2>8 DEF JobInv
    <2>10. (\A j \in DOMAIN jobs : JobInv(jobs[j]))'
      BY <1>7, <2>9
    <2> QED
      BY <2>1, <2>2, <2>3, <2>6, <2>10
  <1> QED
    BY <1>8, <1>9, <1>10, <1>11, <1>12, <1>13, <1>14 DEF Inv

-----------------------------------------------------------------------------
(* A write is carried out.                                                 *)

(* The call in flight, before and after its first write.                   *)
Advanced(job, next) ==
    /\ job \in Jobs /\ next \in Jobs /\ jobs = <<job>> /\ jobs' = <<next>>
    /\ next.kind = job.kind /\ next.reports = job.reports
    /\ 1 \in DOMAIN job.writes /\ job.writes[1] \in Writes
    /\ \A i \in DOMAIN next.writes :
           i \in Nat \ {0} /\ i + 1 \in DOMAIN job.writes /\ next.writes[i] = job.writes[i + 1]
    /\ \A i \in DOMAIN job.writes :
           i = 1 \/ (i \in Nat \ {0} /\ i - 1 \in DOMAIN next.writes
                        /\ next.writes[i - 1] = job.writes[i])
    /\ phase # "down"
    /\ UNCHANGED <<mode, phase, memory, made, acked, submitted>>

LEMMA WriteAdvances ==
    ASSUME Inv, NEW j \in DOMAIN jobs, DatabaseWrite(j)
    PROVE  \E job, next : Advanced(job, next) /\ disk' = Apply(job.writes[1])
  <1>1. PICK job : job = jobs[1]
    OBVIOUS
  <1>2. j = 1 /\ jobs = <<job>> /\ job \in Jobs
    BY <1>1, InFlight DEF Inv
  <1>3. PICK next : next = [job EXCEPT !.writes = Tail(job.writes)]
    OBVIOUS
  <1>4. job.writes \in Seq(Writes) /\ job.writes # <<>>
    BY <1>1, <1>2 DEF Jobs, DatabaseWrite
  <1>5. jobs' = <<next>>
    <2>1. jobs' = [jobs EXCEPT ![1] = next]
      BY <1>1, <1>2, <1>3 DEF DatabaseWrite
    <2>2. DOMAIN jobs = 1 .. 1
      BY <1>2
    <2> QED
      BY <1>2, <2>1, <2>2
  <1>6. next.kind = job.kind /\ next.reports = job.reports /\ next.writes = Tail(job.writes)
    BY <1>2, <1>3 DEF Jobs
  <1>70. Tail(job.writes) \in Seq(Writes)
    BY <1>4
  <1>71. next = [kind |-> job.kind, reports |-> job.reports, writes |-> Tail(job.writes)]
    BY <1>2, <1>3 DEF Jobs
  <1>7. next \in Jobs
    BY <1>2, <1>70, <1>71 DEF Jobs
  <1>8. PICK n \in Nat : n = Len(job.writes) /\ n # 0
    BY <1>4
  <1>9. DOMAIN job.writes = 1 .. n /\ DOMAIN next.writes = 1 .. n - 1
        /\ \A i \in 1 .. n - 1 : next.writes[i] = job.writes[i + 1]
    BY <1>4, <1>6, <1>8, <1>70
  <1>10. \A i \in 1 .. n - 1 : i \in Nat \ {0} /\ i + 1 \in 1 .. n
    BY <1>8
  <1>11. \A i \in 1 .. n : i = 1 \/ (i \in Nat \ {0} /\ i - 1 \in 1 .. n - 1
                                     /\ (i - 1) + 1 = i)
    BY <1>8
  <1>12. \A i \in 1 .. n : i = 1 \/ next.writes[i - 1] = job.writes[i]
    BY <1>9, <1>11
  <1>13. 1 \in DOMAIN job.writes /\ job.writes[1] \in Writes
         /\ Head(job.writes) = job.writes[1]
    BY <1>4, <1>8, <1>9
  <1>14. disk' = Apply(job.writes[1]) /\ UNCHANGED <<mode, phase, memory, made, acked, submitted>>
    BY <1>2, <1>13 DEF DatabaseWrite
  <1>15. phase # "down"
    BY DEF Inv, ShapeInv
  <1>16. \A i \in DOMAIN job.writes :
           i = 1 \/ (i \in Nat \ {0} /\ i - 1 \in DOMAIN next.writes
                        /\ next.writes[i - 1] = job.writes[i])
    BY <1>9, <1>11, <1>12
  <1>17. \A i \in DOMAIN next.writes :
           i \in Nat \ {0} /\ i + 1 \in DOMAIN job.writes /\ next.writes[i] = job.writes[i + 1]
    BY <1>9, <1>10
  <1>18. Advanced(job, next)
    BY <1>2, <1>5, <1>6, <1>7, <1>13, <1>14, <1>15, <1>16, <1>17 DEF Advanced
  <1> QED
    BY <1>14, <1>18

(* What one write does to the database: the blocks, latest_block, or what  *)
(* no invariant on the chain looks at.                                     *)
LEMMA Written ==
    ASSUME ShapeInv, FiniteInv, NEW w \in Writes, disk' = Apply(w),
           w.op = "pending" => IsFiniteSet(w.arg)
    PROVE  /\ disk' \in Disks
           /\ IsFiniteSet(disk'.utxos) /\ IsFiniteSet(disk'.pendingTxs)
           /\ w.op = "blocks" =>
                  disk'.blocks = PutAll(disk.blocks, w.arg) /\ disk'.latest = disk.latest
           /\ w.op = "latest" => disk'.blocks = disk.blocks /\ disk'.latest = w.arg
                                     /\ w.arg \in Nat
           /\ w.op \notin {"blocks", "latest"} =>
                  disk'.blocks = disk.blocks /\ disk'.latest = disk.latest
  <1>1. disk \in Disks /\ IsFiniteSet(disk.utxos) /\ IsFiniteSet(disk.pendingTxs)
    BY DEF ShapeInv, FiniteInv
  <1>2. \A old, new : PutAll(old, new) \subseteq old \cup new
    BY DEF PutAll
  <1>3. CASE w.op = "blocks"
    <2>1. w.arg \subseteq Blocks
      BY <1>3 DEF Writes
    <2>2. disk' = [disk EXCEPT !.blocks = PutAll(disk.blocks, w.arg)]
      BY <1>3 DEF Apply
    <2>3. PutAll(disk.blocks, w.arg) \subseteq Blocks
      BY <1>1, <1>2, <2>1 DEF Disks
    <2> QED
      BY <1>1, <1>3, <2>2, <2>3 DEF Disks
  <1>4. CASE w.op = "latest"
    <2>1. w.arg \in Nat
      BY <1>4 DEF Writes
    <2> QED
      BY <1>1, <1>4, <2>1 DEF Disks, Apply
  <1>5. CASE w.op \in {"utxo", "del utxo"}
    <2>1. w.arg \in OutpointIds
      BY <1>5 DEF Writes
    <2>2. IsFiniteSet(disk.utxos \cup {w.arg}) /\ IsFiniteSet(disk.utxos \ {w.arg})
      BY <1>1, FS_AddElement, FS_RemoveElement
    <2> QED
      BY <1>1, <1>5, <2>1, <2>2 DEF Disks, Apply
  <1>6. CASE w.op = "bare utxos"
    <2>1. w.arg \subseteq OutpointIds
      BY <1>6 DEF Writes
    <2> QED
      BY <1>1, <1>6, <2>1 DEF Disks, Apply
  <1>7. CASE w.op = "pending"
    <2>1. w.arg \subseteq Txs
      BY <1>7 DEF Writes
    <2>2. disk' = [disk EXCEPT !.pendingTxs = PutAll(disk.pendingTxs, w.arg)]
      BY <1>7 DEF Apply
    <2>3. PutAll(disk.pendingTxs, w.arg) \subseteq Txs
      BY <1>1, <1>2, <2>1 DEF Disks
    <2>4. IsFiniteSet(PutAll(disk.pendingTxs, w.arg))
      <3>1. IsFiniteSet(disk.pendingTxs \cup w.arg)
        BY <1>1, <1>7, FS_Union
      <3> QED
        BY <1>2, <3>1, FS_Subset
    <2> QED
      BY <1>1, <1>7, <2>2, <2>3, <2>4 DEF Disks
  <1>8. CASE w.op = "tx"
    <2>1. w.arg \in Txs
      BY <1>8 DEF Writes
    <2>2. disk' = [disk EXCEPT !.txs = PutAll(disk.txs, {w.arg})]
      BY <1>8 DEF Apply
    <2>3. PutAll(disk.txs, {w.arg}) \subseteq Txs
      BY <1>1, <1>2, <2>1 DEF Disks
    <2> QED
      BY <1>1, <1>8, <2>2, <2>3 DEF Disks
  <1>9. CASE w.op = "difficulty"
    <2>1. w.arg \in Nat \ {0}
      BY <1>9 DEF Writes
    <2> QED
      BY <1>1, <1>9, <2>1 DEF Disks, Apply
  <1> QED
    BY <1>3, <1>4, <1>5, <1>6, <1>7, <1>8, <1>9 DEF Writes

(* Blocks of the chain are put into the database.                          *)
BlocksPut(B, stored) ==
    /\ B \subseteq stored /\ stored \subseteq disk.blocks \cup B
    /\ stored \subseteq made /\ OnePerIndex(stored)
    /\ \A b \in Range(chain) : b \in disk.blocks => b \in stored

LEMMA PutKeepsChain ==
    ASSUME Inv, phase # "down", NEW B, B \subseteq Range(chain)
    PROVE  BlocksPut(B, PutAll(disk.blocks, B))
  <1>1. \A b \in Blocks : KeyOf(b) = b.index
    BY DEF KeyOf, Blocks
  <1>2. Range(chain) \subseteq Blocks /\ Range(chain) \subseteq made
        /\ disk.blocks \subseteq Blocks /\ disk.blocks \subseteq made
        /\ OnePerIndex(disk.blocks)
    BY DEF Inv, ShapeInv, OriginInv, Range
  <1>3. OnePerIndex(Range(chain))
    <2>0. chain \in Seq(Blocks)
      BY DEF Inv, ShapeInv
    <2>01. DOMAIN chain = 1 .. Len(chain) /\ \A i \in DOMAIN chain : chain[i] \in Blocks
      BY <2>0
    <2>1. DOMAIN chain \subseteq Nat /\ \A i \in DOMAIN chain : chain[i].index \in Nat
      BY <2>01 DEF Blocks
    <2>2. \A i, k \in DOMAIN chain : chain[i].index = chain[k].index => i = k
      BY <2>1 DEF Inv, ChainInv, Rising
    <2> QED
      BY <2>2 DEF OnePerIndex, Range
  <1>4. PutAll(disk.blocks, B) =
            {x \in disk.blocks : \A y \in B : x.index # y.index} \cup B
    BY <1>1, <1>2 DEF PutAll
  <1> QED
    BY <1>2, <1>3, <1>4 DEF BlocksPut, OnePerIndex

(* What a write leaves of the chain in the database.                       *)
Wrote(w) ==
    /\ w \in Writes
    /\ disk' \in Disks /\ IsFiniteSet(disk'.utxos) /\ IsFiniteSet(disk'.pendingTxs)
    /\ disk'.blocks \subseteq made /\ OnePerIndex(disk'.blocks)
    /\ \A b \in Range(chain) : b \in disk.blocks => b \in disk'.blocks
    /\ \A b \in disk'.blocks : b \in disk.blocks \/ b \in Range(chain)
    /\ w.op = "blocks" => w.arg \subseteq disk'.blocks
    /\ w.op # "latest" => disk'.latest = disk.latest
    /\ w.op = "latest" =>
           disk'.latest = w.arg /\ w.arg \in Nat /\ disk'.blocks = disk.blocks

LEMMA WriteWrote ==
    ASSUME Inv, NEW job, NEW next, Advanced(job, next), disk' = Apply(job.writes[1])
    PROVE  Wrote(job.writes[1])
  <1> PICK w : w = job.writes[1]
    OBVIOUS
  <1>1. w \in Writes /\ disk' = Apply(w) /\ phase # "down"
    BY DEF Advanced
  <1>2. jobs[1] = job /\ 1 \in DOMAIN jobs /\ 1 \in DOMAIN job.writes
    BY DEF Advanced
  <1>3. /\ w.op = "blocks" => w.arg \subseteq Range(chain)
        /\ w.op = "pending" => IsFiniteSet(w.arg)
    BY <1>2 DEF Inv, OriginInv
  <1>4. /\ disk' \in Disks
        /\ IsFiniteSet(disk'.utxos) /\ IsFiniteSet(disk'.pendingTxs)
        /\ w.op = "blocks" =>
               disk'.blocks = PutAll(disk.blocks, w.arg) /\ disk'.latest = disk.latest
        /\ w.op = "latest" => disk'.blocks = disk.blocks /\ disk'.latest = w.arg
                                  /\ w.arg \in Nat
        /\ w.op \notin {"blocks", "latest"} =>
               disk'.blocks = disk.blocks /\ disk'.latest = disk.latest
    BY <1>1, <1>3, Written DEF Inv
  <1>5. disk.blocks \subseteq made /\ OnePerIndex(disk.blocks)
    BY DEF Inv, OriginInv
  <1>6. CASE w.op = "blocks"
    <2>1. BlocksPut(w.arg, disk'.blocks)
      BY <1>1, <1>3, <1>4, <1>6, PutKeepsChain
    <2> QED
      BY <1>1, <1>3, <1>4, <1>6, <2>1 DEF BlocksPut, Wrote
  <1>7. CASE w.op # "blocks"
    BY <1>1, <1>4, <1>5, <1>7 DEF Wrote
  <1> QED
    BY <1>6, <1>7

(* The call in flight is the same one, without its first write.            *)
LEMMA AdvancedJobs ==
    ASSUME NEW job, NEW next, Advanced(job, next)
    PROVE  DOMAIN jobs = {1} /\ jobs[1] = job /\ DOMAIN jobs' = {1} /\ jobs'[1] = next
  BY DEF Advanced

LEMMA WriteOrigin ==
    ASSUME Inv, NEW job, NEW next, Advanced(job, next), Wrote(job.writes[1])
    PROVE  ShapeInv' /\ FiniteInv' /\ OriginInv' /\ ChainInv'
  <1>1. UNCHANGED <<phase, chain, utxo, pending, difficulty, made, acked, submitted>>
        /\ next \in Jobs /\ jobs' = <<next>> /\ phase # "down"
    BY DEF Advanced, memory
  <1>2. ShapeInv'
    BY <1>1 DEF Inv, ShapeInv, OneCall, Wrote
  <1>3. FiniteInv'
    BY <1>1 DEF Inv, FiniteInv, Wrote
  <1>4. ChainInv'
    BY <1>1 DEF Inv, ChainInv
  <1>5. OriginInv'
    <2>1. /\ job.reports \subseteq Range(chain)
          /\ \A i \in DOMAIN job.writes :
                 /\ job.writes[i].op = "blocks" => job.writes[i].arg \subseteq Range(chain)
                 /\ job.writes[i].op = "pending" => IsFiniteSet(job.writes[i].arg)
      BY AdvancedJobs DEF Inv, OriginInv
    <2>2. /\ next.reports \subseteq Range(chain)
          /\ \A i \in DOMAIN next.writes :
                 /\ next.writes[i].op = "blocks" => next.writes[i].arg \subseteq Range(chain)
                 /\ next.writes[i].op = "pending" => IsFiniteSet(next.writes[i].arg)
      BY <2>1 DEF Advanced
    <2> QED
      BY <1>1, <2>2, AdvancedJobs DEF Inv, OriginInv, Wrote
  <1> QED
    BY <1>2, <1>3, <1>4, <1>5

LEMMA GenesisOnChain ==
    ASSUME Inv, phase # "down"
    PROVE  GenesisBlock \in Range(chain) /\ 1 \in DOMAIN chain
  BY DEF Inv, ChainInv, ShapeInv, Range

LEMMA WriteGenesis ==
    ASSUME Inv, NEW job, NEW next, Advanced(job, next), Wrote(job.writes[1])
    PROVE  GenesisInv'
  <1> PICK w : w = job.writes[1]
    OBVIOUS
  <1>0. UNCHANGED <<phase, chain>> /\ next.kind = job.kind /\ phase # "down"
        /\ next \in Jobs /\ jobs = <<job>> /\ jobs' = <<next>> /\ 1 \in DOMAIN job.writes
    BY DEF Advanced, memory
  <1>1. GenesisBlock \in disk.blocks => GenesisBlock \in disk'.blocks
    BY <1>0, GenesisOnChain DEF Wrote
  <1>2. Absent \notin Nat
    BY DEF Absent
  <1>3. jobs[1].kind = "genesis" <=> phase = "starting"
    BY AdvancedJobs DEF Inv, GenesisInv
  <1>4. CASE phase = "starting"
    <2>1. /\ chain = <<GenesisBlock>>
          /\ disk.latest \in {Absent, 0}
          /\ job.kind = "genesis"
          /\ \A i \in DOMAIN job.writes :
                 job.writes[i].op = "latest" => job.writes[i].arg = 0
          /\ GenesisBlock \in disk.blocks \/ w = PutBlocks({GenesisBlock})
          /\ \/ disk.latest = 0
             \/ \E i \in DOMAIN job.writes : job.writes[i].op = "latest"
      <3>1. PICK c \in Jobs :
                  /\ jobs = <<c>>
                  /\ c.kind = "genesis"
                  /\ \A i \in DOMAIN c.writes :
                         c.writes[i].op = "latest" => c.writes[i].arg = 0
                  /\ \/ GenesisBlock \in disk.blocks
                     \/ c.writes # <<>> /\ c.writes[1] = PutBlocks({GenesisBlock})
                  /\ \/ disk.latest = 0
                     \/ \E i \in DOMAIN c.writes : c.writes[i].op = "latest"
        BY <1>4 DEF Inv, GenesisInv
      <3>2. c = job
        BY <1>0, <3>1
      <3> QED
        BY <1>4, <3>1, <3>2 DEF Inv, GenesisInv
    <2>2. w.op = "latest" => disk'.latest = 0
      BY <1>0, <2>1 DEF Wrote
    <2>3. disk'.latest \in {Absent, 0}
      BY <2>1, <2>2 DEF Wrote
    <2>4. w = PutBlocks({GenesisBlock}) => GenesisBlock \in disk'.blocks
      BY DEF PutBlocks, Wrote
    <2>5. GenesisBlock \in disk'.blocks
      BY <1>1, <2>1, <2>4
    <2>6. disk'.latest = 0 \/ \E i \in DOMAIN next.writes : next.writes[i].op = "latest"
      <3>1. CASE disk.latest = 0
        BY <2>2, <3>1 DEF Wrote
      <3>2. ASSUME NEW i \in DOMAIN job.writes, job.writes[i].op = "latest"
            PROVE  \/ disk'.latest = 0
                   \/ \E k \in DOMAIN next.writes : next.writes[k].op = "latest"
        <4>1. CASE i = 1
          BY <2>2, <3>2, <4>1
        <4>2. CASE i # 1
          BY <3>2, <4>2 DEF Advanced
        <4> QED
          BY <4>1, <4>2
      <3> QED
        BY <2>1, <3>1, <3>2
    <2>7. \A i \in DOMAIN next.writes : next.writes[i].op = "latest" => next.writes[i].arg = 0
      BY <2>1 DEF Advanced
    <2>8. \A j \in DOMAIN jobs' : jobs'[j].kind = "genesis"
      BY <1>0, <2>1, AdvancedJobs
    <2> QED
      BY <1>0, <1>4, <2>1, <2>3, <2>5, <2>6, <2>7, <2>8 DEF GenesisInv
  <1>5. CASE phase = "up"
    <2>1. disk.latest # Absent /\ GenesisBlock \in disk.blocks
      BY <1>5 DEF Inv, GenesisInv
    <2>2. disk'.latest # Absent
      BY <1>2, <2>1 DEF Wrote
    <2>3. \A j \in DOMAIN jobs' : jobs'[j].kind # "genesis"
      BY <1>0, <1>3, <1>5, AdvancedJobs
    <2> QED
      BY <1>0, <1>1, <1>5, <2>1, <2>2, <2>3 DEF GenesisInv
  <1> QED
    BY <1>0, <1>4, <1>5 DEF Inv, ShapeInv

(* Blocks put later do not fill the place of a missing one.                *)
LEMMA WriteGap ==
    ASSUME Inv, NEW job, NEW next, Advanced(job, next), Wrote(job.writes[1])
    PROVE  GapInv'
  <1> SUFFICES ASSUME phase = "up", ~Linked(chain)
               PROVE  \E p \in Nat : GapAfter(p)'
    BY DEF GapInv, Linked, Advanced, memory
  <1> PICK w : w = job.writes[1]
    OBVIOUS
  <1>1. PICK p \in Nat : GapAfter(p)
    BY DEF Inv, GapInv
  <1>2. UNCHANGED chain
    BY DEF Advanced, memory
  <1>3. \A i \in DOMAIN job.writes : job.writes[i].op = "latest" => job.writes[i].arg >= p
    BY <1>1, AdvancedJobs DEF GapAfter
  <1>4. \A j \in DOMAIN jobs' : \A i \in DOMAIN jobs'[j].writes :
            jobs'[j].writes[i].op = "latest" => jobs'[j].writes[i].arg >= p
    BY <1>3, AdvancedJobs DEF Advanced
  <1>5. disk'.latest >= p
    <2>1. w.op = "latest" => w.arg >= p
      BY <1>3 DEF Advanced
    <2>2. disk.latest >= p
      BY <1>1 DEF GapAfter
    <2> QED
      BY <2>1, <2>2 DEF Wrote
  <1>6. PICK n \in Nat : n = Len(chain) /\ DOMAIN chain = 1 .. n
    BY DEF Inv, ShapeInv
  <1>7. p \in 1 .. n - 1
    BY <1>1, <1>6 DEF GapAfter
  <1>8. \A i \in 1 .. p + 1 : i \in DOMAIN chain /\ chain[i] \in Range(chain)
    BY <1>6, <1>7 DEF Range
  <1>9. \A i \in 1 .. p + 1 : chain[i] \in disk'.blocks
    BY <1>1, <1>8 DEF GapAfter, Wrote
  <1>10. ASSUME chain[p + 1].index > p, NEW b \in disk'.blocks
         PROVE  b.index # p
    <2>1. CASE b \in disk.blocks
      BY <1>1, <1>10, <2>1 DEF GapAfter
    <2>2. CASE b \in Range(chain)
      <3>1. PICK k \in 1 .. n : chain[k] = b
        BY <1>6, <2>2 DEF Range
      <3>2. CASE k \in 1 .. p
        <4>1. b.index = k - 1
          BY <1>1, <3>1, <3>2 DEF GapAfter
        <4> QED
          BY <3>2, <4>1
      <3>3. CASE k = p + 1
        BY <1>10, <3>1, <3>3
      <3>4. CASE k > p + 1
        <4>1. p + 1 \in DOMAIN chain /\ k \in DOMAIN chain
          BY <1>6, <1>8, <3>1
        <4>2. chain[p + 1].index < chain[k].index
          BY <3>4, <4>1 DEF Inv, ChainInv, Rising
        <4>3. chain[p + 1].index \in Nat /\ chain[k].index \in Nat
          BY <4>1, ChainOfBlocks DEF Inv
        <4> QED
          BY <1>10, <3>1, <4>2, <4>3
      <3> QED
        BY <3>2, <3>3, <3>4
    <2> QED
      BY <2>1, <2>2 DEF Wrote
  <1>11. GapAfter(p)'
    BY <1>1, <1>2, <1>4, <1>5, <1>9, <1>10 DEF GapAfter
  <1> QED
    BY <1>11

-----------------------------------------------------------------------------
(* One source: what a write does to the part of the chain that counts.     *)

(* Only the genesis block is stored while the database is set up.          *)
LEMMA StartingSource ==
    ASSUME Inv, NEW job, NEW next, Advanced(job, next), Wrote(job.writes[1]),
           OriginInv', GenesisInv', phase = "starting"
    PROVE  SourceInv'
  <1> SUFFICES ASSUME SingleSource
               PROVE  Gapless(chain)' /\ KeptGapless' /\ (acked \subseteq Kept)'
    BY DEF SourceInv, SingleSource, Advanced, memory
  <1>1. UNCHANGED <<chain, phase, made, acked>>
    BY DEF Advanced, memory
  <1>2. Gapless(chain)'
    BY <1>1 DEF Inv, SourceInv, Gapless, Linked
  <1>3. disk.latest \in {Absent, 0} /\ disk'.latest \in {Absent, 0}
    BY <1>1 DEF Inv, GenesisInv
  <1>4. disk'.latest # Absent => GenesisBlock \in disk'.blocks
    BY DEF GenesisInv
  <1>5. \A b \in made : b.index = 0 => b = GenesisBlock
    BY DEF Inv, OriginInv
  <1>6. disk.blocks \subseteq made /\ disk'.blocks \subseteq made
    BY DEF Inv, OriginInv, Wrote
  <1>7. \A i : i \in 0 .. disk.latest \/ i \in 0 .. disk'.latest => i = 0
    BY <1>3 DEF Absent
  <1>8. Kept \subseteq {GenesisBlock} /\ Kept' \subseteq {GenesisBlock}
    BY <1>5, <1>6, <1>7 DEF Kept
  <1>9. GenesisBlock.index = 0
    BY DEF GenesisBlock
  <1>10. \A i \in 0 .. disk'.latest : \E b \in disk'.blocks : b.index = i
    <2> SUFFICES ASSUME NEW i \in 0 .. disk'.latest
                 PROVE  \E b \in disk'.blocks : b.index = i
      OBVIOUS
    <2>1. i = 0 /\ disk'.latest # Absent
      BY <1>7 DEF Absent
    <2> QED
      BY <1>4, <1>9, <2>1
  <1>11. KeptGapless'
    <2>1. \A b, c \in Kept' : c.index # b.index + 1
      BY <1>8, <1>9
    <2> QED
      BY <1>10, <2>1 DEF KeptGapless
  <1>12. Kept # {} => GenesisBlock \in Kept'
    <2> SUFFICES ASSUME Kept # {}
                 PROVE  GenesisBlock \in Kept'
      OBVIOUS
    <2>1. disk.latest = 0
      BY <1>3 DEF Kept, Absent
    <2>2. disk'.latest = 0
      BY <1>3, <2>1 DEF Wrote, Absent
    <2>3. GenesisBlock \in disk'.blocks
      BY <1>4, <2>2 DEF Absent
    <2>4. GenesisBlock.index \in 0 .. disk'.latest
      BY <1>9, <2>2
    <2> QED
      BY <2>3, <2>4 DEF Kept
  <1>13. acked \subseteq Kept
    BY DEF Inv, SourceInv
  <1> QED
    BY <1>1, <1>2, <1>8, <1>11, <1>12, <1>13

(* Any write but the one of latest_block leaves the part that counts.      *)
LEMMA KeptUnchanged ==
    ASSUME Inv, SingleSource, phase = "up", NEW w, Wrote(w), w.op # "latest",
           UNCHANGED chain
    PROVE  Kept' = Kept /\ KeptGapless'
  <1>1. disk'.latest = disk.latest
    BY DEF Wrote
  <1>2. Kept \subseteq Range(chain)
    BY DEF Inv, SourceInv
  <1>3. Kept \subseteq Kept'
    BY <1>1, <1>2 DEF Kept, Wrote
  <1>4. ASSUME NEW b \in Kept'
        PROVE  b \in Kept
    <2>1. b \in disk'.blocks /\ b.index \in 0 .. disk.latest
      BY <1>1 DEF Kept
    <2>2. CASE b \in disk.blocks
      BY <2>1, <2>2 DEF Kept
    <2>3. CASE b \in Range(chain)
      <3>1. PICK k \in DOMAIN chain : chain[k] = b
        BY <2>3 DEF Range
      <3>2. b.index = k - 1
        BY <3>1 DEF Inv, SourceInv, Gapless
      <3>3. k \in Nat /\ k >= 1
        BY <3>1, ChainOfBlocks DEF Inv
      <3>4. k \in 1 .. disk.latest + 1
        <4>1. disk.latest \in Nat
          BY LatestBelow
        <4> QED
          BY <2>1, <3>2, <3>3, <4>1
      <3> QED
        BY <3>1, <3>4, KeptIsPrefix
    <2> QED
      BY <2>1, <2>2, <2>3 DEF Wrote
  <1>5. Kept' = Kept
    BY <1>3, <1>4
  <1>6. \A i \in 0 .. disk.latest : \E b \in disk'.blocks : b.index = i
    <2> SUFFICES ASSUME NEW i \in 0 .. disk.latest
                 PROVE  \E b \in disk'.blocks : b.index = i
      OBVIOUS
    <2>1. PICK b \in disk.blocks : b.index = i
      BY DEF Inv, SourceInv, KeptGapless
    <2>2. b \in Kept'
      BY <1>3, <2>1 DEF Kept
    <2> QED
      BY <2>1, <2>2 DEF Kept
  <1>7. \A b, c \in Kept : c.index = b.index + 1 => c.previousHash = b.hash
    BY DEF Inv, SourceInv, KeptGapless
  <1>8. KeptGapless'
    BY <1>1, <1>5, <1>6, <1>7 DEF KeptGapless
  <1> QED
    BY <1>5, <1>8

(* ... and the call goes on to write latest_block as prepared.             *)
LEMMA PreparedAdvances ==
    ASSUME Inv, phase = "up", NEW job, NEW next, Advanced(job, next),
           Wrote(job.writes[1]), job.writes[1].op # "latest",
           NEW i \in DOMAIN next.writes, next.writes[i].op = "latest",
           Prepared(job, i + 1)
    PROVE  Prepared(next, i)'
  <1>1. UNCHANGED chain /\ next.reports = job.reports /\ disk'.latest = disk.latest
    BY DEF Advanced, memory, Wrote
  <1>2. i \in Nat \ {0} /\ i + 1 \in DOMAIN job.writes
        /\ next.writes[i] = job.writes[i + 1]
    BY DEF Advanced
  <1> PICK n : n = job.writes[i + 1].arg + 1
    OBVIOUS
  <1>3. n = next.writes[i].arg + 1
    BY <1>2
  <1>4. n \in 1 .. Len(chain) /\ disk.latest < n /\ \A b \in job.reports : b.index < n
    BY DEF Prepared
  <1>5. ASSUME NEW k \in 1 .. n
        PROVE  \/ chain[k] \in disk'.blocks
               \/ \E h \in 1 .. i - 1 :
                      next.writes[h].op = "blocks" /\ chain[k] \in next.writes[h].arg
    <2>1. chain[k] \in Range(chain)
      BY <1>4, ChainOfBlocks DEF Inv, Range
    <2>2. CASE chain[k] \in disk.blocks
      BY <2>1, <2>2 DEF Wrote
    <2>3. ASSUME NEW h \in 1 .. (i + 1) - 1,
                 job.writes[h].op = "blocks", chain[k] \in job.writes[h].arg
          PROVE  \/ chain[k] \in disk'.blocks
                 \/ \E g \in 1 .. i - 1 :
                        next.writes[g].op = "blocks" /\ chain[k] \in next.writes[g].arg
      <3>1. CASE h = 1
        BY <2>3, <3>1 DEF Wrote
      <3>2. CASE h # 1
        <4>1. h - 1 \in 1 .. i - 1 /\ (h - 1) + 1 = h /\ h \in Nat
          BY <1>2, <3>2
        <4>2. h \in DOMAIN job.writes
          <5>1. job.writes \in Seq(Writes)
            BY DEF Advanced, Jobs
          <5> QED
            BY <1>2, <4>1, <5>1
        <4>3. next.writes[h - 1] = job.writes[h]
          BY <3>2, <4>2 DEF Advanced
        <4> QED
          BY <2>3, <4>1, <4>3
      <3> QED
        BY <3>1, <3>2
    <2>4. \/ chain[k] \in disk.blocks
          \/ \E h \in 1 .. (i + 1) - 1 :
                 job.writes[h].op = "blocks" /\ chain[k] \in job.writes[h].arg
      BY DEF Prepared
    <2> QED
      BY <2>2, <2>3, <2>4
  <1>6. ASSUME NEW k \in DOMAIN next.writes, next.writes[k].op = "latest"
        PROVE  k = i
    <2>1. k \in Nat /\ k + 1 \in DOMAIN job.writes /\ job.writes[k + 1].op = "latest"
      BY <1>6 DEF Advanced
    <2>2. k + 1 = i + 1
      BY <2>1 DEF Prepared
    <2> QED
      BY <1>2, <2>1, <2>2
  <1> QED
    BY <1>1, <1>3, <1>4, <1>5, <1>6 DEF Prepared

LEMMA OtherWriteSource ==
    ASSUME Inv, phase = "up", SingleSource, NEW job, NEW next, Advanced(job, next),
           Wrote(job.writes[1]), job.writes[1].op # "latest"
    PROVE  SourceInv'
  <1>1. UNCHANGED <<mode, chain, phase, acked>> /\ next.reports = job.reports
    BY DEF Advanced, memory
  <1>2. Kept' = Kept /\ KeptGapless'
    BY <1>1, KeptUnchanged
  <1>3. Gapless(chain)'
    BY <1>1 DEF Inv, SourceInv, Gapless, Linked
  <1>4. (Kept \subseteq Range(chain))' /\ (acked \subseteq Kept)'
    BY <1>1, <1>2 DEF Inv, SourceInv
  <1>5. JobInv(job)
    BY AdvancedJobs DEF Inv, SourceInv
  <1>6. FollowerStored'
    <2> SUFFICES ASSUME ~mode.mines, disk.latest # Len(chain) - 1
                 PROVE  \E i \in DOMAIN next.writes : next.writes[i] = PutLatest(Len(chain) - 1)
      BY <1>1, AdvancedJobs DEF FollowerStored, Wrote
    <2>1. PICK i \in DOMAIN job.writes : job.writes[i] = PutLatest(Len(chain) - 1)
      BY AdvancedJobs DEF Inv, SourceInv, FollowerStored
    <2>2. i # 1
      BY <2>1 DEF PutLatest
    <2> QED
      BY <2>1, <2>2 DEF Advanced
  <1>7. JobInv(next)'
    <2>1. ASSUME NEW i \in DOMAIN next.writes, next.writes[i].op = "latest"
          PROVE  Prepared(next, i)'
      <3>1. i + 1 \in DOMAIN job.writes /\ job.writes[i + 1].op = "latest"
        BY <2>1 DEF Advanced
      <3>2. Prepared(job, i + 1)
        BY <1>5, <3>1 DEF JobInv
      <3> QED
        BY <2>1, <3>2, PreparedAdvances
    <2>2. ASSUME \A i \in DOMAIN next.writes : next.writes[i].op # "latest"
          PROVE  next.reports \subseteq Kept'
      <3>1. \A i \in DOMAIN job.writes : job.writes[i].op # "latest"
        BY <2>2 DEF Advanced
      <3> QED
        BY <1>1, <1>2, <1>5, <3>1 DEF JobInv
    <2> QED
      BY <2>1, <2>2 DEF JobInv
  <1>8. (\A j \in DOMAIN jobs : JobInv(jobs[j]))'
    BY <1>7, AdvancedJobs
  <1> QED
    BY <1>2, <1>3, <1>4, <1>6, <1>8 DEF SourceInv

(* latest_block moves up to the last of the blocks that are stored.        *)
LEMMA LatestWriteSource ==
    ASSUME Inv, phase = "up", SingleSource, NEW job, NEW next, Advanced(job, next),
           Wrote(job.writes[1]), job.writes[1].op = "latest"
    PROVE  SourceInv'
  <1>1. UNCHANGED <<mode, chain, phase, acked>> /\ next.reports = job.reports
        /\ 1 \in DOMAIN job.writes
    BY DEF Advanced, memory
  <1> PICK m : m = job.writes[1].arg
    OBVIOUS
  <1>2. m \in Nat /\ disk'.latest = m /\ disk'.blocks = disk.blocks
    BY DEF Wrote
  <1>3. JobInv(job)
    BY AdvancedJobs DEF Inv, SourceInv
  <1>4. Prepared(job, 1)
    BY <1>1, <1>3 DEF JobInv
  <1>5. /\ m + 1 \in 1 .. Len(chain)
        /\ disk.latest < m + 1
        /\ \A k \in 1 .. m + 1 : chain[k] \in disk.blocks
        /\ \A b \in job.reports : b.index < m + 1
        /\ \A k \in DOMAIN job.writes : job.writes[k].op = "latest" => k = 1
    <2>1. \A h : h \notin 1 .. 1 - 1
      OBVIOUS
    <2> QED
      BY <1>4, <2>1 DEF Prepared
  <1>6. Len(chain) \in Nat /\ DOMAIN chain = 1 .. Len(chain)
        /\ disk.latest \in Nat /\ disk.latest < Len(chain)
    BY ChainOfBlocks, LatestBelow DEF Inv
  <1>7. \A k \in DOMAIN chain : chain[k].index = k - 1
    BY DEF Inv, SourceInv, Gapless
  <1>8. Linked(chain)
    BY DEF Inv, SourceInv, Gapless
  <1>9. \A k \in 1 .. m + 1 : k \in DOMAIN chain
    BY <1>2, <1>5, <1>6
  <1>10. \A k \in 1 .. m + 1 : chain[k] \in Kept'
    <2> SUFFICES ASSUME NEW k \in 1 .. m + 1
                 PROVE  chain[k] \in Kept'
      OBVIOUS
    <2>1. chain[k].index = k - 1 /\ chain[k] \in disk'.blocks
      BY <1>2, <1>5, <1>7, <1>9
    <2>2. k - 1 \in 0 .. m
      BY <1>2
    <2> QED
      BY <1>2, <2>1, <2>2 DEF Kept
  <1>11. ASSUME NEW b \in Kept'
         PROVE  \E k \in 1 .. m + 1 : chain[k] = b
    <2>1. b \in disk.blocks /\ b.index \in 0 .. m
      BY <1>2 DEF Kept
    <2>2. PICK k \in Nat : k = b.index + 1
      BY <1>2, <2>1
    <2>3. k \in 1 .. m + 1 /\ k - 1 = b.index
      BY <1>2, <2>1, <2>2
    <2>4. chain[k] \in disk.blocks /\ chain[k].index = b.index
      BY <1>5, <1>7, <1>9, <2>3
    <2>5. chain[k] = b
      BY <2>1, <2>4 DEF Inv, OriginInv, OnePerIndex
    <2> QED
      BY <2>3, <2>5
  <1>12. (Kept \subseteq Range(chain))'
    BY <1>1, <1>9, <1>11 DEF Range
  <1>13. Kept \subseteq Kept'
    <2> SUFFICES ASSUME NEW b \in Kept
                 PROVE  b \in Kept'
      OBVIOUS
    <2>1. b \in disk.blocks /\ b.index \in 0 .. disk.latest
      BY DEF Kept
    <2>2. b.index \in 0 .. m
      BY <1>2, <1>5, <1>6, <2>1
    <2> QED
      BY <1>2, <2>1, <2>2 DEF Kept
  <1>14. KeptGapless'
    <2>1. \A i \in 0 .. m : \E b \in disk'.blocks : b.index = i
      <3> SUFFICES ASSUME NEW i \in 0 .. m
                   PROVE  \E b \in disk'.blocks : b.index = i
        OBVIOUS
      <3>1. i + 1 \in 1 .. m + 1 /\ (i + 1) - 1 = i
        BY <1>2
      <3> QED
        BY <1>2, <1>5, <1>7, <1>9, <3>1
    <2>2. ASSUME NEW b \in Kept', NEW c \in Kept', c.index = b.index + 1
          PROVE  c.previousHash = b.hash
      <3>1. PICK k \in 1 .. m + 1 : chain[k] = b
        BY <1>11
      <3>2. PICK h \in 1 .. m + 1 : chain[h] = c
        BY <1>11
      <3>3. h - 1 = (k - 1) + 1
        BY <1>7, <1>9, <2>2, <3>1, <3>2
      <3>4. h = k + 1 /\ k \in 1 .. Len(chain) - 1
        BY <1>2, <1>5, <1>6, <3>1, <3>2, <3>3
      <3> QED
        BY <1>8, <3>1, <3>2, <3>4 DEF Linked
    <2> QED
      BY <1>2, <2>1, <2>2 DEF KeptGapless
  <1>15. Gapless(chain)' /\ (acked \subseteq Kept)'
    BY <1>1, <1>13 DEF Inv, SourceInv, Gapless, Linked
  <1>16. FollowerStored'
    <2> SUFFICES ASSUME ~mode.mines
                 PROVE  m = Len(chain) - 1
      BY <1>1, <1>2 DEF FollowerStored
    <2>1. CASE disk.latest = Len(chain) - 1
      BY <1>2, <1>5, <1>6, <2>1
    <2>2. ASSUME NEW i \in DOMAIN job.writes, job.writes[i] = PutLatest(Len(chain) - 1)
          PROVE  m = Len(chain) - 1
      <3>1. job.writes[i].op = "latest" /\ job.writes[i].arg = Len(chain) - 1
        BY <2>2 DEF PutLatest
      <3>2. i = 1
        BY <1>5, <3>1
      <3> QED
        BY <3>1, <3>2
    <2> QED
      BY <2>1, <2>2, AdvancedJobs DEF Inv, SourceInv, FollowerStored
  <1>17. \A i \in DOMAIN next.writes : next.writes[i].op # "latest"
    <2> SUFFICES ASSUME NEW i \in DOMAIN next.writes, next.writes[i].op = "latest"
                 PROVE  FALSE
      OBVIOUS
    <2>1. i \in Nat \ {0} /\ i + 1 \in DOMAIN job.writes /\ job.writes[i + 1].op = "latest"
      BY DEF Advanced
    <2>2. i + 1 = 1
      BY <1>5, <2>1
    <2> QED
      BY <2>1, <2>2
  <1>18. next.reports \subseteq Kept'
    <2> SUFFICES ASSUME NEW b \in job.reports
                 PROVE  b \in Kept'
      BY <1>1
    <2>1. b \in Range(chain)
      BY AdvancedJobs DEF Inv, OriginInv
    <2>2. PICK k \in DOMAIN chain : chain[k] = b
      BY <2>1 DEF Range
    <2>3. k - 1 < m + 1
      BY <1>5, <1>7, <2>2
    <2>4. k \in 1 .. m + 1
      BY <1>2, <1>6, <2>2, <2>3
    <2> QED
      BY <1>10, <2>2, <2>4
  <1>19. JobInv(next)'
    BY <1>17, <1>18 DEF JobInv
  <1>20. (\A j \in DOMAIN jobs : JobInv(jobs[j]))'
    BY <1>19, AdvancedJobs
  <1> QED
    BY <1>12, <1>14, <1>15, <1>16, <1>20 DEF SourceInv

LEMMA DatabaseWriteInv ==
    ASSUME Inv, NEW j \in DOMAIN jobs, DatabaseWrite(j)
    PROVE  Inv'
  <1>1. PICK job, next : Advanced(job, next) /\ disk' = Apply(job.writes[1])
    BY WriteAdvances
  <1>2. Wrote(job.writes[1])
    BY <1>1, WriteWrote
  <1>3. ShapeInv' /\ FiniteInv' /\ OriginInv' /\ ChainInv'
    BY <1>1, <1>2, WriteOrigin
  <1>4. GenesisInv'
    BY <1>1, <1>2, WriteGenesis
  <1>5. GapInv'
    BY <1>1, <1>2, WriteGap
  <1>6. SourceInv'
    <2>1. CASE phase = "starting"
      BY <1>1, <1>2, <1>3, <1>4, <2>1, StartingSource
    <2>2. CASE phase = "up" /\ SingleSource
      BY <1>1, <1>2, <2>2, OtherWriteSource, LatestWriteSource
    <2>3. CASE ~SingleSource
      BY <1>1, <2>3 DEF SourceInv, SingleSource, Advanced
    <2>4. phase \in {"starting", "up"}
      BY <1>1 DEF Inv, ShapeInv, Advanced
    <2> QED
      BY <2>1, <2>2, <2>3, <2>4
  <1> QED
    BY <1>3, <1>4, <1>5, <1>6 DEF Inv

-----------------------------------------------------------------------------
(* Memory is loaded from the database.                                     *)

(* A database that has a latest_block has a chain that can be built on.    *)
LEMMA LoadedStart ==
    ASSUME ShapeInv, FiniteInv, OriginInv, GenesisInv, disk.latest # Absent
    PROVE  LoadedBlocks # <<>> /\ LoadedBlocks[1] = GenesisBlock
  <1> PICK s : s = LoadedBlocks
    OBVIOUS
  <1>1. s \in Seq(Blocks) /\ Range(s) = Kept /\ Rising(s)
    BY LoadedEnumerates DEF Enumerates
  <1>2. disk.latest \in Nat
    BY DEF ShapeInv, Disks
  <1>3. GenesisBlock \in Kept
    <2>1. GenesisBlock.index \in 0 .. disk.latest
      BY <1>2 DEF GenesisBlock
    <2> QED
      BY <2>1 DEF GenesisInv, Kept
  <1>4. PICK k \in DOMAIN s : s[k] = GenesisBlock
    BY <1>1, <1>3 DEF Range
  <1>5. k \in Nat /\ k >= 1 /\ s # <<>>
    BY <1>1, <1>4
  <1>6. 0 >= k - 1
    <2>1. s[k].index >= k - 1
      BY <1>1, <1>4 DEF Rising
    <2> QED
      BY <1>4, <2>1 DEF GenesisBlock
  <1>7. k = 1
    BY <1>5, <1>6
  <1> QED
    BY <1>4, <1>5, <1>7

(* Loading after a restart, or at the end of rebuildUTXOSet.               *)
Loads ==
    /\ LoadMemory /\ phase' = "up" /\ jobs' = <<>>
    /\ disk.latest # Absent
    /\ UNCHANGED <<mode, disk, made, submitted>>
    /\ acked' \subseteq made /\ (SingleSource => acked' \subseteq Kept)

LEMMA LoadedGap ==
    ASSUME Inv, Loads, ~Linked(LoadedBlocks)
    PROVE  \E p \in Nat : GapAfter(p)'
  <1> PICK s : s = LoadedBlocks
    OBVIOUS
  <1>1. s \in Seq(Blocks) /\ Range(s) = Kept /\ Rising(s) /\ ~Linked(s)
        /\ chain' = s /\ disk' = disk /\ jobs' = <<>>
    BY LoadedEnumerates DEF Enumerates, Inv, Loads, LoadMemory
  <1>2. s # <<>> /\ s[1].index = 0
    BY LoadedStart DEF Inv, Loads, GenesisBlock
  <1>3. PICK p \in 1 .. Len(s) - 1 :
            Broken(s, p) /\ \A i \in 1 .. p : s[i].index = i - 1
    BY <1>1, <1>2, FirstGap
  <1>4. PICK n \in Nat : n = Len(s) /\ DOMAIN s = 1 .. n
    BY <1>1
  <1>5. \A i \in DOMAIN s : s[i] \in disk.blocks /\ s[i].index \in 0 .. disk.latest
    BY <1>1 DEF Range, Kept
  <1>6. disk.latest \in Nat
    BY DEF Inv, ShapeInv, Disks, Loads
  <1>7. \A i \in 1 .. p + 1 : i \in DOMAIN s
    BY <1>3, <1>4
  <1>8. p \in Nat /\ p + 1 \in 1 .. p + 1 /\ p \in 1 .. p + 1
    BY <1>3, <1>4
  <1>9. disk.latest >= p
    <2>1. s[p + 1].index >= (p + 1) - 1
      BY <1>1, <1>7, <1>8 DEF Rising
    <2>2. s[p + 1].index \in 0 .. disk.latest
      BY <1>5, <1>7, <1>8
    <2> QED
      BY <1>6, <1>8, <2>1, <2>2
  <1>10. s[p + 1].index # p \/ s[p + 1].previousHash # s[p].hash
    <2>1. s[p].index + 1 = p
      BY <1>3, <1>4, <1>8
    <2> QED
      BY <1>3, <2>1 DEF Broken
  <1>11. ASSUME s[p + 1].index > p, NEW b \in disk.blocks, b.index = p
         PROVE  FALSE
    <2>1. b \in Kept
      BY <1>6, <1>8, <1>9, <1>11 DEF Kept
    <2>2. PICK k \in DOMAIN s : s[k] = b
      BY <1>1, <2>1 DEF Range
    <2>3. k \in 1 .. n
      BY <1>4, <2>2
    <2>4. CASE k \in 1 .. p
      <3>1. s[k].index = k - 1
        BY <1>3, <2>4
      <3> QED
        BY <1>8, <1>11, <2>2, <2>4, <3>1
    <2>5. CASE k = p + 1
      BY <1>8, <1>11, <2>2, <2>5
    <2>6. CASE k > p + 1
      <3>1. s[p + 1].index < s[k].index
        BY <1>1, <1>7, <1>8, <2>2, <2>6 DEF Rising
      <3>2. s[p + 1].index \in 0 .. disk.latest
        BY <1>5, <1>7, <1>8
      <3> QED
        BY <1>6, <1>8, <1>11, <2>2, <3>1, <3>2
    <2> QED
      BY <1>8, <2>3, <2>4, <2>5, <2>6
  <1>12. GapAfter(p)'
    BY <1>1, <1>3, <1>5, <1>7, <1>9, <1>10, <1>11 DEF GapAfter
  <1> QED
    BY <1>8, <1>12

(* One source: what is loaded is the chain up to latest_block.             *)
LEMMA LoadedGapless ==
    ASSUME ShapeInv, FiniteInv, OriginInv, KeptGapless, disk.latest # Absent
    PROVE  Gapless(LoadedBlocks) /\ Len(LoadedBlocks) = disk.latest + 1
  <1> PICK s : s = LoadedBlocks
    OBVIOUS
  <1>1. Enumerates(s, Kept) /\ s \in Seq(Blocks) /\ Range(s) = Kept /\ Rising(s)
    BY LoadedEnumerates DEF Enumerates
  <1>2. PICK m \in Nat : m = disk.latest
    BY DEF ShapeInv, Disks
  <1>3. PICK n \in Nat : n = Len(s) /\ DOMAIN s = 1 .. n
    BY <1>1
  <1>4. \A b \in Kept : b.index \in Nat /\ b.index <= m
    BY <1>2 DEF Kept
  <1>5. \A i \in 0 .. m : \E b \in Kept : b.index = i
    BY <1>2 DEF KeptGapless, Kept
  <1>6. \A i \in 1 .. m + 1 : i \in DOMAIN s /\ s[i].index = i - 1
    <2> PICK K : K = Kept
      OBVIOUS
    <2>1. \A b \in K : b.index \in Nat
      BY <1>4
    <2>2. Enumerates(s, K)
      BY <1>1
    <2>3. \A i \in 0 .. m : \E b \in K : b.index = i
      BY <1>5
    <2>4. InPlace(s, m)
      BY <2>1, <2>2, <2>3, GaplessEnumeration DEF Covers
    <2> QED
      BY <2>4 DEF InPlace
  <1>7. \A i \in DOMAIN s : i \in 1 .. m + 1
    <2> SUFFICES ASSUME NEW i \in DOMAIN s
                 PROVE  i \in 1 .. m + 1
      OBVIOUS
    <2>1. s[i].index >= i - 1
      BY <1>1 DEF Rising
    <2>2. s[i].index \in Nat /\ s[i].index <= m
      BY <1>1, <1>4 DEF Range
    <2> QED
      BY <1>3, <2>1, <2>2
  <1>8. n = m + 1
    <2>1. m + 1 \in 1 .. n
      BY <1>3, <1>6
    <2>2. n \in 1 .. m + 1
      BY <1>3, <1>7, <2>1
    <2> QED
      BY <2>1, <2>2
  <1>9. Linked(s)
    <2> SUFFICES ASSUME NEW i \in 1 .. Len(s) - 1
                 PROVE  /\ s[i + 1].index = s[i].index + 1
                        /\ s[i + 1].previousHash = s[i].hash
      BY DEF Linked
    <2>1. i \in 1 .. m + 1 /\ i + 1 \in 1 .. m + 1
      BY <1>3, <1>8
    <2>2. s[i].index = i - 1 /\ s[i + 1].index = (i + 1) - 1
      BY <1>6, <2>1
    <2>3. s[i + 1].index = s[i].index + 1
      BY <2>1, <2>2
    <2>4. s[i] \in Kept /\ s[i + 1] \in Kept
      BY <1>1, <1>6, <2>1 DEF Range
    <2> QED
      BY <2>3, <2>4 DEF KeptGapless
  <1> QED
    BY <1>2, <1>3, <1>6, <1>7, <1>8, <1>9 DEF Gapless

LEMMA LoadInv ==
    ASSUME Inv, Loads
    PROVE  Inv'
  <1> PICK s : s = LoadedBlocks
    OBVIOUS
  <1>1. s \in Seq(Blocks) /\ Range(s) = Kept /\ Rising(s) /\ Kept \subseteq disk.blocks
    BY LoadedEnumerates DEF Enumerates, Inv
  <1>2. s # <<>> /\ s[1] = GenesisBlock
    BY LoadedStart DEF Inv, Loads
  <1>3. /\ chain' = s /\ utxo' = disk.utxos /\ pending' = disk.pendingTxs
        /\ difficulty' = LoadedDifficulty /\ phase' = "up" /\ jobs' = <<>>
        /\ UNCHANGED <<mode, disk, made, submitted>> /\ acked' \subseteq made
    BY DEF Loads, LoadMemory
  <1>4. DOMAIN jobs' = {}
    BY <1>3
  <1>5. ShapeInv'
    <2>1. LoadedDifficulty \in Nat \ {0}
      BY DEF LoadedDifficulty, Inv, ShapeInv, Disks
    <2> QED
      BY <1>1, <1>2, <1>3, <2>1 DEF Inv, ShapeInv, OneCall, Disks
  <1>6. FiniteInv'
    BY <1>3 DEF Inv, FiniteInv
  <1>7. OriginInv'
    BY <1>1, <1>3, <1>4 DEF Inv, OriginInv
  <1>8. ChainInv'
    BY <1>1, <1>2, <1>3 DEF ChainInv
  <1>9. GenesisInv'
    BY <1>3, <1>4 DEF Inv, GenesisInv, Loads
  <1>10. GapInv'
    BY <1>3, LoadedGap DEF GapInv
  <1>11. SourceInv'
    <2> SUFFICES ASSUME SingleSource
                 PROVE  /\ Gapless(chain)' /\ KeptGapless' /\ (acked \subseteq Kept)'
                        /\ (Kept \subseteq Range(chain))' /\ FollowerStored'
      BY <1>3, <1>4 DEF SourceInv, SingleSource
    <2>1. KeptGapless' /\ Kept' = Kept /\ KeptGapless
      BY <1>3 DEF Inv, SourceInv, KeptGapless, Kept
    <2>2. Gapless(s) /\ Len(s) = disk.latest + 1
      BY <2>1, LoadedGapless DEF Inv, Loads
    <2>3. disk.latest \in Nat
      BY DEF Inv, ShapeInv, Disks, Loads
    <2>4. disk.latest = Len(s) - 1
      BY <2>2, <2>3
    <2> QED
      BY <1>1, <1>3, <2>1, <2>2, <2>4 DEF Gapless, Linked, FollowerStored, Loads
  <1> QED
    BY <1>5, <1>6, <1>7, <1>8, <1>9, <1>10, <1>11 DEF Inv

LEMMA RestartInv ==
    ASSUME Inv, Restart
    PROVE  Inv'
  <1>1. jobs = <<>> /\ acked \subseteq made /\ (SingleSource => acked \subseteq Kept)
    BY DEF Restart, Inv, ShapeInv, OriginInv, SourceInv
  <1>2. Loads
    BY <1>1 DEF Restart, StoredChainUsable, Loads
  <1> QED
    BY <1>2, LoadInv

LEMMA FirstStartInv ==
    ASSUME Inv, FirstStart
    PROVE  Inv'
  <1> PICK job : job = Job("genesis", {GenesisBlock}, GenesisWrites)
    OBVIOUS
  <1>1. /\ phase = "down" /\ phase' = "starting" /\ chain' = <<GenesisBlock>>
        /\ utxo' = GenesisOutputs /\ pending' = {} /\ difficulty' = InitialDifficulty
        /\ jobs' = <<job>> /\ UNCHANGED <<mode, disk, made, acked, submitted>>
    BY DEF FirstStart
  <1>2. disk.latest = Absent
    <2>1. LoadedBlocks # <<>> => Head(LoadedBlocks) = LoadedBlocks[1]
      <3>1. LoadedBlocks \in Seq(Blocks)
        BY LoadedEnumerates DEF Inv
      <3> QED
        BY <3>1
    <2>2. disk.latest # Absent => StoredChainUsable
      BY <2>1, LoadedStart DEF Inv, StoredChainUsable
    <2> QED
      BY <2>2 DEF FirstStart
  <1>3. job.kind = "genesis" /\ job.reports = {GenesisBlock} /\ job.writes = GenesisWrites
    BY DEF Job
  <1>4. \A i \in DOMAIN job.writes :
            /\ job.writes[i].op = "blocks" => job.writes[i].arg = {GenesisBlock}
            /\ job.writes[i].op = "latest" => job.writes[i].arg = 0
            /\ job.writes[i].op = "pending" => job.writes[i].arg = {}
    <2>1. \A i \in DOMAIN GenesisWrites : GenesisWrites[i] \in GenesisOnly
      BY GenesisWritten
    <2> QED
      BY <1>3, <2>1 DEF GenesisOnly
  <1>5. job.writes \in Seq(Writes) /\ job.writes # <<>>
        /\ job.writes[1] = PutBlocks({GenesisBlock})
        /\ 2 \in DOMAIN job.writes /\ job.writes[2].op = "latest"
    <2>1. GenesisWrites \in Seq(Writes)
      BY GenesisWritten DEF GenesisOnly
    <2>2. Len(GenesisWrites) \in Nat /\ Len(GenesisWrites) >= 2
          /\ DOMAIN GenesisWrites = 1 .. Len(GenesisWrites)
      BY <2>1, GenesisWritten
    <2>3. GenesisWrites # <<>> /\ 2 \in DOMAIN GenesisWrites
      BY <2>2
    <2> QED
      BY <1>3, <2>1, <2>3, GenesisWritten DEF PutLatest
  <1>6. job \in Jobs
    BY <1>3, <1>5, GenesisIsBlock DEF Job, Jobs
  <1>7. DOMAIN jobs' = {1} /\ jobs'[1] = job
    BY <1>1
  <1>8. Len(<<GenesisBlock>>) = 1 /\ DOMAIN <<GenesisBlock>> = {1}
        /\ <<GenesisBlock>>[1] = GenesisBlock /\ Range(<<GenesisBlock>>) = {GenesisBlock}
        /\ <<GenesisBlock>> \in Seq(Blocks)
    BY GenesisIsBlock DEF Range
  <1>9. ShapeInv'
    <2>1. GenesisOutputs \subseteq OutpointIds /\ InitialDifficulty \in Nat \ {0}
      BY StoreAssumption DEF OutpointIds
    <2> QED
      BY <1>1, <1>6, <1>8, <2>1 DEF Inv, ShapeInv, OneCall
  <1>10. FiniteInv'
    BY <1>1, FS_EmptySet DEF Inv, FiniteInv
  <1>11. OriginInv'
    <2>1. Range(chain)' = {GenesisBlock}
      BY <1>1, <1>8
    <2>2. job.reports \subseteq Range(chain)'
      BY <1>3, <2>1
    <2>3. \A i \in DOMAIN job.writes :
              /\ job.writes[i].op = "blocks" => job.writes[i].arg \subseteq Range(chain)'
              /\ job.writes[i].op = "pending" => IsFiniteSet(job.writes[i].arg)
      BY <1>4, <2>1, FS_EmptySet
    <2>4. /\ (Range(chain) \subseteq made)' /\ (disk.blocks \subseteq made)'
          /\ (acked \subseteq made)' /\ OnePerIndex(disk.blocks)'
          /\ (GenesisBlock \in made)'
          /\ (\A c \in made : c.index = 0 => c = GenesisBlock)'
      BY <1>1, <2>1 DEF Inv, OriginInv
    <2> QED
      BY <1>7, <2>2, <2>3, <2>4 DEF OriginInv
  <1>12. ChainInv'
    <2>1. GenesisBlock.index = 0
      BY DEF GenesisBlock
    <2> QED
      BY <1>1, <1>8, <2>1 DEF ChainInv, Rising
  <1>13. GenesisInv'
    BY <1>1, <1>2, <1>3, <1>4, <1>5, <1>6, <1>7 DEF Inv, GenesisInv
  <1>14. GapInv'
    BY <1>1 DEF GapInv
  <1>15. SourceInv'
    <2>1. Gapless(chain)'
      <3>1. GenesisBlock.index = 0
        BY DEF GenesisBlock
      <3> QED
        BY <1>1, <1>8, <3>1 DEF Gapless, Linked
    <2> QED
      BY <1>1, <2>1 DEF Inv, SourceInv, SingleSource, KeptGapless, Kept
  <1> QED
    BY <1>9, <1>10, <1>11, <1>12, <1>13, <1>14, <1>15 DEF Inv

-----------------------------------------------------------------------------
(* The call in flight ends.                                                *)

LEMMA LastRemoved ==
    ASSUME ShapeInv, NEW j \in DOMAIN jobs
    PROVE  RemoveAt(jobs, j) = <<>>
  <1>1. j = 1 /\ jobs = <<jobs[1]>> /\ Len(jobs) = 1
    BY InFlight
  <1>2. SubSeq(jobs, 1, 0) = <<>> /\ SubSeq(jobs, 2, 1) = <<>>
    BY <1>1
  <1> QED
    BY <1>1, <1>2 DEF RemoveAt

(* It ends while the node runs, and memory stays.                          *)
LEMMA Ended ==
    ASSUME Inv, phase = "up", jobs' = <<>>,
           UNCHANGED <<mode, phase, memory, disk, made, submitted>>,
           acked' \subseteq made,
           SingleSource => acked' \subseteq Kept /\ (~mode.mines => disk.latest = Len(chain) - 1)
    PROVE  Inv'
  <1>1. DOMAIN jobs' = {}
    OBVIOUS
  <1>2. ShapeInv' /\ FiniteInv'
    BY DEF Inv, ShapeInv, FiniteInv, OneCall, memory
  <1>3. OriginInv'
    BY <1>1 DEF Inv, OriginInv, memory
  <1>4. ChainInv'
    BY DEF Inv, ChainInv, memory
  <1>5. GenesisInv'
    BY <1>1 DEF Inv, GenesisInv, memory
  <1>6. GapInv'
    <2> SUFFICES ASSUME ~Linked(chain)
                 PROVE  \E p \in Nat : GapAfter(p)'
      BY DEF GapInv, Linked, memory
    <2>1. PICK p \in Nat : GapAfter(p)
      BY DEF Inv, GapInv
    <2>2. GapAfter(p)'
      BY <1>1, <2>1 DEF GapAfter, memory
    <2> QED
      BY <2>2
  <1>7. SourceInv'
    <2> SUFFICES ASSUME SingleSource
                 PROVE  /\ Gapless(chain)' /\ KeptGapless' /\ (acked \subseteq Kept)'
                        /\ (Kept \subseteq Range(chain))' /\ FollowerStored'
      BY <1>1 DEF SourceInv, SingleSource
    <2>1. KeptGapless' /\ Kept' = Kept
      BY DEF Inv, SourceInv, KeptGapless, Kept
    <2>2. Gapless(chain)'
      BY DEF Inv, SourceInv, Gapless, Linked, memory
    <2>3. (acked \subseteq Kept)' /\ (Kept \subseteq Range(chain))'
      BY <2>1 DEF Inv, SourceInv, memory
    <2>4. FollowerStored'
      BY DEF FollowerStored, memory
    <2> QED
      BY <2>1, <2>2, <2>3, <2>4
  <1> QED
    BY <1>2, <1>3, <1>4, <1>5, <1>6, <1>7 DEF Inv

(* What the call reports is stored when it returns.                        *)
LEMMA ReportsKept ==
    ASSUME Inv, NEW j \in DOMAIN jobs, jobs[j].writes = <<>>
    PROVE  /\ acked \cup jobs[j].reports \subseteq made
           /\ SingleSource /\ phase = "up" =>
                  /\ acked \cup jobs[j].reports \subseteq Kept
                  /\ ~mode.mines => disk.latest = Len(chain) - 1
  <1>1. j = 1 /\ DOMAIN jobs = {1}
    BY InFlight DEF Inv
  <1>2. jobs[j].reports \subseteq Range(chain)
    BY DEF Inv, OriginInv
  <1>3. acked \cup jobs[j].reports \subseteq made
    BY <1>2 DEF Inv, OriginInv
  <1>4. ASSUME SingleSource, phase = "up"
        PROVE  /\ acked \cup jobs[j].reports \subseteq Kept
               /\ ~mode.mines => disk.latest = Len(chain) - 1
    <2>1. jobs[j].reports \subseteq Kept
      <3>1. JobInv(jobs[j])
        BY <1>4 DEF Inv, SourceInv
      <3> QED
        BY <3>1 DEF JobInv
    <2>2. acked \subseteq Kept
      BY <1>4 DEF Inv, SourceInv
    <2>3. ~mode.mines => disk.latest = Len(chain) - 1
      BY <1>1, <1>4 DEF Inv, SourceInv, FollowerStored
    <2> QED
      BY <2>1, <2>2, <2>3
  <1> QED
    BY <1>3, <1>4

(* Initialization ends: the genesis block is all there is.                 *)
LEMMA StartedInv ==
    ASSUME Inv, NEW j \in DOMAIN jobs, Return(j), jobs[j].kind = "genesis"
    PROVE  Inv'
  <1>1. /\ jobs[j].writes = <<>> /\ jobs' = <<>> /\ phase' = "up"
        /\ acked' = acked \cup jobs[j].reports
        /\ UNCHANGED <<mode, memory, disk, made, submitted>>
    BY LastRemoved DEF Return, Inv
  <1>2. DOMAIN jobs' = {}
    BY <1>1
  <1>3. phase = "starting" /\ j = 1 /\ jobs = <<jobs[1]>>
    BY InFlight DEF Inv, GenesisInv
  <1>4. chain = <<GenesisBlock>> /\ disk.latest = 0 /\ GenesisBlock \in disk.blocks
    BY <1>1, <1>3 DEF Inv, GenesisInv
  <1>5. Len(chain) = 1 /\ Range(chain) = {GenesisBlock}
    BY <1>4 DEF Range
  <1>6. ShapeInv' /\ FiniteInv'
    BY <1>1, <1>3 DEF Inv, ShapeInv, FiniteInv, OneCall, memory
  <1>7. OriginInv'
    BY <1>1, <1>2, ReportsKept DEF Inv, OriginInv, memory
  <1>8. ChainInv'
    BY <1>1, <1>3 DEF Inv, ChainInv, memory
  <1>9. GenesisInv'
    BY <1>1, <1>2, <1>4 DEF GenesisInv, Absent
  <1>10. GapInv'
    <2>1. Linked(chain)
      BY <1>5 DEF Linked
    <2> QED
      BY <1>1, <2>1 DEF GapInv, Linked, memory
  <1>11. SourceInv'
    <2> SUFFICES ASSUME SingleSource
                 PROVE  /\ Gapless(chain)' /\ KeptGapless' /\ (acked \subseteq Kept)'
                        /\ (Kept \subseteq Range(chain))' /\ FollowerStored'
      BY <1>1, <1>2 DEF SourceInv, SingleSource
    <2>1. KeptGapless' /\ Kept' = Kept /\ acked \subseteq Kept
      BY <1>1 DEF Inv, SourceInv, KeptGapless, Kept
    <2>2. Gapless(chain)'
      BY <1>1, <1>3 DEF Inv, SourceInv, Gapless, Linked, memory
    <2>3. Kept = {GenesisBlock}
      <3>1. \A b \in disk.blocks : b.index = 0 => b = GenesisBlock
        BY DEF Inv, OriginInv
      <3>2. GenesisBlock.index = 0 /\ \A i : i \in 0 .. 0 <=> i = 0
        BY DEF GenesisBlock
      <3> QED
        BY <1>4, <3>1, <3>2 DEF Kept
    <2>4. jobs[j].reports \subseteq Range(chain)
      BY DEF Inv, OriginInv
    <2>5. FollowerStored'
      BY <1>1, <1>4, <1>5 DEF FollowerStored, memory
    <2> QED
      BY <1>1, <1>5, <2>1, <2>2, <2>3, <2>4, <2>5 DEF memory
  <1> QED
    BY <1>6, <1>7, <1>8, <1>9, <1>10, <1>11 DEF Inv

LEMMA ReturnInv ==
    ASSUME Inv, NEW j \in DOMAIN jobs, Return(j)
    PROVE  Inv'
  <1>1. /\ jobs[j].writes = <<>> /\ jobs' = <<>>
        /\ acked' = acked \cup jobs[j].reports
        /\ UNCHANGED <<mode, disk, made, submitted>>
    BY LastRemoved DEF Return, Inv
  <1>2. CASE jobs[j].kind = "genesis"
    BY <1>2, StartedInv
  <1>3. CASE jobs[j].kind # "genesis"
    <2>1. phase = "up" /\ phase' = "up"
      <3>1. jobs # <<>>
        OBVIOUS
      <3> QED
        BY <1>3, <3>1 DEF Inv, ShapeInv, GenesisInv, Return
    <2>2. /\ acked' \subseteq made
          /\ SingleSource => /\ acked' \subseteq Kept
                             /\ ~mode.mines => disk.latest = Len(chain) - 1
      BY <1>1, <2>1, ReportsKept
    <2>3. CASE jobs[j].kind = "rebuild"
      <3>1. disk.latest # Absent
        BY <2>1 DEF Inv, GenesisInv
      <3>2. LoadMemory
        BY <2>3 DEF Return
      <3>3. Loads
        BY <1>1, <2>1, <2>2, <3>1, <3>2 DEF Loads
      <3> QED
        BY <3>3, LoadInv
    <2>4. CASE jobs[j].kind # "rebuild"
      <3>1. UNCHANGED memory
        BY <2>4 DEF Return
      <3> QED
        BY <1>1, <2>1, <2>2, <3>1, Ended
    <2> QED
      BY <2>3, <2>4
  <1> QED
    BY <1>2, <1>3

LEMMA WriteErrorInv ==
    ASSUME Inv, NEW j \in DOMAIN jobs, WriteError(j)
    PROVE  Inv'
  <1>1. /\ mode.writesFail /\ phase = "up" /\ jobs' = <<>>
        /\ UNCHANGED <<mode, phase, memory, disk, made, acked, submitted>>
    BY LastRemoved DEF WriteError, Inv
  <1>2. ~SingleSource
    BY <1>1 DEF SingleSource
  <1>3. acked' \subseteq made
    BY <1>1 DEF Inv, OriginInv
  <1> QED
    BY <1>1, <1>2, <1>3, Ended

LEMMA CrashInv ==
    ASSUME Inv, Crash
    PROVE  Inv'
  <1>1. /\ phase' = "down" /\ chain' = <<>> /\ utxo' = {} /\ pending' = {}
        /\ difficulty' = 0 /\ jobs' = <<>>
        /\ UNCHANGED <<mode, disk, made, acked, submitted>>
    BY DEF Crash
  <1>2. DOMAIN jobs' = {} /\ Range(chain)' = {}
    BY <1>1 DEF Range
  <1>3. ShapeInv'
    BY <1>1 DEF Inv, ShapeInv, OneCall
  <1>4. FiniteInv'
    BY <1>1, FS_EmptySet DEF Inv, FiniteInv
  <1>5. OriginInv'
    BY <1>1, <1>2 DEF Inv, OriginInv
  <1>6. ChainInv' /\ GapInv'
    BY <1>1 DEF ChainInv, GapInv
  <1>7. GenesisInv'
    BY <1>1, <1>2 DEF Inv, GenesisInv
  <1>8. SourceInv'
    BY <1>1 DEF Inv, SourceInv, SingleSource, KeptGapless, Kept
  <1> QED
    BY <1>3, <1>4, <1>5, <1>6, <1>7, <1>8 DEF Inv

LEMMA StutterInv ==
    ASSUME Inv, UNCHANGED vars
    PROVE  Inv'
  <1>1. UNCHANGED <<mode, phase, chain, utxo, pending, difficulty, jobs, disk, made,
                    acked, submitted>>
    BY DEF vars
  <1>2. ShapeInv' /\ FiniteInv' /\ OriginInv' /\ ChainInv'
    BY <1>1 DEF Inv, ShapeInv, OneCall, FiniteInv, OriginInv, ChainInv
  <1>3. GenesisInv'
    BY <1>1 DEF Inv, GenesisInv
  <1>4. GapInv'
    BY <1>1 DEF Inv, GapInv, GapAfter, Linked
  <1>5. Kept' = Kept /\ KeptGapless' = KeptGapless /\ Gapless(chain)' = Gapless(chain)
    BY <1>1 DEF Kept, KeptGapless, Gapless, Linked
  <1>6. FollowerStored' = FollowerStored
    BY <1>1 DEF FollowerStored
  <1>7. \A job : JobInv(job) => JobInv(job)'
    BY <1>1, <1>5 DEF JobInv, Prepared
  <1>8. SourceInv'
    <2> SUFFICES ASSUME SingleSource
                 PROVE  /\ phase # "down" => Gapless(chain)'
                        /\ KeptGapless' /\ (acked \subseteq Kept)'
                        /\ phase = "up" =>
                              /\ (Kept \subseteq Range(chain))'
                              /\ FollowerStored'
                              /\ (\A j \in DOMAIN jobs : JobInv(jobs[j]))'
      BY <1>1 DEF SourceInv, SingleSource
    <2>1. /\ phase # "down" => Gapless(chain)'
          /\ KeptGapless' /\ (acked \subseteq Kept)'
          /\ phase = "up" => (Kept \subseteq Range(chain))' /\ FollowerStored'
      BY <1>1, <1>5, <1>6 DEF Inv, SourceInv
    <2>2. ASSUME phase = "up"
          PROVE  (\A j \in DOMAIN jobs : JobInv(jobs[j]))'
      <3> SUFFICES ASSUME NEW j \in DOMAIN jobs
                   PROVE  JobInv(jobs[j])'
        BY <1>1
      <3> PICK job : job = jobs[j]
        OBVIOUS
      <3>1. JobInv(job)
        BY <2>2 DEF Inv, SourceInv
      <3>2. JobInv(job)' /\ jobs'[j] = job
        BY <1>1, <1>7, <3>1
      <3> QED
        BY <3>2
    <2> QED
      BY <2>1, <2>2
  <1> QED
    BY <1>2, <1>3, <1>4, <1>8 DEF Inv

LEMMA InitInv ==
    ASSUME Init
    PROVE  Inv
  <1>1. /\ phase = "down" /\ chain = <<>> /\ utxo = {} /\ pending = {} /\ difficulty = 0
        /\ jobs = <<>> /\ disk = EmptyDisk /\ made = {GenesisBlock} /\ acked = {}
        /\ submitted = 0
    BY DEF Init
  <1>2. DOMAIN jobs = {} /\ Range(chain) = {}
    BY <1>1 DEF Range
  <1>3. ShapeInv
    BY <1>1, GenesisIsBlock DEF ShapeInv, OneCall, EmptyDisk, Disks, Absent
  <1>4. FiniteInv
    BY <1>1, FS_EmptySet, FS_Singleton, GenesisIsBlock DEF FiniteInv, EmptyDisk
  <1>5. OriginInv
    BY <1>1, <1>2 DEF OriginInv, EmptyDisk, OnePerIndex
  <1>6. ChainInv /\ GapInv
    BY <1>1 DEF ChainInv, GapInv
  <1>7. GenesisInv
    BY <1>1, <1>2 DEF GenesisInv, EmptyDisk
  <1>8. SourceInv
    <2>1. \A i : i \notin 0 .. Absent
      BY DEF Absent
    <2> QED
      BY <1>1, <2>1 DEF SourceInv, KeptGapless, Kept, EmptyDisk
  <1> QED
    BY <1>3, <1>4, <1>5, <1>6, <1>7, <1>8 DEF Inv

LEMMA NextInv ==
    ASSUME Inv, MaxInFlight <= 1, [Next]_vars
    PROVE  Inv'
  <1>1. CASE Restart
    BY <1>1, RestartInv
  <1>2. CASE FirstStart
    BY <1>2, FirstStartInv
  <1>3. ASSUME NEW o \in utxo, AddTransaction(o)
        PROVE  Inv'
    BY <1>3, AddTransactionInv
  <1>4. CASE MineBlock
    BY <1>4, MineBlockInv
  <1>5. ASSUME NEW txs \in SUBSET pending, AddBlock(txs)
        PROVE  Inv'
    BY <1>5, AddBlockInv
  <1>6. CASE Save
    BY <1>6, SaveInv
  <1>7. CASE RebuildUTXOSet
    BY <1>7, RebuildInv
  <1>8. ASSUME NEW j \in DOMAIN jobs, DatabaseWrite(j) \/ Return(j) \/ WriteError(j)
        PROVE  Inv'
    BY <1>8, DatabaseWriteInv, ReturnInv, WriteErrorInv
  <1>9. CASE Crash
    BY <1>9, CrashInv
  <1>10. CASE UNCHANGED vars
    BY <1>10, StutterInv
  <1> QED
    BY <1>1, <1>2, <1>3, <1>4, <1>5, <1>6, <1>7, <1>8, <1>9, <1>10 DEF Next

-----------------------------------------------------------------------------
(* What the invariant says.                                                *)

LEMMA TypesFollow ==
    ASSUME Inv
    PROVE  TypeOK
  <1>1. phase \in {"down", "starting", "up"} /\ chain \in Seq(Blocks)
        /\ (phase = "down" <=> chain = <<>>)
        /\ utxo \subseteq OutpointIds /\ pending \subseteq Txs /\ difficulty \in Nat
        /\ made \subseteq Blocks
    BY DEF Inv, ShapeInv
  <1>2. /\ Range(chain) \subseteq made /\ disk.blocks \subseteq made /\ acked \subseteq made
        /\ \A j \in DOMAIN jobs : jobs[j].reports \subseteq made
    BY DEF Inv, OriginInv
  <1>3. /\ disk.utxos \cup disk.bareUtxos \subseteq OutpointIds
        /\ disk.pendingTxs \cup disk.txs \subseteq Txs
        /\ {disk.latest, disk.difficulty} \subseteq Nat \cup {Absent}
    BY DEF Inv, ShapeInv, Disks
  <1> QED
    BY <1>1, <1>2, <1>3 DEF TypeOK

(* A gap is seen by validateIntegrity: at the place of the missing block,  *)
(* or where the next one does not link.                                    *)
LEMMA GapIsSeen ==
    ASSUME Inv, phase = "up", ~Linked(chain)
    PROVE  ~ValidateIntegrity
  <1>1. PICK p \in Nat : GapAfter(p)
    BY DEF Inv, GapInv
  <1>2. PICK m \in Nat : m = disk.latest
    BY DEF Inv, ShapeInv, Disks, GenesisInv
  <1>3. m # Absent /\ p <= m
    BY <1>1, <1>2 DEF Absent, GapAfter
  <1> SUFFICES ASSUME ValidateIntegrity
               PROVE  FALSE
    OBVIOUS
  <1>4. \A i \in 0 .. m : \E b \in disk.blocks : b.index = i
    BY <1>2, <1>3 DEF ValidateIntegrity
  <1> PICK s : s = LoadedBlocks
    OBVIOUS
  <1>5. \A i \in 1 .. Len(s) - 1 : s[i + 1].previousHash = s[i].hash
    BY <1>2, <1>3 DEF ValidateIntegrity
  <1> PICK K : K = Kept
    OBVIOUS
  <1>6. Enumerates(s, K) /\ s \in Seq(Blocks) /\ K \subseteq disk.blocks
    BY LoadedEnumerates DEF Inv
  <1>7. \A b \in K : b.index \in Nat
    <2>1. K \subseteq Blocks
      BY DEF Kept, Inv, ShapeInv, Disks
    <2> QED
      BY <2>1 DEF Blocks
  <1>8. \A i \in 0 .. m : \E b \in K : b.index = i
    BY <1>2, <1>4 DEF Kept
  <1>9. \A i \in 1 .. m + 1 : i \in DOMAIN s /\ s[i].index = i - 1
    <2>1. Covers(K, m)
      BY <1>7, <1>8 DEF Covers
    <2>2. InPlace(s, m)
      BY <1>6, <2>1, GaplessEnumeration
    <2> QED
      BY <2>2 DEF InPlace
  <1>10. PICK n \in Nat : n = Len(chain) /\ DOMAIN chain = 1 .. n
    BY ChainOfBlocks DEF Inv
  <1>11. p \in 1 .. n - 1
    BY <1>1, <1>10 DEF GapAfter
  <1>12. p \in 1 .. m /\ p + 1 \in 1 .. m + 1 /\ p \in 1 .. m + 1 /\ p \in 0 .. m
         /\ p + 1 \in 1 .. p + 1 /\ p \in 1 .. p + 1 /\ p \in 1 .. p
    BY <1>3, <1>11
  <1>13. chain[p + 1].index = p
    <2>1. PICK b \in disk.blocks : b.index = p
      BY <1>4, <1>12
    <2>2. ~(chain[p + 1].index > p)
      BY <1>1, <2>1 DEF GapAfter
    <2>3. p + 1 \in DOMAIN chain
      BY <1>10, <1>11
    <2>4. chain[p + 1].index >= (p + 1) - 1
      BY <1>1, <2>3 DEF Inv, ChainInv, Rising
    <2>5. chain[p + 1].index \in Nat
      BY <2>3, ChainOfBlocks DEF Inv
    <2> QED
      BY <2>2, <2>4, <2>5
  <1>14. chain[p + 1].previousHash # chain[p].hash
    BY <1>1, <1>13 DEF GapAfter
  <1>15. chain[p].index = p - 1 /\ chain[p] \in disk.blocks /\ chain[p + 1] \in disk.blocks
    BY <1>1, <1>12 DEF GapAfter
  <1>16. s[p] = chain[p] /\ s[p + 1] = chain[p + 1]
    <2>1. s[p] \in disk.blocks /\ s[p + 1] \in disk.blocks
      BY <1>6, <1>9, <1>12 DEF Enumerates, Range
    <2>2. s[p].index = p - 1 /\ s[p + 1].index = (p + 1) - 1
      BY <1>9, <1>12
    <2>3. OnePerIndex(disk.blocks)
      BY DEF Inv, OriginInv
    <2> QED
      BY <1>13, <1>15, <2>1, <2>2, <2>3 DEF OnePerIndex
  <1>17. p \in 1 .. Len(s) - 1
    <2>1. p + 1 \in DOMAIN s
      BY <1>9, <1>12
    <2> QED
      BY <1>6, <1>12, <2>1
  <1> QED
    BY <1>5, <1>14, <1>16, <1>17

LEMMA SoundFollows ==
    ASSUME Inv
    PROVE  StoreSound
  <1>1. SingleSourceComplete
    <2> SUFFICES ASSUME SingleSource, phase = "up"
                 PROVE  Head(chain) = GenesisBlock /\ Linked(chain)
      BY DEF SingleSourceComplete, ChainComplete
    <2>1. chain \in Seq(Blocks) /\ chain # <<>> /\ chain[1] = GenesisBlock
      BY DEF Inv, ShapeInv, ChainInv
    <2>2. Head(chain) = chain[1]
      BY <2>1
    <2>3. Linked(chain)
      BY DEF Inv, SourceInv, Gapless
    <2> QED
      BY <2>1, <2>2, <2>3
  <1>2. LatestBlockStored
    <2> SUFFICES ASSUME SingleSource, disk.latest # Absent
                 PROVE  \E b \in disk.blocks : b.index = disk.latest
      BY DEF LatestBlockStored
    <2>1. disk.latest \in Nat
      BY DEF Inv, ShapeInv, Disks
    <2>2. disk.latest \in 0 .. disk.latest
      BY <2>1
    <2> QED
      BY <2>2 DEF Inv, SourceInv, KeptGapless
  <1>3. GapDetected
    BY GapIsSeen DEF GapDetected
  <1> QED
    BY <1>1, <1>2, <1>3, TypesFollow DEF StoreSound

LEMMA AckedFollows ==
    ASSUME Inv
    PROVE  AckedBlocksSurvive
  <1> SUFFICES ASSUME SingleSource, phase = "up"
               PROVE  acked \subseteq Range(chain)
    BY DEF AckedBlocksSurvive
  <1> QED
    BY DEF Inv, SourceInv

(* The database can be built on: as long as each call is awaited before    *)
(* the next one is made, a chain of one source has no gap after any        *)
(* sequence of crashes and restarts, latest_block points at a stored       *)
(* block, and a gap in a chain of two sources fails validateIntegrity      *)
(* (blockchain.ts:454 addBlock, persistence.ts:282 loadBlockchainState).   *)
THEOREM StoreIsSound == MaxInFlight <= 1 => (Spec => []StoreSound)
  <1> SUFFICES ASSUME MaxInFlight <= 1
               PROVE  Spec => []StoreSound
    OBVIOUS
  <1>1. Init => Inv
    BY InitInv
  <1>2. Inv /\ [Next]_vars => Inv'
    BY NextInv
  <1>3. Inv => StoreSound
    BY SoundFollows
  <1> QED
    BY <1>1, <1>2, <1>3, PTL DEF Spec

(* What addBlock or save reported as stored is in the chain of every later *)
(* run of the node, under the same condition.                              *)
THEOREM AckedBlocksAreKept == MaxInFlight <= 1 => (Spec => []AckedBlocksSurvive)
  <1> SUFFICES ASSUME MaxInFlight <= 1
               PROVE  Spec => []AckedBlocksSurvive
    OBVIOUS
  <1>1. Init => Inv
    BY InitInv
  <1>2. Inv /\ [Next]_vars => Inv'
    BY NextInv
  <1>3. Inv => AckedBlocksSurvive
    BY AckedFollows
  <1> QED
    BY <1>1, <1>2, <1>3, PTL DEF Spec

=============================================================================
