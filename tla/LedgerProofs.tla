---------------------------- MODULE LedgerProofs ----------------------------
(***************************************************************************)
(* Theorems about Ledger, for every set of nodes, addresses, amounts,      *)
(* bounds and difficulty parameters.                                       *)
(***************************************************************************)
EXTENDS Ledger, LedgerFacts

-----------------------------------------------------------------------------
(* The chains.                                                             *)

(* Hashes number the mined blocks.                                         *)
HashesIdentify ==
    /\ IsFiniteSet(mined)
    /\ \A b \in mined : b.hash \in 1 .. Cardinality(mined)
    /\ \A b, c \in mined : b.hash = c.hash => b = c

(* A chain is the genesis block followed by mined blocks, each the         *)
(* successor of the one before it.                                         *)
ChainsLinked ==
    /\ chain \in [Nodes -> Seq(mined \cup {GenesisBlock})]
    /\ \A n \in Nodes :
          /\ Len(chain[n]) >= 1
          /\ chain[n][1] = GenesisBlock
          /\ \A i \in 2 .. Len(chain[n]) :
                /\ chain[n][i] \in mined
                /\ chain[n][i].index = i - 1
                /\ chain[n][i].previousHash = chain[n][i - 1].hash

(* The working difficulty of every node, as a function.                    *)
DifficultyOfTip == difficulty = [n \in Nodes |-> LatestBlock(n).difficulty]

ChainInv == HashesIdentify /\ ChainsLinked /\ DifficultyOfTip

(* What the two appending actions have in common.                          *)
Appends(n, block) ==
    /\ chain' = [chain EXCEPT ![n] = Append(@, block)]
    /\ difficulty' = [difficulty EXCEPT ![n] = block.difficulty]
    /\ block \in mined'
    /\ block.index = LatestBlock(n).index + 1
    /\ block.previousHash = LatestBlock(n).hash

(* A step appends one block to the chain of one node, or leaves the chains *)
(* alone.                                                                  *)
AppendsOrNot ==
    \/ \E n \in Nodes, block \in mined' : Appends(n, block)
    \/ UNCHANGED <<chain, difficulty>>

LEMMA LatestOfChain ==
    ASSUME ChainsLinked, NEW n \in Nodes
    PROVE  /\ LatestBlock(n) = chain[n][Len(chain[n])]
           /\ LatestBlock(n).index = Len(chain[n]) - 1
           /\ chain[n] \in Seq(mined \cup {GenesisBlock})
           /\ Len(chain[n]) \in Nat \ {0}
           /\ LatestBlock(n) \in mined \cup {GenesisBlock}
  BY DEF ChainsLinked, LatestBlock, Last, GenesisBlock

(* The block a node mines.                                                 *)
LEMMA MinedBlockFields ==
    ASSUME NEW n, NEW gap, NEW transactions
    PROVE  LET b == MinedBlock(n, gap, transactions)
           IN  /\ b.hash = Cardinality(mined) + 1
               /\ b.index = LatestBlock(n).index + 1
               /\ b.previousHash = LatestBlock(n).hash
               /\ b.time = LatestBlock(n).time + gap
               /\ b.miner = n
               /\ b.transactions = {LegacyTransaction(tx) : tx \in transactions}
               /\ b.difficulty = IF ShouldAdjustDifficulty(b.index)
                                 THEN NextDifficulty(n) ELSE difficulty[n]
  BY DEF MinedBlock

(* Mining is one of the two appending actions.                             *)
LEMMA MineAppends ==
    ASSUME NEW n \in Nodes, NEW miner, NEW gap,
           MinePendingUTXOTransactions(n, miner, gap)
    PROVE  LET block == MinedBlock(n, gap,
                          pending[n] \cup
                            {RewardTransaction(Cardinality(mined) + 1, miner)})
           IN  /\ Appends(n, block)
               /\ block.hash = Cardinality(mined) + 1
               /\ mined' = mined \cup {block}
  <1> DEFINE ts == pending[n] \cup
                     {RewardTransaction(Cardinality(mined) + 1, miner)}
             block == MinedBlock(n, gap, ts)
  <1>1. /\ block.hash = Cardinality(mined) + 1
        /\ block.index = LatestBlock(n).index + 1
        /\ block.previousHash = LatestBlock(n).hash
    BY MinedBlockFields
  <1>2. /\ chain' = [chain EXCEPT ![n] = Append(@, block)]
        /\ difficulty' = [difficulty EXCEPT ![n] = block.difficulty]
        /\ mined' = mined \cup {block}
    BY DEF MinePendingUTXOTransactions, BlockTransactions
  <1> QED
    BY <1>1, <1>2 DEF Appends

(* Accepting a received block is the other one: whichever of its two       *)
(* difficulty rules let the block in, the node ends up with the block's    *)
(* difficulty.                                                             *)
LEMMA AddAppends ==
    ASSUME NEW n \in Nodes, NEW block \in mined, AddBlock(n, block),
           DifficultyOfTip
    PROVE  Appends(n, block) /\ mined' = mined
  <1>1. /\ block.index = LatestBlock(n).index + 1
        /\ block.previousHash = LatestBlock(n).hash
        /\ block.difficulty = difficulty[n] \/ ShouldAdjustDifficulty(block.index)
    BY DEF AddBlock, AcceptsBlock, ValidateBlock, DifficultyAcceptable
  <1>2. difficulty' = [difficulty EXCEPT ![n] =
             IF ShouldAdjustDifficulty(block.index)
             THEN block.difficulty ELSE @]
    BY DEF AddBlock, AdjustedDifficulty
  <1>3. difficulty' = [difficulty EXCEPT ![n] = block.difficulty]
    BY <1>1, <1>2 DEF DifficultyOfTip
  <1>4. chain' = [chain EXCEPT ![n] = Append(@, block)] /\ mined' = mined
    BY DEF AddBlock
  <1> QED
    BY <1>1, <1>3, <1>4 DEF Appends

LEMMA HashesStep ==
    ASSUME HashesIdentify, NEW block, mined' = mined \cup {block},
           block.hash = Cardinality(mined) + 1
    PROVE  HashesIdentify'
  <1>1. Cardinality(mined) \in Nat
    BY FS_CardinalityType DEF HashesIdentify
  <1>2. block \notin mined
    BY <1>1 DEF HashesIdentify
  <1>3. IsFiniteSet(mined') /\ Cardinality(mined') = Cardinality(mined) + 1
    BY <1>2, FS_AddElement DEF HashesIdentify
  <1> QED
    BY <1>1, <1>2, <1>3 DEF HashesIdentify

(* Appending to a chain, element by element.                               *)
LEMMA AppendedChain ==
    ASSUME ChainsLinked, NEW n \in Nodes, NEW block, Appends(n, block)
    PROVE  /\ Len(chain'[n]) = Len(chain[n]) + 1
           /\ chain'[n][Len(chain[n]) + 1] = block
           /\ \A i \in 1 .. Len(chain[n]) : chain'[n][i] = chain[n][i]
           /\ \A m \in Nodes \ {n} : chain'[m] = chain[m]
           /\ LatestBlock(n)' = block
           /\ \A m \in Nodes \ {n} : LatestBlock(m)' = LatestBlock(m)
  <1>1. chain[n] \in Seq(mined \cup {GenesisBlock})
    BY LatestOfChain
  <1>2. chain'[n] = Append(chain[n], block)
    BY DEF Appends, ChainsLinked
  <1>3. \A m \in Nodes \ {n} : chain'[m] = chain[m]
    BY DEF Appends, ChainsLinked
  <1>4. /\ Len(chain'[n]) = Len(chain[n]) + 1
        /\ chain'[n][Len(chain[n]) + 1] = block
        /\ \A i \in 1 .. Len(chain[n]) : chain'[n][i] = chain[n][i]
    BY <1>1, <1>2
  <1> QED
    BY <1>1, <1>2, <1>3, <1>4 DEF LatestBlock, Last

LEMMA ChainsStep ==
    ASSUME ChainsLinked, DifficultyOfTip, mined \subseteq mined', AppendsOrNot
    PROVE  ChainsLinked' /\ DifficultyOfTip'
  <1>1. CASE UNCHANGED <<chain, difficulty>>
    <2>1. ASSUME NEW n \in Nodes
          PROVE  chain[n] \in Seq(mined' \cup {GenesisBlock})
      BY LatestOfChain
    <2> QED
      BY <1>1, <2>1 DEF ChainsLinked, DifficultyOfTip, LatestBlock
  <1>2. ASSUME NEW n \in Nodes, NEW block \in mined', Appends(n, block)
        PROVE  ChainsLinked' /\ DifficultyOfTip'
    <2>1. /\ chain[n] \in Seq(mined \cup {GenesisBlock})
          /\ Len(chain[n]) \in Nat \ {0}
          /\ block.index = Len(chain[n])
          /\ block.previousHash = chain[n][Len(chain[n])].hash
      BY <1>2, LatestOfChain DEF Appends
    <2>2. /\ Len(chain'[n]) = Len(chain[n]) + 1
          /\ chain'[n][Len(chain[n]) + 1] = block
          /\ \A i \in 1 .. Len(chain[n]) : chain'[n][i] = chain[n][i]
          /\ \A m \in Nodes \ {n} : chain'[m] = chain[m]
      BY <1>2, AppendedChain
    <2>3. chain' \in [Nodes -> Seq(mined' \cup {GenesisBlock})]
      <3>1. \A m \in Nodes : chain[m] \in Seq(mined' \cup {GenesisBlock})
        BY LatestOfChain
      <3>2. Append(chain[n], block) \in Seq(mined' \cup {GenesisBlock})
        BY <3>1
      <3> QED
        BY <1>2, <3>1, <3>2 DEF Appends, ChainsLinked
    <2>4. ASSUME NEW m \in Nodes
          PROVE  /\ Len(chain'[m]) >= 1
                 /\ chain'[m][1] = GenesisBlock
                 /\ \A i \in 2 .. Len(chain'[m]) :
                       /\ chain'[m][i] \in mined'
                       /\ chain'[m][i].index = i - 1
                       /\ chain'[m][i].previousHash = chain'[m][i - 1].hash
      <3>1. CASE m # n
        BY <2>2, <3>1 DEF ChainsLinked
      <3>2. CASE m = n
        <4>1. Len(chain'[n]) >= 1 /\ chain'[n][1] = GenesisBlock
          BY <2>1, <2>2 DEF ChainsLinked
        <4>2. ASSUME NEW i \in 2 .. Len(chain[n])
              PROVE  /\ chain'[n][i] \in mined'
                     /\ chain'[n][i].index = i - 1
                     /\ chain'[n][i].previousHash = chain'[n][i - 1].hash
          BY SMTT(30), <2>1, <2>2 DEF ChainsLinked
        <4>3. ASSUME NEW i, i = Len(chain[n]) + 1
              PROVE  /\ chain'[n][i] \in mined'
                     /\ chain'[n][i].index = i - 1
                     /\ chain'[n][i].previousHash = chain'[n][i - 1].hash
          <5>1. i - 1 = Len(chain[n]) /\ i - 1 \in 1 .. Len(chain[n])
            BY <2>1, <4>3
          <5>2. chain'[n][i] = block /\ chain'[n][i - 1] = chain[n][Len(chain[n])]
            BY <2>2, <4>3, <5>1
          <5> QED
            BY <2>1, <5>1, <5>2
        <4>4. \A i \in 2 .. Len(chain'[n]) :
                  i \in 2 .. Len(chain[n]) \/ i = Len(chain[n]) + 1
          BY <2>1, <2>2
        <4> QED
          BY <3>2, <4>1, <4>2, <4>3, <4>4
      <3> QED
        BY <3>1, <3>2
    <2>5. DifficultyOfTip'
      <3>1. /\ LatestBlock(n)' = block
            /\ \A m \in Nodes \ {n} : LatestBlock(m)' = LatestBlock(m)
        BY <1>2, AppendedChain
      <3> QED
        BY <1>2, <3>1 DEF DifficultyOfTip, Appends
    <2> QED
      BY <2>3, <2>4, <2>5 DEF ChainsLinked
  <1> QED
    BY <1>1, <1>2 DEF AppendsOrNot

(* What every step does to the blocks.                                     *)
LEMMA StepAppends ==
    ASSUME ChainInv, [Next]_vars
    PROVE  HashesIdentify' /\ mined \subseteq mined' /\ AppendsOrNot
  <1>1. CASE UNCHANGED <<chain, difficulty, mined>>
    BY <1>1 DEF ChainInv, HashesIdentify, AppendsOrNot
  <1>2. ASSUME NEW n \in Nodes, NEW miner, NEW gap,
               MinePendingUTXOTransactions(n, miner, gap)
        PROVE  HashesIdentify' /\ mined \subseteq mined' /\ AppendsOrNot
    <2> DEFINE block == MinedBlock(n, gap,
                          pending[n] \cup
                            {RewardTransaction(Cardinality(mined) + 1, miner)})
    <2>1. /\ Appends(n, block)
          /\ block.hash = Cardinality(mined) + 1
          /\ mined' = mined \cup {block}
      BY <1>2, MineAppends
    <2> HIDE DEF block
    <2> QED
      BY <2>1, HashesStep DEF ChainInv, AppendsOrNot
  <1>3. ASSUME NEW n \in Nodes, NEW block \in mined, AddBlock(n, block)
        PROVE  HashesIdentify' /\ mined \subseteq mined' /\ AppendsOrNot
    BY <1>3, AddAppends DEF ChainInv, HashesIdentify, AppendsOrNot
  <1>4. ASSUME NEW n, NEW from, NEW to, NEW amount,
               CreateUTXOTransaction(n, from, to, amount)
        PROVE  UNCHANGED <<chain, difficulty, mined>>
    BY <1>4 DEF CreateUTXOTransaction
  <1>5. ASSUME NEW n, NEW tx, AddUTXOTransaction(n, tx)
        PROVE  UNCHANGED <<chain, difficulty, mined>>
    BY <1>5 DEF AddUTXOTransaction
  <1> QED
    BY <1>1, <1>2, <1>3, <1>4, <1>5 DEF Next, vars

LEMMA ChainInvInit ==
    ASSUME Init
    PROVE  ChainInv
  <1>1. HashesIdentify
    BY FS_EmptySet DEF Init, HashesIdentify
  <1>2. ChainsLinked /\ DifficultyOfTip
    BY DEF Init, ChainsLinked, DifficultyOfTip, LatestBlock, Last, GenesisBlock
  <1> QED
    BY <1>1, <1>2 DEF ChainInv

LEMMA ChainInvStep ==
    ASSUME ChainInv, [Next]_vars
    PROVE  ChainInv'
  BY StepAppends, ChainsStep DEF ChainInv

THEOREM ChainInvInvariant == Spec => []ChainInv
  BY ChainInvInit, ChainInvStep, PTL DEF Spec

(* A node's working difficulty is the one of its latest block, whether it  *)
(* mined that block or received it (blockchain.ts:317-323, 430-436).       *)
THEOREM DifficultyFollowsChainTheorem == Spec => []DifficultyFollowsChain
  <1>1. ChainInv => DifficultyFollowsChain
    BY DEF ChainInv, DifficultyOfTip, DifficultyFollowsChain
  <1> QED
    BY <1>1, ChainInvInvariant, PTL

-----------------------------------------------------------------------------
(* Forks share a prefix.                                                   *)

(* A hash names one block, the genesis block included.                     *)
LEMMA HashNamesBlock ==
    ASSUME ChainInv,
           NEW b \in mined \cup {GenesisBlock}, NEW c \in mined \cup {GenesisBlock},
           b.hash = c.hash
    PROVE  b = c
  <1>1. GenesisBlock.hash = 0
    BY DEF GenesisBlock
  <1>2. \A x \in mined : x.hash # 0
    BY DEF ChainInv, HashesIdentify
  <1> QED
    BY <1>1, <1>2 DEF ChainInv, HashesIdentify

LEMMA ChainElements ==
    ASSUME ChainInv, NEW n \in Nodes
    PROVE  /\ Len(chain[n]) \in Nat \ {0}
           /\ DOMAIN chain[n] = 1 .. Len(chain[n])
           /\ \A i \in DOMAIN chain[n] : chain[n][i] \in mined \cup {GenesisBlock}
  BY LatestOfChain DEF ChainInv

(* The appended block is on no chain that does not share its whole past    *)
(* with the chain it extends.                                              *)
LEMMA AppendedBlockShared ==
    ASSUME ChainInv, ChainInv', SharedHistory,
           NEW n \in Nodes, NEW block \in mined', Appends(n, block),
           NEW m \in Nodes, NEW j \in DOMAIN chain[m],
           chain[m][j].hash = block.hash
    PROVE  /\ j = Len(chain[n]) + 1
           /\ chain[m][j] = block
           /\ \A k \in 1 .. Len(chain[n]) : chain[n][k] = chain[m][k]
  <1>1. DOMAIN chain[m] = 1 .. Len(chain[m]) /\ Len(chain[m]) \in Nat
    BY ChainElements
  <1>2. DOMAIN chain[n] = 1 .. Len(chain[n]) /\ Len(chain[n]) \in Nat \ {0}
    BY ChainElements
  <1>3. chain[m][j] \in mined' \cup {GenesisBlock}
    <2>1. chain[m][j] = chain'[m][j] /\ j \in DOMAIN chain'[m]
      <3>1. CASE m = n
        <4>1. /\ \A i \in 1 .. Len(chain[n]) : chain'[n][i] = chain[n][i]
              /\ Len(chain'[n]) = Len(chain[n]) + 1
          BY AppendedChain DEF ChainInv
        <4>2. DOMAIN chain'[n] = 1 .. Len(chain'[n])
          BY ChainElements DEF ChainInv, ChainsLinked
        <4> QED
          BY <1>1, <3>1, <4>1, <4>2
      <3>2. CASE m # n
        BY <3>2, AppendedChain DEF ChainInv
      <3> QED
        BY <3>1, <3>2
    <2>2. ChainsLinked'
      BY DEF ChainInv
    <2>3. chain'[m] \in Seq(mined' \cup {GenesisBlock})
      BY <2>2 DEF ChainsLinked
    <2> QED
      BY <2>1, <2>3
  <1>4. block.hash # 0
    BY DEF ChainInv, HashesIdentify
  <1>5. chain[m][j] = block
    <2>1. chain[m][j] # GenesisBlock
      BY <1>4 DEF GenesisBlock
    <2> QED
      BY <1>3, <2>1 DEF ChainInv, HashesIdentify
  <1>6. j # 1
    BY <1>4 DEF ChainInv, ChainsLinked, GenesisBlock
  <1>7. j \in 2 .. Len(chain[m])
    BY <1>1, <1>6
  <1>8. chain[m][j - 1].hash = chain[n][Len(chain[n])].hash
    BY <1>5, <1>7, LatestOfChain DEF ChainInv, ChainsLinked, Appends
  <1>9. /\ j - 1 = Len(chain[n])
        /\ \A k \in 1 .. Len(chain[n]) : chain[n][k] = chain[m][k]
    <2>1. Len(chain[n]) \in DOMAIN chain[n] /\ j - 1 \in DOMAIN chain[m]
      BY <1>1, <1>2, <1>7
    <2> QED
      BY <1>8, <2>1 DEF SharedHistory
  <1> QED
    BY <1>1, <1>5, <1>7, <1>9

LEMMA SharedHistoryStep ==
    ASSUME ChainInv, ChainInv', SharedHistory, AppendsOrNot
    PROVE  SharedHistory'
  <1>1. CASE UNCHANGED <<chain, difficulty>>
    BY <1>1 DEF SharedHistory
  <1>2. ASSUME NEW n \in Nodes, NEW block \in mined', Appends(n, block)
        PROVE  SharedHistory'
    <2> DEFINE last == Len(chain[n]) + 1
    <2>1. /\ Len(chain[n]) \in Nat \ {0}
          /\ \A m \in Nodes : Len(chain[m]) \in Nat
          /\ \A m \in Nodes : DOMAIN chain[m] = 1 .. Len(chain[m])
      BY ChainElements
    <2>2. \A m \in Nodes : DOMAIN chain'[m] = 1 .. Len(chain'[m])
      BY DEF ChainInv, ChainsLinked
    <2>3. /\ Len(chain'[n]) = last
          /\ chain'[n][last] = block
          /\ \A i \in 1 .. Len(chain[n]) : chain'[n][i] = chain[n][i]
          /\ \A m \in Nodes \ {n} : chain'[m] = chain[m]
      BY <1>2, AppendedChain DEF ChainInv
    <2>4. \A m \in Nodes : \A i \in DOMAIN chain'[m] :
              \/ i \in DOMAIN chain[m]
              \/ m = n /\ i = last
      BY <2>1, <2>2, <2>3
    <2>5. \A m \in Nodes : \A i \in DOMAIN chain[m] : chain'[m][i] = chain[m][i]
      BY <2>1, <2>3
    <2>6. ASSUME NEW m \in Nodes, NEW j \in DOMAIN chain[m],
                 chain[m][j].hash = block.hash
          PROVE  /\ j = last
                 /\ \A k \in 1 .. last : chain'[n][k] = chain'[m][k]
      <3>1. /\ j = last
            /\ chain[m][j] = block
            /\ \A k \in 1 .. Len(chain[n]) : chain[n][k] = chain[m][k]
        BY <1>2, <2>6, AppendedBlockShared
      <3>2. \A k \in 1 .. last : k \in 1 .. Len(chain[n]) \/ k = last
        BY <2>1
      <3>3. \A k \in 1 .. Len(chain[n]) : k \in DOMAIN chain[m]
        BY <2>1, <3>1
      <3> QED
        BY <2>1, <2>3, <2>5, <3>1, <3>2, <3>3
    <2>7. ASSUME NEW m \in Nodes, NEW i \in DOMAIN chain'[m],
                 NEW p \in Nodes, NEW j \in DOMAIN chain'[p],
                 chain'[m][i].hash = chain'[p][j].hash
          PROVE  i = j /\ \A k \in 1 .. i : chain'[m][k] = chain'[p][k]
      <3>1. CASE i \in DOMAIN chain[m] /\ j \in DOMAIN chain[p]
        <4>1. i = j /\ \A k \in 1 .. i : chain[m][k] = chain[p][k]
          BY <2>5, <2>7, <3>1 DEF SharedHistory
        <4>2. \A k \in 1 .. i : k \in DOMAIN chain[m] /\ k \in DOMAIN chain[p]
          BY <2>1, <3>1, <4>1
        <4> QED
          BY <2>5, <4>1, <4>2
      <3>2. CASE m = n /\ i = last /\ j \in DOMAIN chain[p]
        BY <2>3, <2>5, <2>6, <2>7, <3>2
      <3>3. CASE i \in DOMAIN chain[m] /\ p = n /\ j = last
        BY <2>3, <2>5, <2>6, <2>7, <3>3
      <3>4. CASE m = n /\ i = last /\ p = n /\ j = last
        BY <3>4
      <3> QED
        BY <2>4, <3>1, <3>2, <3>3, <3>4
    <2> QED
      BY <2>7 DEF SharedHistory
  <1> QED
    BY <1>1, <1>2 DEF AppendsOrNot

LEMMA SharedHistoryInit ==
    ASSUME Init
    PROVE  SharedHistory
  BY DEF Init, SharedHistory

(* Chains fork, but never rejoin: two chains with a block in common agree  *)
(* on everything below it (validateBlock links by hash and index,          *)
(* block.ts:94-154).                                                       *)
THEOREM SharedHistoryTheorem == Spec => []SharedHistory
  <1>1. Init => ChainInv /\ SharedHistory
    BY ChainInvInit, SharedHistoryInit
  <1>2. ChainInv /\ SharedHistory /\ [Next]_vars => (ChainInv /\ SharedHistory)'
    BY ChainInvStep, StepAppends, SharedHistoryStep
  <1> QED
    BY <1>1, <1>2, PTL DEF Spec

-----------------------------------------------------------------------------
(* Miners and validators agree on the difficulty.                          *)

(* The difficulty a block at height i on the chain of n has to have, from  *)
(* the i blocks below it alone.                                            *)
RequiredDifficulty(n, i) ==
    IF ShouldAdjustDifficulty(i)
    THEN CalculateNextDifficulty(chain[n][i].difficulty,
                                 [k \in 1 .. i |-> chain[n][k].time])
    ELSE chain[n][i].difficulty

(* Every mined block is on the chain of its miner, at its own height, with *)
(* the difficulty that chain requires there.                               *)
MinersKeepBlocks ==
    \A b \in mined :
        /\ b.miner \in Nodes
        /\ b.index \in 1 .. Len(chain[b.miner]) - 1
        /\ chain[b.miner][b.index + 1] = b
        /\ b.difficulty = RequiredDifficulty(b.miner, b.index)

LEMMA TipDifficulty ==
    ASSUME ChainInv, NEW n \in Nodes
    PROVE  /\ NextDifficulty(n) = CalculateNextDifficulty(
                  LatestBlock(n).difficulty,
                  [k \in 1 .. Len(chain[n]) |-> chain[n][k].time])
           /\ difficulty[n] = LatestBlock(n).difficulty
  <1>1. DOMAIN chain[n] = 1 .. Len(chain[n])
    BY ChainElements
  <1>2. difficulty[n] = LatestBlock(n).difficulty
    BY DEF ChainInv, DifficultyOfTip
  <1> QED
    BY <1>1, <1>2 DEF NextDifficulty, BlockTimes

(* A chain keeps its blocks, so what was required at a height stays.       *)
LEMMA ChainsGrow ==
    ASSUME ChainInv, AppendsOrNot, NEW n \in Nodes
    PROVE  /\ Len(chain[n]) <= Len(chain'[n])
           /\ \A i \in 1 .. Len(chain[n]) : chain'[n][i] = chain[n][i]
           /\ \A i \in 1 .. Len(chain[n]) :
                  RequiredDifficulty(n, i)' = RequiredDifficulty(n, i)
  <1>1. Len(chain[n]) \in Nat
    BY ChainElements
  <1>2. /\ Len(chain[n]) <= Len(chain'[n])
        /\ \A i \in 1 .. Len(chain[n]) : chain'[n][i] = chain[n][i]
    BY <1>1, AppendedChain DEF AppendsOrNot, ChainInv
  <1>3. ASSUME NEW i \in 1 .. Len(chain[n])
        PROVE  RequiredDifficulty(n, i)' = RequiredDifficulty(n, i)
    <2>1. \A k \in 1 .. i : chain'[n][k] = chain[n][k]
      BY <1>1, <1>2
    <2>2. [k \in 1 .. i |-> chain'[n][k].time]
              = [k \in 1 .. i |-> chain[n][k].time]
      BY <2>1
    <2> QED
      BY <1>2, <2>2 DEF RequiredDifficulty
  <1> QED
    BY <1>2, <1>3

LEMMA MinersKeepBlocksStep ==
    ASSUME ChainInv, MinersKeepBlocks, [Next]_vars
    PROVE  MinersKeepBlocks'
  <1>1. ASSUME NEW b \in mined
        PROVE  /\ b.miner \in Nodes
               /\ b.index \in 1 .. Len(chain'[b.miner]) - 1
               /\ chain'[b.miner][b.index + 1] = b
               /\ b.difficulty = RequiredDifficulty(b.miner, b.index)'
    <2>1. /\ b.miner \in Nodes
          /\ b.index \in 1 .. Len(chain[b.miner]) - 1
          /\ chain[b.miner][b.index + 1] = b
          /\ b.difficulty = RequiredDifficulty(b.miner, b.index)
      BY DEF MinersKeepBlocks
    <2>2. /\ Len(chain[b.miner]) <= Len(chain'[b.miner])
          /\ \A i \in 1 .. Len(chain[b.miner]) :
                 /\ chain'[b.miner][i] = chain[b.miner][i]
                 /\ RequiredDifficulty(b.miner, i)' = RequiredDifficulty(b.miner, i)
      BY <2>1, StepAppends, ChainsGrow
    <2>3. Len(chain[b.miner]) \in Nat /\ Len(chain'[b.miner]) \in Nat
      BY <2>1, ChainElements, ChainInvStep DEF ChainInv, ChainsLinked
    <2>4. b.index \in 1 .. Len(chain[b.miner]) /\ b.index + 1 \in 1 .. Len(chain[b.miner])
      BY <2>1, <2>3
    <2> QED
      BY <2>1, <2>2, <2>3, <2>4
  <1>2. CASE mined' = mined
    BY <1>1, <1>2 DEF MinersKeepBlocks
  <1>3. ASSUME NEW n \in Nodes, NEW miner, NEW gap,
               MinePendingUTXOTransactions(n, miner, gap)
        PROVE  MinersKeepBlocks'
    <2> PICK block :
              block = MinedBlock(n, gap,
                  pending[n] \cup
                      {RewardTransaction(Cardinality(mined) + 1, miner)})
      OBVIOUS
    <2>1. Appends(n, block) /\ mined' = mined \cup {block}
      BY <1>3, MineAppends
    <2>2. /\ block.miner = n
          /\ block.index = LatestBlock(n).index + 1
          /\ block.difficulty = IF ShouldAdjustDifficulty(block.index)
                                THEN NextDifficulty(n) ELSE difficulty[n]
      BY MinedBlockFields
    <2>3. /\ Len(chain[n]) \in Nat \ {0}
          /\ block.index = Len(chain[n])
          /\ LatestBlock(n) = chain[n][Len(chain[n])]
      BY <2>2, LatestOfChain DEF ChainInv
    <2>4. /\ Len(chain'[n]) = Len(chain[n]) + 1
          /\ chain'[n][Len(chain[n]) + 1] = block
      BY <2>1, AppendedChain DEF ChainInv
    <2>5. block.difficulty = RequiredDifficulty(n, block.index)'
      <3>1. block.difficulty = RequiredDifficulty(n, block.index)
        BY <2>2, <2>3, TipDifficulty DEF RequiredDifficulty
      <3>2. AppendsOrNot
        BY <1>3, StepAppends DEF Next, vars
      <3>3. block.index \in 1 .. Len(chain[n])
        BY <2>3
      <3> QED
        BY <3>1, <3>2, <3>3, ChainsGrow
    <2>6. block.index \in 1 .. Len(chain'[n]) - 1
      BY <2>3, <2>4
    <2> QED
      BY <1>1, <2>1, <2>2, <2>3, <2>4, <2>5, <2>6 DEF MinersKeepBlocks
  <1>4. ASSUME NEW n, NEW block, AddBlock(n, block)
        PROVE  mined' = mined
    BY <1>4 DEF AddBlock
  <1>5. ASSUME NEW n, NEW from, NEW to, NEW amount,
               CreateUTXOTransaction(n, from, to, amount)
        PROVE  mined' = mined
    BY <1>5 DEF CreateUTXOTransaction
  <1>6. ASSUME NEW n, NEW tx, AddUTXOTransaction(n, tx)
        PROVE  mined' = mined
    BY <1>6 DEF AddUTXOTransaction
  <1> QED
    BY <1>2, <1>3, <1>4, <1>5, <1>6 DEF Next, vars

LEMMA PeersAgree ==
    ASSUME ChainInv, SharedHistory, MinersKeepBlocks
    PROVE  PeersAgreeOnDifficulty
  <1> SUFFICES ASSUME NEW n \in Nodes, NEW b \in mined,
                      b.previousHash = LatestBlock(n).hash
               PROVE  /\ b.index = LatestBlock(n).index + 1
                      /\ DifficultyAcceptable(n, b)
    BY DEF PeersAgreeOnDifficulty
  <1> DEFINE m == b.miner
  <1>1. /\ m \in Nodes
        /\ b.index \in 1 .. Len(chain[m]) - 1
        /\ chain[m][b.index + 1] = b
        /\ b.difficulty = RequiredDifficulty(m, b.index)
    BY DEF MinersKeepBlocks
  <1>2. /\ Len(chain[m]) \in Nat \ {0}
        /\ DOMAIN chain[m] = 1 .. Len(chain[m])
        /\ Len(chain[n]) \in Nat \ {0}
        /\ DOMAIN chain[n] = 1 .. Len(chain[n])
    BY <1>1, ChainElements
  <1>3. chain[m][b.index].hash = chain[n][Len(chain[n])].hash
    <2>1. b.index + 1 \in 2 .. Len(chain[m]) /\ b.index = (b.index + 1) - 1
      BY <1>1, <1>2
    <2>2. chain[m][b.index + 1].previousHash = chain[m][b.index].hash
      BY <1>1, <2>1 DEF ChainInv, ChainsLinked
    <2> QED
      BY <1>1, <2>2, LatestOfChain DEF ChainInv
  <1>4. /\ b.index = Len(chain[n])
        /\ \A k \in 1 .. b.index : chain[m][k] = chain[n][k]
    <2>1. b.index \in DOMAIN chain[m] /\ Len(chain[n]) \in DOMAIN chain[n]
      BY <1>1, <1>2
    <2> QED
      BY <1>1, <1>3, <2>1 DEF SharedHistory
  <1>5. b.index = LatestBlock(n).index + 1
    BY <1>2, <1>4, LatestOfChain DEF ChainInv
  <1>6. RequiredDifficulty(m, b.index) = RequiredDifficulty(n, b.index)
    <2>1. chain[m][b.index] = chain[n][b.index]
      BY <1>2, <1>4
    <2>2. [k \in 1 .. b.index |-> chain[m][k].time]
              = [k \in 1 .. b.index |-> chain[n][k].time]
      BY <1>4
    <2> QED
      BY <2>1, <2>2 DEF RequiredDifficulty
  <1>7. LatestBlock(n) = chain[n][b.index]
    BY <1>4, LatestOfChain DEF ChainInv
  <1>8. DifficultyAcceptable(n, b)
    BY <1>1, <1>4, <1>6, <1>7, TipDifficulty
       DEF RequiredDifficulty, DifficultyAcceptable
  <1> QED
    BY <1>5, <1>8

(* Whatever fork a block was mined on, a node that reaches its parent      *)
(* accepts its height and its difficulty (addBlock, blockchain.ts:407-422, *)
(* against minePendingUTXOTransactions, blockchain.ts:311-325): retargeting*)
(* never splits the network.                                               *)
THEOREM PeersAgreeOnDifficultyTheorem == Spec => []PeersAgreeOnDifficulty
  <1> DEFINE Inv == ChainInv /\ SharedHistory /\ MinersKeepBlocks
  <1>1. Init => Inv
    <2>1. Init => MinersKeepBlocks
      BY DEF Init, MinersKeepBlocks
    <2> QED
      BY <2>1, ChainInvInit, SharedHistoryInit
  <1>2. Inv /\ [Next]_vars => Inv'
    BY ChainInvStep, StepAppends, SharedHistoryStep, MinersKeepBlocksStep
  <1>3. Inv => PeersAgreeOnDifficulty
    BY PeersAgree
  <1> QED
    BY <1>1, <1>2, <1>3, PTL DEF Spec

-----------------------------------------------------------------------------
(* Types.  The sums of the code are numbers because the sets they run over *)
(* are finite, so finiteness is part of the invariant.                     *)

TypeInv ==
    /\ TypeOK
    /\ \A n \in Nodes : IsFiniteSet(utxo[n])
    /\ IsFiniteSet(created) /\ IsFiniteSet(mined)
    /\ \A tx \in created : tx.outputs # <<>>
    /\ \A b \in mined : IsFiniteSet(b.transactions)

Payments == {tx \in Transactions : tx.outputs # <<>>}

LEMMA ElementOfSeq ==
    ASSUME NEW V, NEW s \in Seq(V), NEW i \in DOMAIN s
    PROVE  i \in Nat \ {0} /\ s[i] \in V
  <1>1. Len(s) \in Nat /\ DOMAIN s = 1 .. Len(s)
    OBVIOUS
  <1> QED
    BY <1>1

LEMMA NonemptySeq ==
    ASSUME NEW V, NEW s \in Seq(V), s # <<>>
    PROVE  1 \in DOMAIN s /\ s[1] \in V
  <1>1. Len(s) \in Nat /\ DOMAIN s = 1 .. Len(s)
    OBVIOUS
  <1>2. Len(s) # 0
    OBVIOUS
  <1> QED
    BY <1>1, <1>2

LEMMA OutputsTyped ==
    ASSUME NEW tx \in Transactions
    PROVE  /\ OutputsOf(tx) \subseteq UTXOs
           /\ IsFiniteSet(OutputsOf(tx))
           /\ OutputValue(tx) \in Int
  <1>1. tx.outputs \in Seq(TransactionOutputs) /\ tx.id \in TxIds
    BY DEF Transactions
  <1>2. OutputsOf(tx) \subseteq UTXOs
    <2>1. ASSUME NEW i \in DOMAIN tx.outputs
          PROVE  /\ i - 1 \in Nat
                 /\ tx.outputs[i].value \in Int
                 /\ tx.outputs[i].to \in Addresses
      <3>1. i \in Nat \ {0} /\ tx.outputs[i] \in TransactionOutputs
        BY <1>1, ElementOfSeq
      <3> QED
        BY <3>1 DEF TransactionOutputs
    <2> QED
      BY <1>1, <2>1 DEF OutputsOf, UTXOs
  <1>3. IsFiniteSet(OutputsOf(tx))
    BY <1>1, OutputsFinite
  <1>4. OutputValue(tx) \in Int
    BY <1>2, <1>3, TotalValueInt DEF OutputValue, UTXOs
  <1> QED
    BY <1>2, <1>3, <1>4

LEMMA LegacyTyped ==
    ASSUME NEW tx \in Payments
    PROVE  LegacyTransaction(tx) \in LegacyTransactions
  <1>1. tx \in Transactions /\ tx.outputs # <<>>
    BY DEF Payments
  <1>2. tx.outputs[1].to \in Addresses
    <2>1. tx.outputs \in Seq(TransactionOutputs)
      BY <1>1 DEF Transactions
    <2>2. tx.outputs[1] \in TransactionOutputs
      BY <1>1, <2>1, NonemptySeq
    <2> QED
      BY <2>2 DEF TransactionOutputs
  <1> QED
    BY <1>1, <1>2, OutputsTyped
       DEF LegacyTransaction, LegacyTransactions, Transactions

(* What applying a block does to the type of a UTXO set.                   *)
LEMMA ProcessBlockTyped ==
    ASSUME NEW utxos \in SUBSET UTXOs, IsFiniteSet(utxos),
           NEW known \in SUBSET Transactions, IsFiniteSet(known),
           NEW block, block.transactions \subseteq LegacyTransactions,
           IsFiniteSet(block.transactions)
    PROVE  /\ ProcessBlockUTXOs(utxos, known, block) \subseteq UTXOs
           /\ IsFiniteSet(ProcessBlockUTXOs(utxos, known, block))
  <1> DEFINE full == UNION {OutputsOf(tx) : tx \in KnownIn(known, block)}
             fallback == FallbackOutputs(known, block)
  <1>1. KnownIn(known, block) \subseteq known /\ IsFiniteSet(KnownIn(known, block))
    <2>1. KnownIn(known, block) \subseteq known
      BY DEF KnownIn
    <2> QED
      BY <2>1, FS_Subset
  <1>2. full \subseteq UTXOs /\ IsFiniteSet(full)
    <2>1. full \subseteq UTXOs
      BY <1>1, OutputsTyped
    <2> DEFINE f == [tx \in KnownIn(known, block) |-> OutputsOf(tx)]
    <2>2. {OutputsOf(tx) : tx \in KnownIn(known, block)}
              = {f[tx] : tx \in KnownIn(known, block)}
      OBVIOUS
    <2> HIDE DEF f
    <2>3. IsFiniteSet({OutputsOf(tx) : tx \in KnownIn(known, block)})
      BY ZenonT(40), <1>1, <2>2, ImageFinite
    <2>4. \A s \in {OutputsOf(tx) : tx \in KnownIn(known, block)} : IsFiniteSet(s)
      BY <1>1, OutputsTyped
    <2> QED
      BY <2>1, <2>3, <2>4, FS_UNION
  <1>3. fallback \subseteq UTXOs /\ IsFiniteSet(fallback)
    <2> DEFINE C == {c \in block.transactions : \A tx \in known : tx.id # c.id}
               f == [b \in C |-> [txId |-> b.id, outputIndex |-> 0,
                                  value |-> b.amount, to |-> b.to]]
    <2>1. fallback = {f[b] : b \in C}
      BY DEF FallbackOutputs
    <2>2. \A b \in C : f[b] \in UTXOs
      BY DEF UTXOs, LegacyTransactions
    <2>3. IsFiniteSet(C)
      <3>1. C \subseteq block.transactions
        OBVIOUS
      <3> QED
        BY <3>1, FS_Subset
    <2> HIDE DEF f, C
    <2> QED
      BY <2>1, <2>2, <2>3, ImageFinite
  <1> HIDE DEF full, fallback
  <1>4. IsFiniteSet(utxos \cup (full \cup fallback))
    BY <1>2, <1>3, FS_Union
  <1>5. ProcessBlockUTXOs(utxos, known, block)
            \subseteq utxos \cup (full \cup fallback)
    <2>1. PICK removals : removals = UNION {tx.inputs : tx \in KnownIn(known, block)}
      OBVIOUS
    <2>2. ProcessBlockUTXOs(utxos, known, block)
              = ApplyUTXOUpdates(utxos, full \cup fallback, removals)
      BY <2>1 DEF ProcessBlockUTXOs, full, fallback
    <2> QED
      BY <2>2 DEF ApplyUTXOUpdates
  <1> QED
    BY <1>2, <1>3, <1>4, <1>5, FS_Subset

LEMMA CreatedTyped ==
    ASSUME TypeInv, NEW n \in Nodes, NEW from \in Addresses, NEW to \in Addresses,
           NEW amount \in Amounts, NEW k \in Nat,
           NEW selected \in SufficientSelections(OwnedBy(utxo[n], from), amount)
    PROVE  CreateTransaction(<<"tx", k>>, from, to, amount, selected) \in Payments
  <1>1. selected \subseteq utxo[n]
    BY DEF SufficientSelections, GreedySelections, OwnedBy
  <1>2. selected \subseteq UTXOs /\ IsFiniteSet(selected)
    BY <1>1, FS_Subset DEF TypeInv, TypeOK
  <1>3. TotalValue(selected) \in Int
    BY <1>2, TotalValueInt DEF UTXOs
  <1>4. Cardinality(selected) \in Nat
    BY <1>2, FS_CardinalityType
  <1>5. PICK change : change = TotalValue(selected) - (amount + EstimatedFee)
    OBVIOUS
  <1>6. PICK fee : fee = TransactionFee(Cardinality(selected),
                                        IF change > 0 THEN 2 ELSE 1)
    OBVIOUS
  <1>7. amount \in Int /\ EstimatedFee \in Int
    BY LedgerAssumption DEF EstimatedFee, TransactionFee
  <1>8. change \in Int /\ fee \in Int
    BY <1>3, <1>4, <1>5, <1>6, <1>7 DEF TransactionFee
  <1>9. PICK remaining : remaining = change - (fee - EstimatedFee)
    OBVIOUS
  <1>10. /\ [value |-> amount, to |-> to] \in TransactionOutputs
         /\ [value |-> remaining, to |-> from] \in TransactionOutputs
    BY <1>7, <1>8, <1>9 DEF TransactionOutputs
  <1>11. PICK outputs :
             outputs = IF change > 0 /\ remaining > 0
                       THEN <<[value |-> amount, to |-> to],
                              [value |-> remaining, to |-> from]>>
                       ELSE <<[value |-> amount, to |-> to]>>
    OBVIOUS
  <1>12. outputs \in Seq(TransactionOutputs) /\ outputs # <<>>
    BY <1>10, <1>11
  <1>13. Outpoints(selected) \subseteq AllOutpoints
    BY <1>2 DEF Outpoints, Outpoint, AllOutpoints, UTXOs
  <1>14. <<"tx", k>> \in TxIds
    BY DEF TxIds
  <1>15. CreateTransaction(<<"tx", k>>, from, to, amount, selected)
             = [id |-> <<"tx", k>>, inputs |-> Outpoints(selected),
                outputs |-> outputs, fee |-> fee]
    BY <1>5, <1>6, <1>9, <1>11 DEF CreateTransaction
  <1> QED
    BY <1>8, <1>12, <1>13, <1>14, <1>15 DEF Payments, Transactions

LEMMA RewardTyped ==
    ASSUME NEW k \in Nat, NEW miner \in Addresses
    PROVE  RewardTransaction(k, miner) \in Payments
  <1>1. [value |-> MiningReward, to |-> miner] \in TransactionOutputs
    BY LedgerAssumption DEF TransactionOutputs
  <1>2. <<[value |-> MiningReward, to |-> miner]>> \in Seq(TransactionOutputs)
    BY <1>1
  <1> QED
    BY <1>2 DEF RewardTransaction, Payments, Transactions, TxIds

LEMMA MinedTyped ==
    ASSUME TypeInv, ChainInv, NEW n \in Nodes, NEW gap \in BlockGaps,
           NEW ts \in SUBSET Payments, IsFiniteSet(ts)
    PROVE  /\ MinedBlock(n, gap, ts) \in Blocks
           /\ IsFiniteSet(MinedBlock(n, gap, ts).transactions)
  <1>1. PICK block : block = MinedBlock(n, gap, ts)
    OBVIOUS
  <1>2. /\ LatestBlock(n) \in Blocks
        /\ chain[n] \in Seq(Blocks)
    BY SMTT(30), LatestOfChain DEF ChainInv, TypeInv, TypeOK
  <1>3. Cardinality(mined) \in Nat
    BY FS_CardinalityType DEF TypeInv
  <1>4. NextDifficulty(n) \in Nat \ {0}
    <2>1. BlockTimes(n) \in Seq(Int)
      <3>1. DOMAIN chain[n] = 1 .. Len(chain[n]) /\ Len(chain[n]) \in Nat
        BY <1>2
      <3>2. \A i \in DOMAIN chain[n] : chain[n][i].time \in Int
        <4>1. \A i \in DOMAIN chain[n] : chain[n][i] \in Blocks
          BY <1>2, ElementOfSeq
        <4> QED
          BY <4>1 DEF Blocks
      <3>3. BlockTimes(n) \in [1 .. Len(chain[n]) -> Int]
        BY <3>1, <3>2 DEF BlockTimes
      <3> QED
        BY <3>1, <3>3
    <2>2. difficulty[n] \in Nat \ {0}
      BY DEF TypeInv, TypeOK
    <2> QED
      BY <2>1, <2>2, NextPositive DEF NextDifficulty
  <1>5. block.transactions \subseteq LegacyTransactions
    BY <1>1, LegacyTyped, MinedBlockFields
  <1>6. IsFiniteSet(block.transactions)
    <2> DEFINE f == [tx \in ts |-> LegacyTransaction(tx)]
    <2>1. {LegacyTransaction(tx) : tx \in ts} = {f[tx] : tx \in ts}
      OBVIOUS
    <2> HIDE DEF f
    <2>2. IsFiniteSet({LegacyTransaction(tx) : tx \in ts})
      BY <2>1, ImageFinite
    <2>3. block.transactions = {LegacyTransaction(tx) : tx \in ts}
      BY <1>1, MinedBlockFields
    <2> QED
      BY <2>2, <2>3
  <1>7. block \in Blocks
    <2>1. /\ LatestBlock(n).index \in Nat
          /\ LatestBlock(n).hash \in Nat
          /\ LatestBlock(n).time \in Int
      <3>1. PICK b : b = LatestBlock(n)
        OBVIOUS
      <3>2. b \in Blocks
        BY <1>2, <3>1
      <3> QED
        BY <3>1, <3>2 DEF Blocks
    <2>2. difficulty[n] \in Nat \ {0} /\ gap \in Int
      BY LedgerAssumption DEF TypeInv, TypeOK
    <2>3. {LegacyTransaction(tx) : tx \in ts} \subseteq LegacyTransactions
      BY LegacyTyped
    <2>4. IF ShouldAdjustDifficulty(LatestBlock(n).index + 1)
          THEN NextDifficulty(n) \in Nat \ {0} ELSE difficulty[n] \in Nat \ {0}
      BY <1>4, <2>2
    <2>5. PICK d : d = IF ShouldAdjustDifficulty(LatestBlock(n).index + 1)
                       THEN NextDifficulty(n) ELSE difficulty[n]
      OBVIOUS
    <2>6. d \in Nat \ {0}
      BY <2>4, <2>5
    <2>7. PICK legacy : legacy = {LegacyTransaction(tx) : tx \in ts}
      OBVIOUS
    <2>8. block = [hash |-> Cardinality(mined) + 1,
                   index |-> LatestBlock(n).index + 1,
                   previousHash |-> LatestBlock(n).hash,
                   time |-> LatestBlock(n).time + gap,
                   difficulty |-> d, miner |-> n, transactions |-> legacy]
      BY <1>1, <2>5, <2>7 DEF MinedBlock
    <2> QED
      BY <1>3, <2>1, <2>2, <2>3, <2>6, <2>7, <2>8 DEF Blocks
  <1> QED
    BY <1>1, <1>6, <1>7

(* The typed part of appending a block.                                    *)
LEMMA AppendTyped ==
    ASSUME TypeInv, NEW n \in Nodes, NEW block \in Blocks, Appends(n, block)
    PROVE  /\ chain' \in [Nodes -> Seq(Blocks)]
           /\ \A m \in Nodes : chain'[m] # <<>>
           /\ difficulty' \in [Nodes -> Nat \ {0}]
  <1>1. chain[n] \in Seq(Blocks)
    BY DEF TypeInv, TypeOK
  <1>2. Append(chain[n], block) \in Seq(Blocks) /\ Append(chain[n], block) # <<>>
    BY <1>1
  <1>3. block.difficulty \in Nat \ {0}
    BY DEF Blocks
  <1> QED
    BY <1>2, <1>3 DEF Appends, TypeInv, TypeOK

LEMMA TypeInvInit ==
    ASSUME Init
    PROVE  TypeInv
  <1>1. GenesisBlock \in Blocks
    BY LedgerAssumption DEF GenesisBlock, Blocks
  <1>2. <<GenesisBlock>> \in Seq(Blocks) /\ <<GenesisBlock>> # <<>>
    BY <1>1
  <1>3. Genesis \subseteq UTXOs
    BY LedgerAssumption DEF UTXOs, TxIds
  <1>4. TypeOK
    BY <1>2, <1>3, LedgerAssumption DEF Init, TypeOK
  <1>5. IsFiniteSet({})
    BY FS_EmptySet
  <1> QED
    BY <1>4, <1>5, LedgerAssumption DEF Init, TypeInv

LEMMA CreateTypes ==
    ASSUME TypeInv, NEW n \in Nodes, NEW from \in Addresses, NEW to \in Addresses,
           NEW amount \in Amounts, CreateUTXOTransaction(n, from, to, amount)
    PROVE  TypeInv'
  <1>1. Cardinality(created) + 1 \in Nat
    BY FS_CardinalityType DEF TypeInv
  <1>2. PICK tx \in Payments : created' = created \cup {tx}
    BY <1>1, CreatedTyped DEF CreateUTXOTransaction
  <1>3. tx \in Transactions /\ tx.outputs # <<>>
    BY DEF Payments
  <1>4. IsFiniteSet(created')
    BY <1>2, FS_AddElement DEF TypeInv
  <1>5. UNCHANGED <<chain, utxo, pending, difficulty, mined>>
    BY DEF CreateUTXOTransaction
  <1>6. created' \subseteq Transactions /\ created \subseteq created'
    BY <1>2, <1>3 DEF TypeInv, TypeOK
  <1>7. pending' \in [Nodes -> SUBSET created']
    BY <1>5, <1>6 DEF TypeInv, TypeOK
  <1>8. TypeOK'
    BY <1>5, <1>6, <1>7 DEF TypeInv, TypeOK
  <1> QED
    BY <1>2, <1>3, <1>4, <1>5, <1>8 DEF TypeInv

LEMMA AddTransactionTypes ==
    ASSUME TypeInv, NEW n \in Nodes, NEW tx \in created,
           AddUTXOTransaction(n, tx)
    PROVE  TypeInv'
  BY DEF AddUTXOTransaction, TypeInv, TypeOK

(* What the mempool and the new blocks are typed by.                       *)
LEMMA PendingTyped ==
    ASSUME TypeInv, NEW n \in Nodes
    PROVE  pending[n] \in SUBSET Payments /\ IsFiniteSet(pending[n])
  <1>1. pending[n] \subseteq created
    BY DEF TypeInv, TypeOK
  <1>2. IsFiniteSet(pending[n])
    BY <1>1, FS_Subset DEF TypeInv
  <1> QED
    BY <1>1, <1>2 DEF TypeInv, TypeOK, Payments

(* Both appending actions keep the types when the UTXO update does.        *)
LEMMA AppendTypes ==
    ASSUME TypeInv, NEW n \in Nodes, NEW block \in Blocks, Appends(n, block),
           IsFiniteSet(block.transactions),
           mined' = mined \cup {block},
           created' = created,
           NEW kept \in SUBSET pending[n],
           pending' = [pending EXCEPT ![n] = kept],
           NEW utxos \in SUBSET UTXOs, IsFiniteSet(utxos),
           utxo' = [utxo EXCEPT ![n] = utxos]
    PROVE  TypeInv'
  <1>1. /\ utxo' \in [Nodes -> SUBSET UTXOs]
        /\ \A m \in Nodes : IsFiniteSet(utxo'[m])
    BY DEF TypeInv, TypeOK
  <1>2. pending' \in [Nodes -> SUBSET created']
    BY DEF TypeInv, TypeOK
  <1>3. mined' \subseteq Blocks /\ created' \subseteq Transactions
    BY DEF TypeInv, TypeOK
  <1>4. IsFiniteSet(mined')
    BY FS_AddElement DEF TypeInv
  <1>5. TypeOK'
    BY <1>1, <1>2, <1>3, AppendTyped DEF TypeOK
  <1> QED
    BY <1>1, <1>4, <1>5 DEF TypeInv

LEMMA MineTypes ==
    ASSUME TypeInv, ChainInv, NEW n \in Nodes, NEW miner \in Addresses,
           NEW gap \in BlockGaps, MinePendingUTXOTransactions(n, miner, gap)
    PROVE  TypeInv'
  <1>1. PICK reward : reward = RewardTransaction(Cardinality(mined) + 1, miner)
    OBVIOUS
  <1>2. PICK ts : ts = pending[n] \cup {reward}
    OBVIOUS
  <1>3. ts \in SUBSET Payments /\ IsFiniteSet(ts)
    <2>1. Cardinality(mined) + 1 \in Nat
      BY FS_CardinalityType DEF TypeInv
    <2>2. reward \in Payments
      BY <1>1, <2>1, RewardTyped
    <2>3. IsFiniteSet(ts)
      BY <1>2, PendingTyped, FS_AddElement
    <2> QED
      BY <1>2, <2>2, <2>3, PendingTyped
  <1>4. PICK block : block = MinedBlock(n, gap, ts)
    OBVIOUS
  <1>5. block \in Blocks /\ IsFiniteSet(block.transactions)
    BY <1>3, <1>4, MinedTyped
  <1>6. Appends(n, block) /\ mined' = mined \cup {block}
    BY <1>1, <1>2, <1>4, MineAppends
  <1>7. PICK utxos : utxos = ProcessBlockUTXOs(utxo[n], ts, block)
    OBVIOUS
  <1>8. /\ utxo' = [utxo EXCEPT ![n] = utxos]
        /\ pending' = [pending EXCEPT ![n] = {}]
        /\ created' = created
    <2>1. utxo' = [utxo EXCEPT ![n] = ProcessBlockUTXOs(utxo[n], ts, block)]
      BY <1>1, <1>2, <1>4 DEF MinePendingUTXOTransactions, BlockTransactions, TypeInv, TypeOK
    <2> QED
      BY <1>7, <2>1 DEF MinePendingUTXOTransactions, BlockTransactions
  <1>9. utxos \in SUBSET UTXOs /\ IsFiniteSet(utxos)
    <2>1. utxo[n] \in SUBSET UTXOs /\ IsFiniteSet(utxo[n])
      BY DEF TypeInv, TypeOK
    <2>2. ts \in SUBSET Transactions
      BY <1>3 DEF Payments
    <2>3. block.transactions \subseteq LegacyTransactions
      BY <1>5 DEF Blocks
    <2> QED
      BY <1>3, <1>5, <1>7, <2>1, <2>2, <2>3, ProcessBlockTyped
  <1> QED
    BY <1>5, <1>6, <1>8, <1>9, AppendTypes

LEMMA AddBlockTypes ==
    ASSUME TypeInv, ChainInv, NEW n \in Nodes, NEW block \in mined,
           AddBlock(n, block)
    PROVE  TypeInv'
  <1>1. PICK kept : kept = pending[n] \ KnownIn(pending[n], block)
    OBVIOUS
  <1>2. block \in Blocks /\ IsFiniteSet(block.transactions)
    BY DEF TypeInv, TypeOK
  <1>3. Appends(n, block) /\ mined' = mined
    BY AddAppends DEF ChainInv
  <1>4. PICK utxos : utxos = ProcessBlockUTXOs(utxo[n], kept, block)
    OBVIOUS
  <1>5. /\ utxo' = [utxo EXCEPT ![n] = utxos]
        /\ pending' = [pending EXCEPT ![n] = kept]
        /\ created' = created
    <2>1. utxo' = [utxo EXCEPT ![n] = ProcessBlockUTXOs(utxo[n], kept, block)]
      BY <1>1 DEF AddBlock, TypeInv, TypeOK
    <2> QED
      BY <1>1, <1>4, <2>1 DEF AddBlock
  <1>6. kept \in SUBSET pending[n]
    BY <1>1
  <1>7. utxos \in SUBSET UTXOs /\ IsFiniteSet(utxos)
    <2>1. utxo[n] \in SUBSET UTXOs /\ IsFiniteSet(utxo[n])
      BY DEF TypeInv, TypeOK
    <2>2. kept \in SUBSET Transactions /\ IsFiniteSet(kept)
      BY <1>6, PendingTyped, FS_Subset DEF Payments
    <2>3. block.transactions \subseteq LegacyTransactions
      BY <1>2 DEF Blocks
    <2> QED
      BY <1>2, <1>4, <2>1, <2>2, <2>3, ProcessBlockTyped
  <1>8. mined' = mined \cup {block}
    BY <1>3
  <1> QED
    BY <1>2, <1>3, <1>5, <1>6, <1>7, <1>8, AppendTypes

LEMMA TypeInvStep ==
    ASSUME TypeInv, ChainInv, [Next]_vars
    PROVE  TypeInv'
  <1>1. CASE UNCHANGED vars
    BY <1>1 DEF vars, TypeInv, TypeOK
  <1>2. ASSUME NEW n \in Nodes, NEW from \in Addresses, NEW to \in Addresses,
               NEW amount \in Amounts, CreateUTXOTransaction(n, from, to, amount)
        PROVE  TypeInv'
    BY <1>2, CreateTypes
  <1>3. ASSUME NEW n \in Nodes, NEW tx \in created, AddUTXOTransaction(n, tx)
        PROVE  TypeInv'
    BY <1>3, AddTransactionTypes
  <1>4. ASSUME NEW n \in Nodes, NEW miner \in Addresses, NEW gap \in BlockGaps,
               MinePendingUTXOTransactions(n, miner, gap)
        PROVE  TypeInv'
    BY <1>4, MineTypes
  <1>5. ASSUME NEW n \in Nodes, NEW block \in mined, AddBlock(n, block)
        PROVE  TypeInv'
    BY <1>5, AddBlockTypes
  <1> QED
    BY <1>1, <1>2, <1>3, <1>4, <1>5 DEF Next

(* Every variable keeps its type: every amount, fee and difficulty the     *)
(* code computes (utxo-transaction.ts:31-117, difficulty.ts:39-78) is the  *)
(* number the next handler expects, and every difficulty is positive.      *)
THEOREM TypeOKTheorem == Spec => []TypeOK
  <1> DEFINE Inv == TypeInv /\ ChainInv
  <1>1. Init => Inv
    BY TypeInvInit, ChainInvInit
  <1>2. Inv /\ [Next]_vars => Inv'
    BY TypeInvStep, ChainInvStep, StepAppends
  <1>3. Inv => TypeOK
    BY DEF TypeInv
  <1> QED
    BY <1>1, <1>2, <1>3, PTL DEF Spec

-----------------------------------------------------------------------------
(* Valid chains.  What validateBlock asks of the records of a block follows *)
(* from what addUTXOTransaction asked before the transaction could wait.    *)

Worth(tx) ==
    /\ tx \in Payments
    /\ \A i \in DOMAIN tx.outputs : tx.outputs[i].value > 0
    /\ tx.fee >= 0

Sound(record) == record.amount > 0 /\ record.fee >= 0

RecordsInv ==
    /\ \A n \in Nodes : \A tx \in pending[n] : Worth(tx)
    /\ \A b \in mined : \A r \in b.transactions : Sound(r)

LEMMA WorthSound ==
    ASSUME NEW tx, Worth(tx)
    PROVE  Sound(LegacyTransaction(tx))
  <1>1. tx \in Transactions /\ tx.outputs # <<>> /\ tx.fee \in Int
    BY DEF Worth, Payments, Transactions
  <1>2. tx.outputs \in Seq(TransactionOutputs)
    BY <1>1 DEF Transactions
  <1>3. IsFiniteSet(OutputsOf(tx))
    BY <1>1, OutputsTyped
  <1>4. OutputsOf(tx) # {}
    BY <1>2, <1>1, NonemptySeq DEF OutputsOf
  <1>5. \A i \in DOMAIN tx.outputs : tx.outputs[i].value \in Nat \ {0}
    <2>1. \A i \in DOMAIN tx.outputs : tx.outputs[i] \in TransactionOutputs
      BY <1>2, ElementOfSeq
    <2> QED
      BY <2>1 DEF Worth, TransactionOutputs
  <1>6. \A u \in OutputsOf(tx) : u.value \in Nat \ {0}
    BY <1>5 DEF OutputsOf
  <1>7. OutputValue(tx) \in Nat \ {0}
    BY <1>3, <1>4, <1>6, TotalValuePositive DEF OutputValue
  <1> QED
    BY <1>7 DEF LegacyTransaction, Sound, Worth

LEMMA RewardWorth ==
    ASSUME NEW k \in Nat, NEW miner \in Addresses
    PROVE  Worth(RewardTransaction(k, miner))
  <1>1. RewardTransaction(k, miner) \in Payments
    BY RewardTyped
  <1> QED
    BY <1>1, LedgerAssumption DEF Worth, RewardTransaction

(* Only what was validated enters a mempool, and it is paid for by whole    *)
(* amounts: a coinbase records no fee, any other none below zero.           *)
LEMMA AcceptedWorth ==
    ASSUME TypeInv, NEW tx \in created, NEW utxos, ValidateTransaction(tx, utxos)
    PROVE  Worth(tx)
  <1>1. tx \in Payments
    BY DEF TypeInv, TypeOK, Payments
  <1>2. /\ \A i \in DOMAIN tx.outputs : tx.outputs[i].value > 0
        /\ tx.fee = 0 \/ tx.fee >= 0
    BY DEF ValidateTransaction
  <1> QED
    BY <1>1, <1>2 DEF Worth

LEMMA RecordsStep ==
    ASSUME RecordsInv, TypeInv, [Next]_vars
    PROVE  RecordsInv'
  <1>1. ASSUME mined' = mined, \A n \in Nodes : pending'[n] \subseteq pending[n]
        PROVE  RecordsInv'
    BY <1>1 DEF RecordsInv
  <1>2. CASE UNCHANGED vars
    BY <1>1, <1>2 DEF vars
  <1>3. ASSUME NEW n, NEW from, NEW to, NEW amount,
               CreateUTXOTransaction(n, from, to, amount)
        PROVE  RecordsInv'
    BY <1>1, <1>3 DEF CreateUTXOTransaction
  <1>4. ASSUME NEW n \in Nodes, NEW tx \in created, AddUTXOTransaction(n, tx)
        PROVE  RecordsInv'
    <2>1. Worth(tx)
      BY <1>4, AcceptedWorth DEF AddUTXOTransaction
    <2>2. \A m \in Nodes : pending'[m] \subseteq pending[m] \cup {tx}
      BY <1>4 DEF AddUTXOTransaction, TypeInv, TypeOK
    <2>3. mined' = mined
      BY <1>4 DEF AddUTXOTransaction
    <2> QED
      BY <2>1, <2>2, <2>3 DEF RecordsInv
  <1>5. ASSUME NEW n \in Nodes, NEW miner \in Addresses, NEW gap \in BlockGaps,
               MinePendingUTXOTransactions(n, miner, gap)
        PROVE  RecordsInv'
    <2> DEFINE ts == pending[n] \cup {RewardTransaction(Cardinality(mined) + 1, miner)}
    <2>1. \A tx \in ts : Worth(tx)
      <3>1. Cardinality(mined) + 1 \in Nat
        BY FS_CardinalityType DEF TypeInv
      <3> QED
        BY <3>1, RewardWorth DEF RecordsInv
    <2>2. PICK block : block = MinedBlock(n, gap, ts)
      OBVIOUS
    <2>3. mined' = mined \cup {block}
      BY <1>5, <2>2, MineAppends
    <2>4. block.transactions = {LegacyTransaction(tx) : tx \in ts}
      BY <2>2, MinedBlockFields
    <2> HIDE DEF ts
    <2>5. \A r \in block.transactions : Sound(r)
      BY <2>1, <2>4, WorthSound
    <2>6. \A m \in Nodes : pending'[m] \subseteq pending[m]
      BY <1>5 DEF MinePendingUTXOTransactions, TypeInv, TypeOK
    <2> QED
      BY <2>3, <2>5, <2>6 DEF RecordsInv
  <1>6. ASSUME NEW n \in Nodes, NEW block \in mined, AddBlock(n, block)
        PROVE  RecordsInv'
    <2>1. \A m \in Nodes : pending'[m] \subseteq pending[m]
      BY <1>6 DEF AddBlock, TypeInv, TypeOK
    <2> QED
      BY <1>1, <1>6, <2>1 DEF AddBlock
  <1> QED
    BY <1>2, <1>3, <1>4, <1>5, <1>6 DEF Next

LEMMA ChainsValid ==
    ASSUME ChainInv, TypeInv, RecordsInv
    PROVE  ChainValid
  <1>1. ASSUME NEW n \in Nodes, NEW i \in 1 .. Len(chain[n]) - 1
        PROVE  ValidateBlock(chain[n][i + 1], chain[n][i])
    <2>1. Len(chain[n]) \in Nat \ {0} /\ i + 1 \in 2 .. Len(chain[n])
      BY LatestOfChain DEF ChainInv
    <2>2. /\ chain[n][i + 1] \in mined
          /\ chain[n][i + 1].index = i
          /\ chain[n][i + 1].previousHash = chain[n][i].hash
      BY <2>1 DEF ChainInv, ChainsLinked
    <2>3. chain[n][i].index = i - 1
      <3>1. CASE i = 1
        BY <3>1 DEF ChainInv, ChainsLinked, GenesisBlock
      <3>2. CASE i \in 2 .. Len(chain[n])
        BY <3>2 DEF ChainInv, ChainsLinked
      <3> QED
        BY <2>1, <3>1, <3>2
    <2>4. chain[n][i + 1].difficulty >= 1
      <3>1. chain[n][i + 1] \in Blocks
        BY <2>2 DEF TypeInv, TypeOK
      <3> QED
        BY <3>1, SMTT(30) DEF Blocks
    <2>5. \A r \in chain[n][i + 1].transactions : r.amount > 0 /\ r.fee >= 0
      BY <2>2 DEF RecordsInv, Sound
    <2> QED
      BY <2>2, <2>3, <2>4, <2>5 DEF ValidateBlock
  <1> QED
    BY <1>1 DEF ChainValid

(* validateChain accepts the chain of every node, and the working           *)
(* difficulty is that of its latest block, whatever mix of own and received *)
(* blocks, forks and retargets built it (block.ts, blockchain.ts:402-436).  *)
THEOREM ChainsSoundTheorem == Spec => []ChainsSound
  <1> DEFINE Inv == TypeInv /\ ChainInv /\ RecordsInv
  <1>1. Init => Inv
    <2>1. Init => RecordsInv
      BY DEF Init, RecordsInv
    <2> QED
      BY <2>1, TypeInvInit, ChainInvInit
  <1>2. Inv /\ [Next]_vars => Inv'
    BY TypeInvStep, ChainInvStep, RecordsStep
  <1>3. Inv => ChainsSound
    <2>1. ChainInv => DifficultyFollowsChain
      BY DEF ChainInv, DifficultyOfTip, DifficultyFollowsChain
    <2> QED
      BY <2>1, ChainsValid DEF ChainsSound, TypeInv
  <1> QED
    BY <1>1, <1>2, <1>3, PTL DEF Spec

-----------------------------------------------------------------------------
(* Spending.  On the node that mined it, an output a transaction consumed   *)
(* never comes back, whatever the wallets create, in whatever order and     *)
(* however often it is submitted.                                          *)

(* Transaction ids number the transactions, and each spends something.     *)
CreatedInv ==
    /\ IsFiniteSet(created)
    /\ \A t \in created : \E i \in 1 .. Cardinality(created) : t.id = <<"tx", i>>
    /\ \A t, u \in created : t.id = u.id => t = u
    /\ \A t \in created : t.inputs # {}

(* A block confirms its reward and transactions that wallets created.      *)
BlockIdsInv ==
    \A b \in mined : \A x \in b.transactions :
        x.id = <<"reward", b.hash>> \/ \E t \in created : x.id = t.id

(* The UTXO set of n holds genesis outputs and outputs of confirmed        *)
(* transactions, what waits in the mempool spends from it, and what was    *)
(* confirmed does not.                                                     *)
FromChain(n, txId) == txId[1] = "genesis" \/ txId \in ConfirmedIds(n)

SpendsOnce(n) ==
    /\ \A tx \in pending[n] : tx.inputs \subseteq Outpoints(utxo[n])
    /\ \A u \in utxo[n] : FromChain(n, u.txId)
    /\ \A o \in ConsumedBy(n) : FromChain(n, o[1])
    /\ ConsumedBy(n) \cap Outpoints(utxo[n]) = {}

SpendingInv ==
    /\ CreatedInv
    /\ BlockIdsInv
    /\ pending \in [Nodes -> SUBSET created]
    /\ utxo = [n \in Nodes |-> utxo[n]]
    /\ \A n \in Nodes : MinedAlone(n) => SpendsOnce(n)

Inv == ChainInv /\ MinersKeepBlocks /\ SpendingInv

-----------------------------------------------------------------------------
(* The ids a chain confirms.                                               *)
LEMMA ConfirmedKnown ==
    ASSUME ChainInv, BlockIdsInv, NEW n \in Nodes, NEW id \in ConfirmedIds(n)
    PROVE  \/ \E h \in 1 .. Cardinality(mined) : id = <<"reward", h>>
           \/ \E t \in created : id = t.id
  <1>1. PICK i \in DOMAIN chain[n] : \E x \in chain[n][i].transactions : id = x.id
    BY DEF ConfirmedIds
  <1>2. chain[n][i] \in mined
    <2>1. chain[n][i] \in mined \cup {GenesisBlock}
      BY ChainElements
    <2>2. GenesisBlock.transactions = {}
      BY DEF GenesisBlock
    <2> QED
      BY <1>1, <2>1, <2>2
  <1>3. chain[n][i].hash \in 1 .. Cardinality(mined)
    BY <1>2 DEF ChainInv, HashesIdentify
  <1> QED
    BY <1>1, <1>2, <1>3 DEF BlockIdsInv

LEMMA ConfirmedAppended ==
    ASSUME ChainInv, NEW n \in Nodes, NEW block, Appends(n, block)
    PROVE  /\ ConfirmedIds(n)' = ConfirmedIds(n) \cup {x.id : x \in block.transactions}
           /\ MinedAlone(n)' => MinedAlone(n) /\ block.miner = n
           /\ \A m \in Nodes \ {n} : /\ ConfirmedIds(m)' = ConfirmedIds(m)
                                     /\ MinedAlone(m)' = MinedAlone(m)
  <1>1. /\ Len(chain[n]) \in Nat \ {0}
        /\ DOMAIN chain[n] = 1 .. Len(chain[n])
    BY ChainElements
  <1>2. /\ Len(chain'[n]) = Len(chain[n]) + 1
        /\ chain'[n][Len(chain[n]) + 1] = block
        /\ \A i \in 1 .. Len(chain[n]) : chain'[n][i] = chain[n][i]
        /\ \A m \in Nodes \ {n} : chain'[m] = chain[m]
    BY AppendedChain DEF ChainInv
  <1>3. DOMAIN chain'[n] = 1 .. Len(chain[n]) + 1
    <2>1. chain'[n] = Append(chain[n], block)
      BY DEF Appends, ChainInv, ChainsLinked
    <2>2. chain[n] \in Seq(mined \cup {GenesisBlock})
      BY LatestOfChain DEF ChainInv
    <2> QED
      BY <1>1, <2>1, <2>2
  <1>4. \A i \in DOMAIN chain'[n] : i \in DOMAIN chain[n] \/ i = Len(chain[n]) + 1
    BY <1>1, <1>3
  <1>5. ConfirmedIds(n)' = ConfirmedIds(n) \cup {x.id : x \in block.transactions}
    <2>1. ASSUME NEW id \in ConfirmedIds(n)'
          PROVE  id \in ConfirmedIds(n) \cup {x.id : x \in block.transactions}
      BY <1>1, <1>2, <1>4 DEF ConfirmedIds
    <2>2. ASSUME NEW id \in ConfirmedIds(n)
          PROVE  id \in ConfirmedIds(n)'
      <3>1. PICK i \in DOMAIN chain[n] : id \in {x.id : x \in chain[n][i].transactions}
        BY DEF ConfirmedIds
      <3>2. i \in DOMAIN chain'[n] /\ chain'[n][i] = chain[n][i]
        BY <1>1, <1>2, <1>3
      <3> QED
        BY <3>1, <3>2 DEF ConfirmedIds
    <2>3. ASSUME NEW x \in block.transactions
          PROVE  x.id \in ConfirmedIds(n)'
      <3>1. Len(chain[n]) + 1 \in DOMAIN chain'[n]
        BY <1>1, <1>3
      <3> QED
        BY <1>2, <3>1 DEF ConfirmedIds
    <2> QED
      BY <2>1, <2>2, <2>3
  <1>6. MinedAlone(n)' => MinedAlone(n) /\ block.miner = n
    <2>1. \A i \in 2 .. Len(chain[n]) : i \in 1 .. Len(chain[n]) /\ i \in 2 .. Len(chain'[n])
      BY <1>1, <1>2
    <2>2. Len(chain[n]) + 1 \in 2 .. Len(chain'[n])
      BY <1>1, <1>2
    <2> QED
      BY <1>2, <2>1, <2>2 DEF MinedAlone
  <1> QED
    BY <1>2, <1>5, <1>6 DEF ConfirmedIds, MinedAlone

(* Nothing about a node changes when its variables do not.                 *)
LEMMA SpendsOnceUnchanged ==
    ASSUME NEW n \in Nodes, SpendsOnce(n),
           pending'[n] = pending[n], utxo'[n] = utxo[n],
           ConfirmedIds(n)' = ConfirmedIds(n), ConfirmedBy(n)' = ConfirmedBy(n)
    PROVE  SpendsOnce(n)'
  BY DEF SpendsOnce, FromChain, ConsumedBy

(* A new transaction has an id of its own, so no chain confirms it yet.    *)
LEMMA CreateConfirms ==
    ASSUME Inv, NEW n \in Nodes, NEW from, NEW to, NEW amount,
           CreateUTXOTransaction(n, from, to, amount)
    PROVE  \E t :
             /\ created' = created \cup {t}
             /\ t.id = <<"tx", Cardinality(created) + 1>>
             /\ t.inputs # {}
             /\ \A u \in created : u.id # t.id
             /\ \A m \in Nodes : /\ ConfirmedIds(m)' = ConfirmedIds(m)
                                 /\ ConfirmedBy(m)' = ConfirmedBy(m)
                                 /\ MinedAlone(m)' = MinedAlone(m)
  <1>1. PICK selected \in SufficientSelections(OwnedBy(utxo[n], from), amount) :
            created' = created \cup
               {CreateTransaction(<<"tx", Cardinality(created) + 1>>,
                                  from, to, amount, selected)}
    BY DEF CreateUTXOTransaction
  <1>2. PICK t : t = CreateTransaction(<<"tx", Cardinality(created) + 1>>,
                                       from, to, amount, selected)
    OBVIOUS
  <1>3. created' = created \cup {t}
    BY <1>1, <1>2
  <1>4. t.id = <<"tx", Cardinality(created) + 1>> /\ t.inputs = Outpoints(selected)
    BY <1>2 DEF CreateTransaction
  <1>5. t.inputs # {}
    BY <1>1, <1>4 DEF SufficientSelections, Outpoints
  <1>6. Cardinality(created) \in Nat
    BY FS_CardinalityType DEF Inv, SpendingInv, CreatedInv
  <1>7. \A u \in created : u.id # t.id
    BY <1>4, <1>6 DEF Inv, SpendingInv, CreatedInv
  <1>8. ASSUME NEW m \in Nodes
        PROVE  /\ ConfirmedIds(m)' = ConfirmedIds(m)
               /\ ConfirmedBy(m)' = ConfirmedBy(m)
               /\ MinedAlone(m)' = MinedAlone(m)
    <2>1. t.id \notin ConfirmedIds(m)
      <3>1. \A h \in 1 .. Cardinality(mined) : t.id # <<"reward", h>>
        BY <1>4
      <3> QED
        BY <1>7, <3>1, ConfirmedKnown DEF Inv, SpendingInv
    <2>2. ConfirmedIds(m)' = ConfirmedIds(m) /\ MinedAlone(m)' = MinedAlone(m)
      BY DEF CreateUTXOTransaction, ConfirmedIds, MinedAlone
    <2> QED
      BY <1>3, <2>1, <2>2 DEF ConfirmedBy
  <1> QED
    BY <1>3, <1>4, <1>5, <1>7, <1>8

LEMMA CreateStep ==
    ASSUME Inv, NEW n \in Nodes, NEW from, NEW to, NEW amount,
           CreateUTXOTransaction(n, from, to, amount)
    PROVE  SpendingInv'
  <1>1. PICK t :
             /\ created' = created \cup {t}
             /\ t.id = <<"tx", Cardinality(created) + 1>>
             /\ t.inputs # {}
             /\ \A u \in created : u.id # t.id
             /\ \A m \in Nodes : /\ ConfirmedIds(m)' = ConfirmedIds(m)
                                 /\ ConfirmedBy(m)' = ConfirmedBy(m)
                                 /\ MinedAlone(m)' = MinedAlone(m)
    BY CreateConfirms
  <1>2. Cardinality(created) \in Nat
    BY FS_CardinalityType DEF Inv, SpendingInv, CreatedInv
  <1>3. IsFiniteSet(created') /\ Cardinality(created') = Cardinality(created) + 1
    BY <1>1, FS_AddElement DEF Inv, SpendingInv, CreatedInv
  <1>4. CreatedInv'
    <2>1. \A u \in created' : \E i \in 1 .. Cardinality(created') : u.id = <<"tx", i>>
      BY <1>1, <1>2, <1>3 DEF Inv, SpendingInv, CreatedInv
    <2>2. \A u, v \in created' : u.id = v.id => u = v
      BY <1>1 DEF Inv, SpendingInv, CreatedInv
    <2>3. \A u \in created' : u.inputs # {}
      BY <1>1 DEF Inv, SpendingInv, CreatedInv
    <2> QED
      BY <1>3, <2>1, <2>2, <2>3 DEF CreatedInv
  <1>5. UNCHANGED <<chain, utxo, pending, mined>>
    BY DEF CreateUTXOTransaction
  <1>6. BlockIdsInv' /\ pending' \in [Nodes -> SUBSET created']
    BY <1>1, <1>5 DEF Inv, SpendingInv, BlockIdsInv
  <1>7. \A m \in Nodes : MinedAlone(m)' => SpendsOnce(m)'
    BY <1>1, <1>5, SpendsOnceUnchanged DEF Inv, SpendingInv
  <1> QED
    BY <1>4, <1>5, <1>6, <1>7 DEF Inv, SpendingInv

(* What the mempool accepts spends from the UTXO set, and spends something.*)
LEMMA AddTransactionStep ==
    ASSUME Inv, NEW n \in Nodes, NEW tx \in created, AddUTXOTransaction(n, tx)
    PROVE  SpendingInv'
  <1>1. tx.inputs # {} /\ tx.inputs \subseteq Outpoints(utxo[n])
    BY DEF AddUTXOTransaction, ValidateTransaction, Inv, SpendingInv, CreatedInv
  <1>2. /\ pending' = [pending EXCEPT ![n] = @ \cup {tx}]
        /\ UNCHANGED <<chain, utxo, created, mined>>
    BY DEF AddUTXOTransaction
  <1>3. pending' \in [Nodes -> SUBSET created]
    BY <1>2 DEF Inv, SpendingInv
  <1>4. ASSUME NEW m \in Nodes
        PROVE  /\ ConfirmedIds(m)' = ConfirmedIds(m)
               /\ ConfirmedBy(m)' = ConfirmedBy(m)
               /\ ConsumedBy(m)' = ConsumedBy(m)
               /\ MinedAlone(m)' = MinedAlone(m)
    BY <1>2 DEF ConfirmedIds, ConfirmedBy, ConsumedBy, MinedAlone
  <1>5. ASSUME NEW m \in Nodes, MinedAlone(m)'
        PROVE  SpendsOnce(m)'
    <2>1. SpendsOnce(m)
      BY <1>4, <1>5 DEF Inv, SpendingInv
    <2>2. CASE m # n
      <3>1. pending'[m] = pending[m] /\ utxo'[m] = utxo[m]
        BY <1>2, <2>2 DEF Inv, SpendingInv
      <3> QED
        BY <1>4, <2>1, <3>1, SpendsOnceUnchanged
    <2>3. CASE m = n
      <3>1. pending'[n] = pending[n] \cup {tx}
        BY <1>2 DEF Inv, SpendingInv
      <3> QED
        BY <1>1, <1>2, <1>4, <2>1, <2>3, <3>1 DEF SpendsOnce, FromChain
    <2> QED
      BY <2>2, <2>3
  <1> QED
    BY <1>2, <1>3, <1>5 DEF Inv, SpendingInv, CreatedInv, BlockIdsInv

(* A block of a peer ends the claim about the node that takes it: a miner  *)
(* has all its own blocks already, so the block is somebody else's.        *)
LEMMA AddBlockStep ==
    ASSUME Inv, NEW n \in Nodes, NEW block \in mined, AddBlock(n, block)
    PROVE  SpendingInv'
  <1>1. Appends(n, block) /\ mined' = mined
    BY AddAppends DEF Inv, ChainInv
  <1>2. block.miner # n
    <2>1. block.index = Len(chain[n]) /\ Len(chain[n]) \in Nat
      BY <1>1, LatestOfChain DEF Appends, Inv, ChainInv
    <2>2. block.index \in 1 .. Len(chain[block.miner]) - 1
      BY DEF Inv, MinersKeepBlocks
    <2> QED
      BY <2>1, <2>2
  <1>3. ~MinedAlone(n)'
    BY <1>1, <1>2, ConfirmedAppended DEF Inv
  <1>4. \A m \in Nodes \ {n} :
            /\ pending'[m] = pending[m]
            /\ utxo'[m] = utxo[m]
            /\ ConfirmedIds(m)' = ConfirmedIds(m)
            /\ ConfirmedBy(m)' = ConfirmedBy(m)
            /\ MinedAlone(m)' = MinedAlone(m)
    BY <1>1, ConfirmedAppended DEF AddBlock, ConfirmedBy, Inv, SpendingInv
  <1>5. \A m \in Nodes : MinedAlone(m)' => SpendsOnce(m)'
    BY <1>3, <1>4, SpendsOnceUnchanged DEF Inv, SpendingInv
  <1>6. pending' \in [Nodes -> SUBSET created'] /\ utxo' = [m \in Nodes |-> utxo'[m]]
    <2>1. pending[n] \ KnownIn(pending[n], block) \in SUBSET created
      BY DEF Inv, SpendingInv
    <2> QED
      BY <2>1 DEF AddBlock, Inv, SpendingInv
  <1>7. UNCHANGED <<created, mined>>
    BY DEF AddBlock
  <1> QED
    BY <1>5, <1>6, <1>7 DEF Inv, SpendingInv, CreatedInv, BlockIdsInv

(* What a miner applies to its UTXO set: every transaction is known, so    *)
(* none takes the fallback, and what they spend is gone.                   *)
LEMMA MinedApplied ==
    ASSUME NEW utxos, NEW ts, NEW block,
           block.transactions = {LegacyTransaction(tx) : tx \in ts}
    PROVE  ProcessBlockUTXOs(utxos, ts, block)
               = ApplyUTXOUpdates(utxos, UNION {OutputsOf(tx) : tx \in ts},
                                  UNION {tx.inputs : tx \in ts})
  <1>1. \A tx : LegacyTransaction(tx).id = tx.id
    BY DEF LegacyTransaction
  <1>2. KnownIn(ts, block) = ts
    BY <1>1 DEF KnownIn
  <1>3. FallbackOutputs(ts, block) = {}
    <2>1. ASSUME NEW c \in block.transactions
          PROVE  \E tx \in ts : tx.id = c.id
      BY <1>1
    <2> QED
      BY <2>1 DEF FallbackOutputs
  <1>4. (UNION {OutputsOf(tx) : tx \in ts}) \cup {} = UNION {OutputsOf(tx) : tx \in ts}
    OBVIOUS
  <1> QED
    BY <1>2, <1>3, <1>4 DEF ProcessBlockUTXOs

LEMMA MinedUTXOs ==
    ASSUME NEW utxos, NEW ts, NEW block,
           block.transactions = {LegacyTransaction(tx) : tx \in ts},
           NEW u \in ProcessBlockUTXOs(utxos, ts, block)
    PROVE  \/ u \in utxos /\ \A tx \in ts : Outpoint(u) \notin tx.inputs
           \/ \E tx \in ts : u \in OutputsOf(tx)
  <1>1. u \in ApplyUTXOUpdates(utxos, UNION {OutputsOf(tx) : tx \in ts},
                               UNION {tx.inputs : tx \in ts})
    BY MinedApplied
  <1> QED
    BY <1>1 DEF ApplyUTXOUpdates

LEMMA OutputIds ==
    ASSUME NEW tx, NEW u \in OutputsOf(tx)
    PROVE  u.txId = tx.id
  BY DEF OutputsOf

(* Mining confirms the mempool, which held nothing confirmed before.       *)
LEMMA MineConfirms ==
    ASSUME Inv, NEW n \in Nodes, NEW miner, NEW gap,
           MinePendingUTXOTransactions(n, miner, gap)
    PROVE  LET reward == RewardTransaction(Cardinality(mined) + 1, miner)
           IN  /\ ConfirmedIds(n)' = ConfirmedIds(n)
                       \cup {tx.id : tx \in pending[n] \cup {reward}}
               /\ ConfirmedBy(n)' = ConfirmedBy(n) \cup pending[n]
               /\ reward.id \notin ConfirmedIds(n)
               /\ MinedAlone(n)' => MinedAlone(n)
               /\ pending'[n] = {}
               /\ created' = created
               /\ \A m \in Nodes \ {n} :
                     /\ pending'[m] = pending[m]
                     /\ utxo'[m] = utxo[m]
                     /\ ConfirmedIds(m)' = ConfirmedIds(m)
                     /\ ConfirmedBy(m)' = ConfirmedBy(m)
                     /\ MinedAlone(m)' = MinedAlone(m)
  <1>1. PICK reward : reward = RewardTransaction(Cardinality(mined) + 1, miner)
    OBVIOUS
  <1>2. PICK ts : ts = pending[n] \cup {reward}
    OBVIOUS
  <1>3. PICK block : block = MinedBlock(n, gap, ts)
    OBVIOUS
  <1>4. reward.id = <<"reward", Cardinality(mined) + 1>>
    BY <1>1 DEF RewardTransaction
  <1>5. Appends(n, block)
    BY <1>1, <1>2, <1>3, MineAppends
  <1>6. {x.id : x \in block.transactions} = {tx.id : tx \in ts}
    <2>1. block.transactions = {LegacyTransaction(tx) : tx \in ts}
      BY <1>3, MinedBlockFields
    <2>2. \A tx : LegacyTransaction(tx).id = tx.id
      BY DEF LegacyTransaction
    <2> QED
      BY <2>1, <2>2
  <1>7. ConfirmedIds(n)' = ConfirmedIds(n) \cup {tx.id : tx \in ts}
    BY <1>5, <1>6, ConfirmedAppended DEF Inv
  <1>8. reward.id \notin ConfirmedIds(n) /\ \A t \in created : t.id # reward.id
    <2>1. Cardinality(mined) \in Nat
      BY FS_CardinalityType DEF Inv, ChainInv, HashesIdentify
    <2>2. \A h \in 1 .. Cardinality(mined) : reward.id # <<"reward", h>>
      BY <1>4, <2>1
    <2>3. \A t \in created : t.id # reward.id
      BY <1>4 DEF Inv, SpendingInv, CreatedInv
    <2> QED
      BY <2>2, <2>3, ConfirmedKnown DEF Inv, SpendingInv
  <1>9. ConfirmedBy(n)' = ConfirmedBy(n) \cup pending[n]
    <2>1. pending[n] \subseteq created /\ created' = created
      BY DEF MinePendingUTXOTransactions, BlockTransactions, Inv, SpendingInv
    <2>2. \A t \in created : t.id \in {tx.id : tx \in ts} <=> t \in pending[n]
      BY <1>2, <1>8, <2>1 DEF Inv, SpendingInv, CreatedInv
    <2> QED
      BY <1>7, <2>1, <2>2 DEF ConfirmedBy
  <1>10. \A m \in Nodes \ {n} :
             /\ pending'[m] = pending[m]
             /\ utxo'[m] = utxo[m]
             /\ ConfirmedIds(m)' = ConfirmedIds(m)
             /\ ConfirmedBy(m)' = ConfirmedBy(m)
             /\ MinedAlone(m)' = MinedAlone(m)
    BY <1>5, ConfirmedAppended
       DEF MinePendingUTXOTransactions, BlockTransactions, ConfirmedBy, Inv, SpendingInv
  <1>11. pending'[n] = {} /\ created' = created
    BY DEF MinePendingUTXOTransactions, BlockTransactions, Inv, SpendingInv
  <1>12. MinedAlone(n)' => MinedAlone(n)
    BY <1>5, ConfirmedAppended DEF Inv
  <1> QED
    BY <1>1, <1>2, <1>7, <1>8, <1>9, <1>10, <1>11, <1>12

LEMMA MineStep ==
    ASSUME Inv, NEW n \in Nodes, NEW miner, NEW gap,
           MinePendingUTXOTransactions(n, miner, gap)
    PROVE  SpendingInv'
  <1>1. PICK reward : reward = RewardTransaction(Cardinality(mined) + 1, miner)
    OBVIOUS
  <1>2. PICK ts : ts = pending[n] \cup {reward}
    OBVIOUS
  <1>3. PICK block : block = MinedBlock(n, gap, ts)
    OBVIOUS
  <1>4. /\ reward.id = <<"reward", Cardinality(mined) + 1>>
        /\ reward.inputs = {}
    BY <1>1 DEF RewardTransaction
  <1>5. /\ Appends(n, block)
        /\ block.hash = Cardinality(mined) + 1
        /\ mined' = mined \cup {block}
    BY <1>1, <1>2, <1>3, MineAppends
  <1>6. block.transactions = {LegacyTransaction(tx) : tx \in ts}
    BY <1>3, MinedBlockFields
  <1>7. {x.id : x \in block.transactions} = {tx.id : tx \in ts}
    <2>1. \A tx : LegacyTransaction(tx).id = tx.id
      BY DEF LegacyTransaction
    <2> QED
      BY <1>6, <2>1
  <1>8. /\ utxo' = [utxo EXCEPT ![n] = ProcessBlockUTXOs(@, ts, block)]
        /\ pending' = [pending EXCEPT ![n] = {}]
        /\ created' = created
    BY <1>1, <1>2, <1>3 DEF MinePendingUTXOTransactions, BlockTransactions
  <1>9. BlockIdsInv'
    <2>1. \A x \in block.transactions :
              x.id = <<"reward", block.hash>> \/ \E t \in created : x.id = t.id
      <3>1. pending[n] \subseteq created
        BY DEF Inv, SpendingInv
      <3>2. \A tx \in ts : tx.id = <<"reward", block.hash>> \/ tx \in created
        BY <1>2, <1>4, <1>5, <3>1
      <3> QED
        BY <1>7, <3>2
    <2> QED
      BY <1>5, <1>8, <2>1 DEF BlockIdsInv, Inv, SpendingInv
  <1>10. /\ ConfirmedIds(n)' = ConfirmedIds(n) \cup {tx.id : tx \in ts}
         /\ ConfirmedBy(n)' = ConfirmedBy(n) \cup pending[n]
         /\ reward.id \notin ConfirmedIds(n)
         /\ MinedAlone(n)' => MinedAlone(n)
         /\ \A m \in Nodes \ {n} :
               /\ pending'[m] = pending[m]
               /\ utxo'[m] = utxo[m]
               /\ ConfirmedIds(m)' = ConfirmedIds(m)
               /\ ConfirmedBy(m)' = ConfirmedBy(m)
               /\ MinedAlone(m)' = MinedAlone(m)
    BY <1>1, <1>2, MineConfirms
  <1>11. ASSUME MinedAlone(n)'
         PROVE  SpendsOnce(n)'
    <2>1. SpendsOnce(n)
      BY <1>10, <1>11 DEF Inv, SpendingInv
    <2>2. pending[n] \subseteq created /\ pending'[n] = {}
      BY <1>8 DEF Inv, SpendingInv
    <2>3. ConsumedBy(n)' = ConsumedBy(n) \cup UNION {tx.inputs : tx \in pending[n]}
      BY <1>10 DEF ConsumedBy
    <2>4. \A tx \in pending[n] : tx.id \notin ConfirmedIds(n)
      <3>1. ASSUME NEW tx \in pending[n], tx.id \in ConfirmedIds(n)
            PROVE  FALSE
        <4>1. tx.inputs # {} /\ tx.inputs \subseteq Outpoints(utxo[n])
          BY <2>1, <2>2 DEF SpendsOnce, Inv, SpendingInv, CreatedInv
        <4>2. tx.inputs \subseteq ConsumedBy(n)
          BY <2>2, <3>1 DEF ConsumedBy, ConfirmedBy
        <4> QED
          BY <2>1, <4>1, <4>2 DEF SpendsOnce
      <3> QED
        BY <3>1
    <2>5. \A tx \in ts : tx.id \notin ConfirmedIds(n) /\ tx.id[1] # "genesis"
      <3>1. reward.id[1] # "genesis"
        BY <1>4
      <3>2. \A tx \in created : tx.id[1] # "genesis"
        BY DEF Inv, SpendingInv, CreatedInv
      <3> QED
        BY <1>2, <1>10, <2>2, <2>4, <3>1, <3>2
    <2>6. \A o \in ConsumedBy(n)' : FromChain(n, o[1])
      <3>1. ASSUME NEW tx \in pending[n], NEW o \in tx.inputs
            PROVE  FromChain(n, o[1])
        <4>1. PICK u \in utxo[n] : o = Outpoint(u)
          BY <2>1 DEF SpendsOnce, Outpoints
        <4>2. o[1] = u.txId
          BY <4>1 DEF Outpoint
        <4> QED
          BY <2>1, <4>2 DEF SpendsOnce
      <3> QED
        BY <2>1, <2>3, <3>1 DEF SpendsOnce
    <2>7. \A id : FromChain(n, id) => FromChain(n, id)'
      BY <1>10 DEF FromChain
    <2>8. ASSUME NEW u \in utxo'[n]
           PROVE  \/ /\ u \in utxo[n]
                     /\ \A tx \in ts : Outpoint(u) \notin tx.inputs
                  \/ \E tx \in ts : u \in OutputsOf(tx)
      <3>1. u \in ProcessBlockUTXOs(utxo[n], ts, block)
        BY <1>8, <2>8 DEF Inv, SpendingInv
      <3> QED
        BY <1>6, <3>1, MinedUTXOs
    <2>9. \A u \in utxo'[n] : FromChain(n, u.txId)'
      <3>1. ASSUME NEW tx \in ts, NEW u \in OutputsOf(tx)
            PROVE  FromChain(n, u.txId)'
        BY <1>10, <3>1, OutputIds DEF FromChain
      <3> QED
        BY <2>1, <2>7, <2>8, <3>1 DEF SpendsOnce
    <2>10. ASSUME NEW u \in utxo'[n]
           PROVE  Outpoint(u) \notin ConsumedBy(n)'
      <3>1. CASE /\ u \in utxo[n]
                 /\ \A tx \in ts : Outpoint(u) \notin tx.inputs
        <4>1. Outpoint(u) \notin ConsumedBy(n)
          BY <2>1, <3>1 DEF SpendsOnce, Outpoints
        <4> QED
          BY <1>2, <2>3, <3>1, <4>1
      <3>2. ASSUME NEW tx \in ts, u \in OutputsOf(tx)
            PROVE  Outpoint(u) \notin ConsumedBy(n)'
        <4>1. Outpoint(u)[1] = tx.id
          BY <3>2, OutputIds DEF Outpoint
        <4>2. ~FromChain(n, tx.id)
          BY <2>5 DEF FromChain
        <4> QED
          BY <2>6, <4>1, <4>2
      <3> QED
        BY <2>8, <3>1, <3>2
    <2> QED
      BY <2>2, <2>6, <2>7, <2>9, <2>10 DEF SpendsOnce, Outpoints
  <1>12. \A m \in Nodes : MinedAlone(m)' => SpendsOnce(m)'
    BY <1>10, <1>11, SpendsOnceUnchanged DEF Inv, SpendingInv
  <1>13. pending' \in [Nodes -> SUBSET created'] /\ utxo' = [m \in Nodes |-> utxo'[m]]
    BY <1>8 DEF Inv, SpendingInv
  <1> QED
    BY <1>8, <1>9, <1>12, <1>13 DEF Inv, SpendingInv, CreatedInv

LEMMA InvInit ==
    ASSUME Init
    PROVE  Inv
  <1>1. CreatedInv /\ BlockIdsInv
    BY FS_EmptySet DEF Init, CreatedInv, BlockIdsInv
  <1>2. pending \in [Nodes -> SUBSET created] /\ utxo = [n \in Nodes |-> utxo[n]]
    BY DEF Init
  <1>3. ASSUME NEW n \in Nodes
        PROVE  SpendsOnce(n)
    <2>1. \A u \in utxo[n] : u.txId[1] = "genesis"
      BY LedgerAssumption DEF Init
    <2>2. pending[n] = {} /\ ConsumedBy(n) = {}
      BY DEF Init, ConsumedBy, ConfirmedBy
    <2> QED
      BY <2>1, <2>2 DEF SpendsOnce, FromChain
  <1>4. MinersKeepBlocks
    BY DEF Init, MinersKeepBlocks
  <1> QED
    BY <1>1, <1>2, <1>3, <1>4, ChainInvInit DEF Inv, SpendingInv

LEMMA InvStep ==
    ASSUME Inv, [Next]_vars
    PROVE  Inv'
  <1>1. ChainInv' /\ MinersKeepBlocks'
    BY ChainInvStep, MinersKeepBlocksStep DEF Inv
  <1>2. CASE UNCHANGED vars
    <2>1. CreatedInv' /\ BlockIdsInv'
      BY <1>2 DEF vars, Inv, SpendingInv, CreatedInv, BlockIdsInv
    <2>2. ASSUME NEW n \in Nodes, MinedAlone(n)'
          PROVE  SpendsOnce(n)'
      <3>1. /\ ConfirmedIds(n)' = ConfirmedIds(n)
            /\ ConfirmedBy(n)' = ConfirmedBy(n)
            /\ MinedAlone(n)' = MinedAlone(n)
        BY <1>2 DEF vars, ConfirmedIds, ConfirmedBy, MinedAlone
      <3> QED
        BY <1>2, <2>2, <3>1, SpendsOnceUnchanged DEF vars, Inv, SpendingInv
    <2>3. pending' \in [Nodes -> SUBSET created'] /\ utxo' = [n \in Nodes |-> utxo'[n]]
      BY <1>2 DEF vars, Inv, SpendingInv
    <2> QED
      BY <1>1, <2>1, <2>2, <2>3 DEF Inv, SpendingInv
  <1> QED
    BY <1>1, <1>2, CreateStep, AddTransactionStep, MineStep, AddBlockStep
       DEF Next, Inv

(* On a node that mined its whole chain, no output that one of its         *)
(* transactions consumed is ever spendable again                           *)
(* (processBlockUTXOs, blockchain.ts:463-528, called with the full         *)
(* transactions by minePendingUTXOTransactions).                           *)
THEOREM ConsumedOutputsGoneTheorem == Spec => []ConsumedOutputsGone
  <1>1. Inv => ConsumedOutputsGone
    BY DEF Inv, SpendingInv, SpendsOnce, ConsumedOutputsGone
  <1> QED
    BY <1>1, InvInit, InvStep, PTL DEF Spec

-----------------------------------------------------------------------------
(* Double spends on a single node whose wallets wait.                      *)

OneOutstanding(n) ==
    /\ MinedAlone(n)
    /\ \A t, u \in Outstanding(n) : t = u
    /\ \A t, u \in ConfirmedBy(n) : t # u => t.inputs \cap u.inputs = {}

(* What waits in the mempool of a miner is not confirmed yet.              *)
LEMMA PendingOutstanding ==
    ASSUME Inv, NEW n \in Nodes, MinedAlone(n)
    PROVE  pending[n] \subseteq Outstanding(n)
  <1>1. SpendsOnce(n) /\ pending[n] \subseteq created
    BY DEF Inv, SpendingInv
  <1> SUFFICES ASSUME NEW tx \in pending[n], tx.id \in ConfirmedIds(n)
               PROVE  FALSE
    BY <1>1 DEF Outstanding
  <1>2. tx.inputs # {} /\ tx.inputs \subseteq Outpoints(utxo[n])
    BY <1>1 DEF SpendsOnce, Inv, SpendingInv, CreatedInv
  <1>3. tx.inputs \subseteq ConsumedBy(n)
    BY <1>1 DEF ConsumedBy, ConfirmedBy
  <1> QED
    BY <1>1, <1>2, <1>3 DEF SpendsOnce

(* A node that works alone has mined every block there is, and accepts none *)
(* of them again.                                                          *)
LEMMA OwnBlocksRefused ==
    ASSUME Inv, NEW n, Nodes = {n}, NEW block \in mined
    PROVE  ~AddBlock(n, block)
  <1> SUFFICES ASSUME AddBlock(n, block)
               PROVE  FALSE
    OBVIOUS
  <1>1. block.index = Len(chain[n]) /\ Len(chain[n]) \in Nat
    BY AddAppends, LatestOfChain DEF Appends, Inv, ChainInv
  <1>2. block.miner = n /\ block.index \in 1 .. Len(chain[block.miner]) - 1
    BY DEF Inv, MinersKeepBlocks
  <1> QED
    BY <1>1, <1>2

LEMMA OneOutstandingStep ==
    ASSUME OneSpendAtATime, NEW n, Nodes = {n},
           Inv, OneOutstanding(n), [Next]_vars
    PROVE  OneOutstanding(n)'
  <1>1. ASSUME NEW from, NEW to, NEW amount,
               CreateUTXOTransaction(n, from, to, amount)
        PROVE  OneOutstanding(n)'
    <2>1. PICK t : /\ created' = created \cup {t}
                   /\ ConfirmedIds(n)' = ConfirmedIds(n)
                   /\ ConfirmedBy(n)' = ConfirmedBy(n)
                   /\ MinedAlone(n)' = MinedAlone(n)
      BY <1>1, CreateConfirms
    <2>2. Outstanding(n) = {}
      BY <1>1 DEF CreateUTXOTransaction
    <2>3. Outstanding(n)' \subseteq {t}
      BY <2>1, <2>2 DEF Outstanding
    <2> QED
      BY <2>1, <2>3 DEF OneOutstanding
  <1>2. ASSUME NEW miner, NEW gap, MinePendingUTXOTransactions(n, miner, gap)
        PROVE  OneOutstanding(n)'
    <2>1. /\ ConfirmedIds(n) \subseteq ConfirmedIds(n)'
          /\ ConfirmedBy(n)' = ConfirmedBy(n) \cup pending[n]
          /\ created' = created
      BY <1>2, MineConfirms
    <2>2. Outstanding(n)' \subseteq Outstanding(n)
      BY <2>1 DEF Outstanding
    <2>3. MinedAlone(n)'
      <3>1. \A block \in mined : block.miner = n
        BY DEF Inv, MinersKeepBlocks
      <3>2. \A block \in mined' : block.miner = n
        <4>1. (MinersKeepBlocks)'
          BY <1>2, MinersKeepBlocksStep DEF Inv, Next
        <4> QED
          BY <4>1 DEF MinersKeepBlocks
      <3>3. ChainInv'
        BY <1>2, ChainInvStep DEF Inv, Next
      <3> QED
        BY <3>2, <3>3 DEF ChainInv, ChainsLinked, MinedAlone
    <2>4. ASSUME NEW t \in ConfirmedBy(n), NEW p \in pending[n]
          PROVE  t.inputs \cap p.inputs = {}
      <3>1. SpendsOnce(n)
        BY DEF Inv, SpendingInv, OneOutstanding
      <3>2. t.inputs \subseteq ConsumedBy(n)
        BY DEF ConsumedBy
      <3> QED
        BY <3>1, <3>2 DEF SpendsOnce
    <2>5. \A p, q \in pending[n] : p = q
      BY PendingOutstanding DEF OneOutstanding
    <2> QED
      BY <2>1, <2>2, <2>3, <2>4, <2>5 DEF OneOutstanding
  <1>3. ASSUME NEW tx, AddUTXOTransaction(n, tx)
        PROVE  OneOutstanding(n)'
    BY <1>3 DEF AddUTXOTransaction, OneOutstanding, MinedAlone, Outstanding,
                ConfirmedBy, ConfirmedIds
  <1>4. \A block \in mined : ~AddBlock(n, block)
    BY OwnBlocksRefused
  <1>5. CASE UNCHANGED vars
    BY <1>5 DEF vars, OneOutstanding, MinedAlone, Outstanding, ConfirmedBy,
                ConfirmedIds
  <1> QED
    BY <1>1, <1>2, <1>3, <1>4, <1>5 DEF Next

(* "double-spend prevention" (README.md:336), as far as it goes: one node  *)
(* and wallets that wait for each payment to be confirmed.  Without the    *)
(* waiting, the mempool takes two payments of one output and a block       *)
(* confirms both (addUTXOTransaction, blockchain.ts:270-302).              *)
THEOREM NoDoubleSpendTheorem ==
    ASSUME OneSpendAtATime, NEW n, Nodes = {n}
    PROVE  Spec => []NoDoubleSpend
  <1>1. Init => Inv /\ OneOutstanding(n)
    <2>1. Init => OneOutstanding(n)
      BY DEF Init, OneOutstanding, MinedAlone, Outstanding, ConfirmedBy
    <2> QED
      BY <2>1, InvInit
  <1>2. Inv /\ OneOutstanding(n) /\ [Next]_vars => (Inv /\ OneOutstanding(n))'
    BY InvStep, OneOutstandingStep
  <1>3. Inv /\ OneOutstanding(n) => NoDoubleSpend
    BY DEF OneOutstanding, NoDoubleSpend
  <1> QED
    BY <1>1, <1>2, <1>3, PTL DEF Spec

-----------------------------------------------------------------------------
(* The mempool.                                                            *)

(* A transaction leaves a mempool only by being confirmed in the chain of   *)
(* that node in the same step, whether the node mined the block or received *)
(* it (blockchain.ts:397, 440-447).                                        *)
THEOREM NoTransactionDroppedTheorem == Spec => NoTransactionDropped
  <1> DEFINE Kept == \A n \in Nodes : \A tx \in pending[n] \ pending'[n] :
                        tx.id \in ConfirmedIds(n)'
             AllInv == TypeInv /\ ChainInv
  <1>1. ASSUME ChainInv, TypeInv, [Next]_vars
        PROVE  [Kept]_vars
    <2>1. ASSUME NEW n \in Nodes, NEW from, NEW to, NEW amount,
                 CreateUTXOTransaction(n, from, to, amount)
          PROVE  Kept
      BY <2>1 DEF CreateUTXOTransaction
    <2>2. ASSUME NEW n \in Nodes, NEW tx \in created, AddUTXOTransaction(n, tx)
          PROVE  Kept
      BY <2>2 DEF AddUTXOTransaction, TypeInv, TypeOK
    <2>3. ASSUME NEW n \in Nodes, NEW miner \in Addresses, NEW gap \in BlockGaps,
                 MinePendingUTXOTransactions(n, miner, gap)
          PROVE  Kept
      <3> DEFINE ts == pending[n] \cup {RewardTransaction(Cardinality(mined) + 1, miner)}
      <3>1. PICK block : block = MinedBlock(n, gap, ts)
        OBVIOUS
      <3>2. Appends(n, block)
        BY <2>3, <3>1, MineAppends
      <3>3. block.transactions = {LegacyTransaction(tx) : tx \in ts}
        BY <3>1, MinedBlockFields
      <3>4. ASSUME NEW tx \in pending[n]
            PROVE  tx.id \in ConfirmedIds(n)'
        <4>1. LegacyTransaction(tx) \in block.transactions
          BY <3>3
        <4>2. LegacyTransaction(tx).id = tx.id
          BY DEF LegacyTransaction
        <4> QED
          BY <1>1, <3>2, <4>1, <4>2, ConfirmedAppended
      <3>5. \A m \in Nodes \ {n} : pending'[m] = pending[m]
        BY <1>1, <2>3 DEF MinePendingUTXOTransactions, TypeInv, TypeOK
      <3> QED
        BY <3>4, <3>5
    <2>4. ASSUME NEW n \in Nodes, NEW block \in mined, AddBlock(n, block)
          PROVE  Kept
      <3>1. Appends(n, block)
        BY <1>1, <2>4, AddAppends DEF ChainInv
      <3>2. pending' = [pending EXCEPT ![n] = @ \ KnownIn(pending[n], block)]
        BY <1>1, <2>4 DEF AddBlock, TypeInv, TypeOK
      <3>3. ASSUME NEW tx \in KnownIn(pending[n], block)
            PROVE  tx.id \in ConfirmedIds(n)'
        <4>1. PICK b \in block.transactions : b.id = tx.id
          BY DEF KnownIn
        <4> QED
          BY <1>1, <3>1, <4>1, ConfirmedAppended
      <3> QED
        BY <1>1, <3>2, <3>3 DEF TypeInv, TypeOK
    <2> QED
      BY <1>1, <2>1, <2>2, <2>3, <2>4 DEF Next
  <1>2. Init => AllInv
    BY TypeInvInit, ChainInvInit
  <1>3. AllInv /\ [Next]_vars => AllInv'
    BY TypeInvStep, ChainInvStep
  <1>4. AllInv /\ [Next]_vars => [Kept]_vars
    BY <1>1
  <1>5. Spec => [][Kept]_vars
    <2> HIDE DEF Kept, AllInv
    <2> QED
      BY <1>2, <1>3, <1>4, PTL DEF Spec
  <1> QED
    BY <1>5 DEF NoTransactionDropped

-----------------------------------------------------------------------------
(* The entries of the UTXO sets.  On any network of nodes an outpoint has   *)
(* one entry, worth something: what a block adds replaces what is there     *)
(* under the same key, and adds no key twice, because the ids in a block    *)
(* are distinct.                                                           *)

OneEach(utxos) ==
    \A u, w \in utxos : u.value > 0 /\ (Outpoint(u) = Outpoint(w) => u = w)

DistinctIds(ts) == \A t, u \in ts : t.id = u.id => t = u

RecordIdsInv == \A b \in mined : DistinctIds(b.transactions)

LEMMA AppliedOneEach ==
    ASSUME NEW utxos, OneEach(utxos), NEW additions, OneEach(additions),
           NEW removals
    PROVE  OneEach(ApplyUTXOUpdates(utxos, additions, removals))
  BY DEF OneEach, ApplyUTXOUpdates, Outpoints

LEMMA OutputIndices ==
    ASSUME NEW tx, Worth(tx), NEW i \in DOMAIN tx.outputs
    PROVE  i \in Nat \ {0} /\ tx.outputs[i].value \in Nat \ {0}
  <1>1. tx.outputs \in Seq(TransactionOutputs)
    BY DEF Worth, Payments, Transactions
  <1>2. i \in Nat \ {0} /\ tx.outputs[i] \in TransactionOutputs
    BY <1>1, ElementOfSeq
  <1> QED
    BY <1>2 DEF Worth, TransactionOutputs

LEMMA OutputsOneEach ==
    ASSUME NEW ts, \A tx \in ts : Worth(tx), DistinctIds(ts)
    PROVE  OneEach(UNION {OutputsOf(tx) : tx \in ts})
  <1>1. ASSUME NEW t \in ts, NEW u \in OutputsOf(t)
        PROVE  \E i \in DOMAIN t.outputs :
                  /\ i \in Nat \ {0}
                  /\ u = [txId |-> t.id, outputIndex |-> i - 1,
                          value |-> t.outputs[i].value, to |-> t.outputs[i].to]
                  /\ u.value > 0 /\ Outpoint(u) = <<t.id, i - 1>>
    BY <1>1, OutputIndices DEF OutputsOf, Outpoint
  <1>2. ASSUME NEW t \in ts, NEW u \in OutputsOf(t),
               NEW v \in ts, NEW w \in OutputsOf(v),
               Outpoint(u) = Outpoint(w)
        PROVE  u = w
    <2>1. PICK i \in DOMAIN t.outputs :
              /\ i \in Nat \ {0}
              /\ u = [txId |-> t.id, outputIndex |-> i - 1,
                      value |-> t.outputs[i].value, to |-> t.outputs[i].to]
              /\ Outpoint(u) = <<t.id, i - 1>>
      BY <1>1
    <2>2. PICK j \in DOMAIN v.outputs :
              /\ j \in Nat \ {0}
              /\ w = [txId |-> v.id, outputIndex |-> j - 1,
                      value |-> v.outputs[j].value, to |-> v.outputs[j].to]
              /\ Outpoint(w) = <<v.id, j - 1>>
      BY <1>1
    <2>3. t.id = v.id /\ i = j
      BY <1>2, <2>1, <2>2
    <2>4. t = v
      BY <2>3 DEF DistinctIds
    <2> QED
      BY <2>1, <2>2, <2>3, <2>4
  <1> QED
    BY <1>1, <1>2 DEF OneEach

LEMMA FallbackOneEach ==
    ASSUME NEW known, NEW block, DistinctIds(block.transactions),
           \A r \in block.transactions : Sound(r)
    PROVE  OneEach(FallbackOutputs(known, block))
  BY DEF OneEach, FallbackOutputs, DistinctIds, Sound, Outpoint

(* The mempool and the reward have ids of their own.                       *)
LEMMA BlockTransactionsDistinct ==
    ASSUME SpendingInv, NEW n \in Nodes, NEW miner
    PROVE  DistinctIds(BlockTransactions(n, miner))
  <1>1. PICK reward : reward = RewardTransaction(Cardinality(mined) + 1, miner)
    OBVIOUS
  <1>2. reward.id[1] = "reward"
    BY <1>1 DEF RewardTransaction
  <1>3. \A t \in pending[n] : t \in created /\ t.id[1] = "tx"
    BY DEF SpendingInv, CreatedInv
  <1>4. BlockTransactions(n, miner) = pending[n] \cup {reward}
    BY <1>1 DEF BlockTransactions
  <1> QED
    BY <1>2, <1>3, <1>4 DEF DistinctIds, SpendingInv, CreatedInv

LEMMA BlockTransactionsWorth ==
    ASSUME RecordsInv, TypeInv, NEW n \in Nodes, NEW miner \in Addresses
    PROVE  \A tx \in BlockTransactions(n, miner) : Worth(tx)
  <1>1. Cardinality(mined) + 1 \in Nat
    BY FS_CardinalityType DEF TypeInv
  <1> QED
    BY <1>1, RewardWorth DEF RecordsInv, BlockTransactions

(* What mining does, in the terms of these lemmas.                         *)
LEMMA MineApplies ==
    ASSUME TypeInv, NEW n \in Nodes, NEW miner, NEW gap,
           MinePendingUTXOTransactions(n, miner, gap)
    PROVE  LET ts == BlockTransactions(n, miner)
           IN  /\ \E block : /\ mined' = mined \cup {block}
                             /\ block.transactions = {LegacyTransaction(tx) : tx \in ts}
               /\ utxo'[n] = ApplyUTXOUpdates(
                                 utxo[n], UNION {OutputsOf(tx) : tx \in ts},
                                 UNION {tx.inputs : tx \in ts})
               /\ \A m \in Nodes \ {n} : utxo'[m] = utxo[m]
  <1>1. PICK ts : ts = BlockTransactions(n, miner)
    OBVIOUS
  <1>2. PICK block : block = MinedBlock(n, gap, ts)
    OBVIOUS
  <1>3. block.transactions = {LegacyTransaction(tx) : tx \in ts}
    BY <1>2, MinedBlockFields
  <1>4. /\ mined' = mined \cup {block}
        /\ utxo' = [utxo EXCEPT ![n] = ProcessBlockUTXOs(@, ts, block)]
    BY <1>1, <1>2 DEF MinePendingUTXOTransactions
  <1>5. utxo'[n] = ProcessBlockUTXOs(utxo[n], ts, block)
    BY <1>4 DEF TypeInv, TypeOK
  <1>6. \A m \in Nodes \ {n} : utxo'[m] = utxo[m]
    BY <1>4 DEF TypeInv, TypeOK
  <1>7. utxo'[n] = ApplyUTXOUpdates(utxo[n], UNION {OutputsOf(tx) : tx \in ts},
                                    UNION {tx.inputs : tx \in ts})
    BY <1>3, <1>5, MinedApplied
  <1> QED
    BY <1>1, <1>3, <1>4, <1>6, <1>7

LEMMA KeysStep ==
    ASSUME Inv, TypeInv, RecordsInv, RecordIdsInv, UTXOKeysUnique, [Next]_vars
    PROVE  RecordIdsInv' /\ UTXOKeysUnique'
  <1>1. ASSUME UNCHANGED <<mined, utxo>>
        PROVE  RecordIdsInv' /\ UTXOKeysUnique'
    BY <1>1 DEF RecordIdsInv, UTXOKeysUnique
  <1>2. ASSUME NEW n \in Nodes, NEW miner \in Addresses, NEW gap,
               MinePendingUTXOTransactions(n, miner, gap)
        PROVE  RecordIdsInv' /\ UTXOKeysUnique'
    <2>1. PICK ts : ts = BlockTransactions(n, miner)
      OBVIOUS
    <2>2. PICK block : /\ mined' = mined \cup {block}
                       /\ block.transactions = {LegacyTransaction(tx) : tx \in ts}
      BY <1>2, <2>1, MineApplies
    <2>3. /\ utxo'[n] = ApplyUTXOUpdates(
                            utxo[n], UNION {OutputsOf(tx) : tx \in ts},
                            UNION {tx.inputs : tx \in ts})
          /\ \A m \in Nodes \ {n} : utxo'[m] = utxo[m]
      BY <1>2, <2>1, MineApplies
    <2>4. DistinctIds(ts) /\ \A tx \in ts : Worth(tx)
      BY <2>1, BlockTransactionsDistinct, BlockTransactionsWorth DEF Inv
    <2>5. DistinctIds(block.transactions)
      <3>1. \A tx : LegacyTransaction(tx).id = tx.id
        BY DEF LegacyTransaction
      <3> QED
        BY <2>2, <2>4, <3>1 DEF DistinctIds
    <2>6. OneEach(utxo'[n])
      <3>1. OneEach(utxo[n])
        BY DEF UTXOKeysUnique, OneEach
      <3>2. PICK additions : additions = UNION {OutputsOf(tx) : tx \in ts}
        OBVIOUS
      <3>3. PICK removals : removals = UNION {tx.inputs : tx \in ts}
        OBVIOUS
      <3>4. OneEach(additions)
        BY <2>4, <3>2, OutputsOneEach
      <3>5. utxo'[n] = ApplyUTXOUpdates(utxo[n], additions, removals)
        BY <2>3, <3>2, <3>3
      <3> QED
        BY <3>1, <3>4, <3>5, AppliedOneEach
    <2> QED
      BY <2>2, <2>3, <2>5, <2>6 DEF RecordIdsInv, UTXOKeysUnique, OneEach
  <1>3. ASSUME NEW n \in Nodes, NEW block \in mined, AddBlock(n, block)
        PROVE  RecordIdsInv' /\ UTXOKeysUnique'
    <2>1. PICK remaining : remaining = pending[n] \ KnownIn(pending[n], block)
      OBVIOUS
    <2>2. KnownIn(remaining, block) = {}
      BY <2>1 DEF KnownIn
    <2>3. /\ mined' = mined
          /\ utxo' = [utxo EXCEPT ![n] = ProcessBlockUTXOs(@, remaining, block)]
      BY <1>3, <2>1 DEF AddBlock
    <2>4. /\ utxo'[n] = ProcessBlockUTXOs(utxo[n], remaining, block)
          /\ \A m \in Nodes \ {n} : utxo'[m] = utxo[m]
      BY <2>3 DEF TypeInv, TypeOK
    <2>5. PICK additions : additions = FallbackOutputs(remaining, block)
      OBVIOUS
    <2>6. utxo'[n] = ApplyUTXOUpdates(utxo[n], additions, {})
      <3>1. ({} \cup additions = additions) /\ (UNION {} = {})
        OBVIOUS
      <3>2. /\ (UNION {OutputsOf(tx) : tx \in KnownIn(remaining, block)}) = {}
            /\ (UNION {tx.inputs : tx \in KnownIn(remaining, block)}) = {}
        BY <2>2
      <3> QED
        BY <2>4, <2>5, <3>1, <3>2 DEF ProcessBlockUTXOs
    <2>7. OneEach(utxo'[n])
      <3>1. OneEach(utxo[n])
        BY DEF UTXOKeysUnique, OneEach
      <3>2. OneEach(additions)
        BY <2>5, FallbackOneEach DEF RecordsInv, RecordIdsInv
      <3> QED
        BY <2>6, <3>1, <3>2, AppliedOneEach
    <2> QED
      BY <2>3, <2>4, <2>7 DEF RecordIdsInv, UTXOKeysUnique, OneEach
  <1>4. ASSUME NEW n, NEW from, NEW to, NEW amount,
               CreateUTXOTransaction(n, from, to, amount)
        PROVE  UNCHANGED <<mined, utxo>>
    BY <1>4 DEF CreateUTXOTransaction
  <1>5. ASSUME NEW n, NEW tx, AddUTXOTransaction(n, tx)
        PROVE  UNCHANGED <<mined, utxo>>
    BY <1>5 DEF AddUTXOTransaction
  <1>6. CASE UNCHANGED vars
    BY <1>1, <1>6 DEF vars
  <1> QED
    BY <1>1, <1>2, <1>3, <1>4, <1>5, <1>6 DEF Next

LedgerInv == Inv /\ TypeInv /\ RecordsInv /\ RecordIdsInv /\ UTXOKeysUnique

LEMMA LedgerInvInit ==
    ASSUME Init
    PROVE  LedgerInv
  <1>1. UTXOKeysUnique
    BY LedgerAssumption DEF Init, UTXOKeysUnique
  <1>2. RecordIdsInv /\ RecordsInv
    BY DEF Init, RecordIdsInv, RecordsInv
  <1> QED
    BY <1>1, <1>2, InvInit, TypeInvInit DEF LedgerInv

LEMMA LedgerInvStep ==
    ASSUME LedgerInv, [Next]_vars
    PROVE  LedgerInv'
  <1>1. Inv' /\ RecordsInv' /\ RecordIdsInv' /\ UTXOKeysUnique'
    BY InvStep, RecordsStep, KeysStep DEF LedgerInv
  <1>2. TypeInv'
    BY TypeInvStep DEF LedgerInv, Inv
  <1> QED
    BY <1>1, <1>2 DEF LedgerInv

(* Every UTXO set of every network has one entry per outpoint, each worth  *)
(* something, so that getBalance and getTotalValue count nothing twice and *)
(* nothing at zero (utxo.ts, addUTXO and applyUTXOUpdates).                *)
THEOREM UTXOKeysUniqueTheorem == Spec => []UTXOKeysUnique
  <1>1. LedgerInv => UTXOKeysUnique
    BY DEF LedgerInv
  <1> QED
    BY <1>1, LedgerInvInit, LedgerInvStep, PTL DEF Spec

-----------------------------------------------------------------------------
(* The books of a node that works alone, whose wallets wait.  A block then *)
(* holds at most one payment, which is still covered by the UTXO set when  *)
(* it is mined, and its outputs are new: the total falls by what the       *)
(* payment leaves to fees and rises by the reward.                         *)

LEMMA TotalFeeIsSum ==
    ASSUME NEW S, NEW v, \A t \in S : v[t] = t.fee
    PROVE  TotalFee(S) = SumOf(v, S)
  <1>1. TotalFee(S) =
            (CHOOSE g : g = [s \in SUBSET S |->
                IF s = {} THEN 0 ELSE Pick(s).fee + g[s \ {Pick(s)}]])[S]
    BY DEF TotalFee, MapThenSumSet, MapThenFoldSet, Pick
  <1>2. \A s \in SUBSET S : s # {} => Pick(s).fee = v[Pick(s)]
    BY PickIn
  <1>3. ASSUME NEW g
        PROVE  [s \in SUBSET S |->
                   IF s = {} THEN 0 ELSE Pick(s).fee + g[s \ {Pick(s)}]]
               = [s \in SUBSET S |->
                   IF s = {} THEN 0 ELSE v[Pick(s)] + g[s \ {Pick(s)}]]
    BY <1>2
  <1>4. \A g : Solves(g, v, S) <=>
                 g = [s \in SUBSET S |->
                   IF s = {} THEN 0 ELSE Pick(s).fee + g[s \ {Pick(s)}]]
    BY <1>3 DEF Solves
  <1> QED
    BY ZenonT(40), <1>1, <1>4 DEF SumOf

LEMMA TotalFeeEmpty == TotalFee({}) = 0
  <1> DEFINE v == [t \in {} |-> t.fee]
  <1>1. TotalFee({}) = SumOf(v, {})
    BY TotalFeeIsSum
  <1> HIDE DEF v
  <1> QED
    BY <1>1, SumEmpty

LEMMA TotalFeeAdd ==
    ASSUME NEW S, IsFiniteSet(S), \A t \in S : t.fee \in Int,
           NEW tx, tx \notin S, tx.fee \in Int
    PROVE  /\ TotalFee(S) \in Int
           /\ TotalFee(S \cup {tx}) = tx.fee + TotalFee(S)
  <1> DEFINE v == [t \in S \cup {tx} |-> t.fee]
  <1>1. /\ TotalFee(S) = SumOf(v, S)
        /\ TotalFee(S \cup {tx}) = SumOf(v, S \cup {tx})
        /\ v[tx] = tx.fee
    BY TotalFeeIsSum
  <1>2. \A t \in S \cup {tx} : v[t] \in Int
    OBVIOUS
  <1> HIDE DEF v
  <1> QED
    BY <1>1, <1>2, SumAdd, SumInt

(* How far the UTXO set of n is below what was issued.                     *)
Missing(n) ==
    (TotalValue(Genesis) + MiningReward * (Len(chain[n]) - 1)) - TotalValue(utxo[n])

Accounted(n) ==
    LET burned == TotalFee(ConfirmedBy(n))
        slack  == FeeTolerance * Cardinality(ConfirmedBy(n))
    IN  Missing(n) >= 0 /\ Missing(n) \in burned - slack .. burned + slack

Spendable(n) == \A tx \in pending[n] : ValidateTransaction(tx, utxo[n])

LoneInv(n) == OneOutstanding(n) /\ Accounted(n) /\ Spendable(n)

(* The total of a UTXO set after a batch whose additions are new.          *)
Coins(S) == IsFiniteSet(S) /\ \A u \in S : u.value \in Int

LEMMA AppliedTotal ==
    ASSUME NEW utxos, Coins(utxos), NEW additions, Coins(additions),
           Outpoints(utxos) \cap Outpoints(additions) = {},
           NEW removals, NEW spent,
           spent = {u \in utxos : Outpoint(u) \in removals}
    PROVE  /\ TotalValue(spent) \in Int
           /\ TotalValue(utxos) \in Int
           /\ TotalValue(additions) \in Int
           /\ TotalValue(ApplyUTXOUpdates(utxos, additions, removals))
                  = TotalValue(utxos) - TotalValue(spent) + TotalValue(additions)
  <1> USE DEF Coins
  <1>2. PICK kept : kept = {u \in utxos : Outpoint(u) \notin removals}
    OBVIOUS
  <1>3. /\ spent \subseteq utxos /\ kept \subseteq utxos
        /\ utxos = spent \cup kept /\ spent \cap kept = {}
    BY <1>2
  <1>4. IsFiniteSet(spent) /\ IsFiniteSet(kept)
    BY <1>3, FS_Subset
  <1>5. ApplyUTXOUpdates(utxos, additions, removals) = kept \cup additions
    BY <1>2 DEF ApplyUTXOUpdates, Outpoints
  <1>6. kept \cap additions = {}
    BY <1>3 DEF Outpoints
  <1>7. TotalValue(utxos) = TotalValue(spent) + TotalValue(kept)
    BY <1>3, <1>4, TotalValueUnion
  <1>8. TotalValue(kept \cup additions) = TotalValue(kept) + TotalValue(additions)
    BY <1>3, <1>4, <1>6, TotalValueUnion
  <1>9. /\ TotalValue(spent) \in Int
        /\ TotalValue(kept) \in Int
        /\ TotalValue(additions) \in Int
    BY <1>3, <1>4, TotalValueInt
  <1> QED
    BY <1>5, <1>7, <1>8, <1>9

(* The reward is one new coin.                                             *)
LEMMA RewardOutputs ==
    ASSUME NEW k \in Nat, NEW miner \in Addresses
    PROVE  LET reward == RewardTransaction(k, miner)
           IN  /\ OutputsOf(reward) \subseteq UTXOs
               /\ IsFiniteSet(OutputsOf(reward))
               /\ TotalValue(OutputsOf(reward)) = MiningReward
               /\ reward.inputs = {}
  <1>1. PICK reward : reward = RewardTransaction(k, miner)
    OBVIOUS
  <1>2. /\ reward.outputs = <<[value |-> MiningReward, to |-> miner]>>
        /\ reward.inputs = {}
    BY <1>1 DEF RewardTransaction
  <1>3. PICK u : u = [txId |-> reward.id, outputIndex |-> 0,
                      value |-> MiningReward, to |-> miner]
    OBVIOUS
  <1>4. OutputsOf(reward) = {u}
    <2>1. DOMAIN reward.outputs = {1}
      BY <1>2
    <2>2. OutputsOf(reward) = {[txId |-> reward.id, outputIndex |-> 1 - 1,
                                value |-> reward.outputs[1].value,
                                to |-> reward.outputs[1].to]}
      BY <2>1 DEF OutputsOf
    <2> QED
      BY <1>2, <1>3, <2>2
  <1>5. TotalValue({u}) = MiningReward
    BY <1>3, LedgerAssumption, TotalValueOne
  <1>6. OutputsOf(reward) \subseteq UTXOs /\ IsFiniteSet(OutputsOf(reward))
    BY <1>1, RewardTyped, OutputsTyped DEF Payments
  <1> QED
    BY <1>1, <1>2, <1>4, <1>5, <1>6

(* What a lone node's block adds is new to its UTXO set.                   *)
LEMMA MineFresh ==
    ASSUME Inv, NEW n \in Nodes, MinedAlone(n), NEW miner, NEW gap,
           MinePendingUTXOTransactions(n, miner, gap)
    PROVE  Outpoints(utxo[n])
               \cap Outpoints(UNION {OutputsOf(tx) : tx \in BlockTransactions(n, miner)})
           = {}
  <1>1. PICK reward : reward = RewardTransaction(Cardinality(mined) + 1, miner)
    OBVIOUS
  <1>2. BlockTransactions(n, miner) = pending[n] \cup {reward}
    BY <1>1 DEF BlockTransactions
  <1>3. reward.id \notin ConfirmedIds(n) /\ reward.id[1] = "reward"
    BY <1>1, MineConfirms DEF RewardTransaction
  <1>4. \A tx \in pending[n] : tx.id \notin ConfirmedIds(n) /\ tx.id[1] = "tx"
    BY PendingOutstanding DEF Outstanding, Inv, SpendingInv, CreatedInv
  <1>5. \A tx \in BlockTransactions(n, miner) : ~FromChain(n, tx.id)
    BY <1>2, <1>3, <1>4 DEF FromChain
  <1>6. \A u \in utxo[n] : FromChain(n, u.txId)
    BY DEF Inv, SpendingInv, SpendsOnce
  <1>7. ASSUME NEW u \in utxo[n], NEW tx \in BlockTransactions(n, miner),
               NEW w \in OutputsOf(tx), Outpoint(u) = Outpoint(w)
        PROVE  FALSE
    <2>1. w.txId = tx.id
      BY OutputIds
    <2>2. u.txId = w.txId
      BY <1>7 DEF Outpoint
    <2> QED
      BY <1>5, <1>6, <2>1, <2>2
  <1> QED
    BY <1>7 DEF Outpoints

(* The outputs of a block: those of its payments, and the reward.          *)
LEMMA BlockOutputs ==
    ASSUME LedgerInv, NEW n \in Nodes, NEW miner \in Addresses
    PROVE  LET outs == UNION {OutputsOf(tx) : tx \in pending[n]}
               all  == UNION {OutputsOf(tx) : tx \in BlockTransactions(n, miner)}
           IN  /\ all \subseteq UTXOs
               /\ IsFiniteSet(all)
               /\ TotalValue(outs) \in Int
               /\ TotalValue(all) = TotalValue(outs) + MiningReward
               /\ (UNION {tx.inputs : tx \in BlockTransactions(n, miner)})
                      = UNION {tx.inputs : tx \in pending[n]}
  <1>1. PICK reward : reward = RewardTransaction(Cardinality(mined) + 1, miner)
    OBVIOUS
  <1>2. PICK outs : outs = UNION {OutputsOf(tx) : tx \in pending[n]}
    OBVIOUS
  <1>3. BlockTransactions(n, miner) = pending[n] \cup {reward}
    BY <1>1 DEF BlockTransactions
  <1>4. /\ OutputsOf(reward) \subseteq UTXOs
        /\ IsFiniteSet(OutputsOf(reward))
        /\ TotalValue(OutputsOf(reward)) = MiningReward
        /\ reward.inputs = {}
    <2>1. Cardinality(mined) + 1 \in Nat
      BY FS_CardinalityType DEF LedgerInv, TypeInv
    <2> QED
      BY <1>1, <2>1, RewardOutputs
  <1>5. UNION {OutputsOf(tx) : tx \in BlockTransactions(n, miner)}
            = outs \cup OutputsOf(reward)
    BY <1>2, <1>3
  <1>6. UNION {tx.inputs : tx \in BlockTransactions(n, miner)}
            = UNION {tx.inputs : tx \in pending[n]}
    BY <1>3, <1>4
  <1>7. pending[n] \subseteq Transactions /\ IsFiniteSet(pending[n])
    <2>1. pending[n] \subseteq created
      BY DEF LedgerInv, Inv, SpendingInv
    <2> QED
      BY <2>1, FS_Subset DEF LedgerInv, TypeInv, TypeOK
  <1>8. outs \subseteq UTXOs /\ IsFiniteSet(outs)
    <2>1. outs \subseteq UTXOs
      BY <1>2, <1>7, OutputsTyped
    <2> DEFINE f == [tx \in pending[n] |-> OutputsOf(tx)]
    <2>2. {OutputsOf(tx) : tx \in pending[n]} = {f[tx] : tx \in pending[n]}
      OBVIOUS
    <2> HIDE DEF f
    <2>3. IsFiniteSet({OutputsOf(tx) : tx \in pending[n]})
      BY <1>7, <2>2, ImageFinite
    <2>4. \A s \in {OutputsOf(tx) : tx \in pending[n]} : IsFiniteSet(s)
      BY <1>7, OutputsTyped
    <2> QED
      BY <1>2, <2>1, <2>3, <2>4, FS_UNION
  <1>9. outs \cap OutputsOf(reward) = {}
    <2>1. \A u \in OutputsOf(reward) : u.txId[1] = "reward"
      BY <1>1, OutputIds DEF RewardTransaction
    <2>2. \A tx \in pending[n] : tx.id[1] = "tx"
      BY DEF LedgerInv, Inv, SpendingInv, CreatedInv
    <2>3. \A u \in outs : u.txId[1] = "tx"
      BY <1>2, <2>2, OutputIds
    <2> QED
      BY <2>1, <2>3
  <1>10. \A u \in UTXOs : u.value \in Int
    BY DEF UTXOs
  <1>11. TotalValue(outs \cup OutputsOf(reward)) = TotalValue(outs) + MiningReward
    BY <1>4, <1>8, <1>9, <1>10, TotalValueUnion
  <1>12. IsFiniteSet(outs \cup OutputsOf(reward)) /\ TotalValue(outs) \in Int
    BY <1>4, <1>8, <1>10, FS_Union, TotalValueInt
  <1> QED
    BY <1>2, <1>4, <1>5, <1>6, <1>8, <1>11, <1>12

LEMMA MineTotal ==
    ASSUME LedgerInv, NEW n \in Nodes, MinedAlone(n),
           NEW miner \in Addresses, NEW gap,
           MinePendingUTXOTransactions(n, miner, gap)
    PROVE  LET outs  == UNION {OutputsOf(tx) : tx \in pending[n]}
               spent == {u \in utxo[n] :
                           Outpoint(u) \in UNION {tx.inputs : tx \in pending[n]}}
           IN  /\ TotalValue(utxo[n]) \in Int
               /\ TotalValue(spent) \in Int
               /\ TotalValue(outs) \in Int
               /\ TotalValue(utxo'[n])
                      = TotalValue(utxo[n]) - TotalValue(spent)
                            + (TotalValue(outs) + MiningReward)
  <1>1. PICK all : all = UNION {OutputsOf(tx) : tx \in BlockTransactions(n, miner)}
    OBVIOUS
  <1>2. PICK removals : removals = UNION {tx.inputs : tx \in pending[n]}
    OBVIOUS
  <1>3. /\ all \subseteq UTXOs
        /\ IsFiniteSet(all)
        /\ TotalValue(UNION {OutputsOf(tx) : tx \in pending[n]}) \in Int
        /\ TotalValue(all)
               = TotalValue(UNION {OutputsOf(tx) : tx \in pending[n]}) + MiningReward
        /\ removals = UNION {tx.inputs : tx \in BlockTransactions(n, miner)}
    BY <1>1, <1>2, BlockOutputs
  <1>4. utxo'[n] = ApplyUTXOUpdates(utxo[n], all, removals)
    BY <1>1, <1>3, MineApplies DEF LedgerInv
  <1>5. Outpoints(utxo[n]) \cap Outpoints(all) = {}
    BY <1>1, MineFresh DEF LedgerInv
  <1>6. Coins(utxo[n]) /\ Coins(all)
    BY <1>3 DEF LedgerInv, TypeInv, TypeOK, UTXOs, Coins
  <1>7. PICK spent : spent = {u \in utxo[n] : Outpoint(u) \in removals}
    OBVIOUS
  <1>8. /\ TotalValue(spent) \in Int
        /\ TotalValue(utxo[n]) \in Int
        /\ TotalValue(ApplyUTXOUpdates(utxo[n], all, removals))
               = TotalValue(utxo[n]) - TotalValue(spent) + TotalValue(all)
    BY <1>5, <1>6, <1>7, AppliedTotal
  <1> QED
    BY <1>2, <1>3, <1>4, <1>7, <1>8

(* What one more block of at most one payment does to the books.           *)
LEMMA MineBooks ==
    ASSUME LedgerInv, NEW n \in Nodes, LoneInv(n),
           NEW miner \in Addresses, NEW gap,
           MinePendingUTXOTransactions(n, miner, gap)
    PROVE  Accounted(n)'
  <1>1. PICK g : g = TotalValue(Genesis)
    OBVIOUS
  <1>2. g \in Int
    BY <1>1, LedgerAssumption, TotalValueInt
  <1>3. PICK len \in Nat : len = Len(chain[n])
    BY LatestOfChain DEF LedgerInv, Inv, ChainInv
  <1>4. Len(chain'[n]) = len + 1
    <2>1. \E block : Appends(n, block)
      BY MineAppends
    <2> QED
      BY <1>3, <2>1, AppendedChain DEF LedgerInv, Inv, ChainInv
  <1>5. MiningReward * ((len + 1) - 1) = MiningReward * (len - 1) + MiningReward
    BY LedgerAssumption
  <1>6. MiningReward \in Int /\ MiningReward * (len - 1) \in Int
    BY LedgerAssumption
  <1>7. PICK rewards \in Int : rewards = MiningReward * (len - 1)
    BY <1>6
  <1>8. ConfirmedBy(n)' = ConfirmedBy(n) \cup pending[n]
    BY MineConfirms DEF LedgerInv
  <1>9. PICK confirmed : confirmed = ConfirmedBy(n)
    OBVIOUS
  <1>10. /\ IsFiniteSet(confirmed)
         /\ \A t \in confirmed : t.fee \in Int
    <2>1. confirmed \subseteq created
      BY <1>9 DEF ConfirmedBy
    <2> QED
      BY <2>1, FS_Subset DEF LedgerInv, TypeInv, TypeOK, Transactions
  <1>11. PICK outs : outs = UNION {OutputsOf(tx) : tx \in pending[n]}
    OBVIOUS
  <1>12. PICK spent : spent = {u \in utxo[n] :
                          Outpoint(u) \in UNION {tx.inputs : tx \in pending[n]}}
    OBVIOUS
  <1>13. /\ TotalValue(utxo[n]) \in Int
         /\ TotalValue(spent) \in Int
         /\ TotalValue(outs) \in Int
         /\ TotalValue(utxo'[n]) = TotalValue(utxo[n]) - TotalValue(spent)
                                       + (TotalValue(outs) + MiningReward)
    BY <1>11, <1>12, MineTotal DEF LoneInv, OneOutstanding
  <1>14. PICK old \in Int : old = TotalValue(utxo[n])
    BY <1>13
  <1>15. PICK out \in Int : out = TotalValue(outs)
    BY <1>13
  <1>16. PICK in \in Int : in = TotalValue(spent)
    BY <1>13
  <1>17. Missing(n) = g + rewards - old /\ Missing(n)' = Missing(n) + (in - out)
    <2>1. Missing(n) = g + rewards - old
      BY <1>1, <1>3, <1>7, <1>14 DEF Missing
    <2>2. Missing(n)' = (g + (rewards + MiningReward)) - (old - in + (out + MiningReward))
      <3>1. TotalValue(utxo'[n]) = old - in + (out + MiningReward)
        BY <1>13, <1>14, <1>15, <1>16
      <3>2. MiningReward * (Len(chain'[n]) - 1) = rewards + MiningReward
        BY <1>4, <1>5, <1>7
      <3> QED
        BY <1>1, <3>1, <3>2 DEF Missing
    <2> QED
      BY <1>2, <1>6, <2>1, <2>2
  <1>18. Missing(n) \in Int
    BY <1>2, <1>17
  <1>19. PICK burned : burned = TotalFee(confirmed)
    OBVIOUS
  <1>20. PICK count \in Nat : count = Cardinality(confirmed)
    BY <1>10, FS_CardinalityType
  <1>21. /\ Missing(n) >= 0
         /\ Missing(n) \in burned - FeeTolerance * count .. burned + FeeTolerance * count
    BY <1>9, <1>19, <1>20 DEF LoneInv, Accounted
  <1>22. CASE pending[n] = {}
    <2>1. in = 0 /\ out = 0
      <3>1. outs = {} /\ spent = {}
        BY <1>11, <1>12, <1>22
      <3> QED
        BY <1>15, <1>16, <3>1, TotalValueEmpty
    <2>2. ConfirmedBy(n)' = confirmed
      BY <1>8, <1>9, <1>22
    <2>3. Missing(n)' = Missing(n)
      BY <1>17, <1>18, <2>1
    <2> QED
      BY <1>19, <1>20, <1>21, <2>2, <2>3 DEF Accounted
  <1>23. CASE pending[n] # {}
    <2>1. PICK tx : tx \in pending[n]
      BY <1>23
    <2>2. pending[n] \subseteq Outstanding(n)
      BY PendingOutstanding DEF LedgerInv, LoneInv, OneOutstanding
    <2>3. pending[n] = {tx}
      BY <2>1, <2>2 DEF LoneInv, OneOutstanding
    <2>4. tx \notin confirmed
      BY <1>9, <2>1, <2>2 DEF Outstanding, ConfirmedBy
    <2>5. tx.fee \in Int /\ tx.inputs # {}
      <3>1. tx \in created
        BY <2>1, <2>2 DEF Outstanding
      <3> QED
        BY <3>1 DEF LedgerInv, TypeInv, TypeOK, Transactions, Inv, SpendingInv,
                    CreatedInv
    <2>6. out = OutputValue(tx) /\ in = InputValue(tx, utxo[n])
      <3>1. outs = OutputsOf(tx)
        BY <1>11, <2>3
      <3>2. spent = {u \in utxo[n] : Outpoint(u) \in tx.inputs}
        BY <1>12, <2>3
      <3> QED
        BY <1>15, <1>16, <3>1, <3>2 DEF OutputValue, InputValue
    <2>7. in >= out /\ in - out - tx.fee \in -FeeTolerance .. FeeTolerance
      <3>1. ValidateTransaction(tx, utxo[n])
        BY <2>1 DEF LoneInv, Spendable
      <3> QED
        BY <2>5, <2>6, <3>1 DEF ValidateTransaction, FeeMatches
    <2>8. burned \in Int /\ TotalFee(confirmed \cup {tx}) = tx.fee + burned
      BY <1>10, <1>19, <2>4, <2>5, TotalFeeAdd
    <2>9. Cardinality(confirmed \cup {tx}) = count + 1
      BY <1>10, <1>20, <2>4, FS_AddElement
    <2>10. ConfirmedBy(n)' = confirmed \cup {tx}
      BY <1>8, <1>9, <2>3
    <2>11. FeeTolerance = 100
      BY DEF FeeTolerance
    <2>12. /\ Missing(n)' >= 0
           /\ Missing(n)' \in (tx.fee + burned) - FeeTolerance * (count + 1)
                                .. (tx.fee + burned) + FeeTolerance * (count + 1)
      BY <1>17, <1>18, <1>21, <2>5, <2>7, <2>8, <2>11
    <2> QED
      BY <2>8, <2>9, <2>10, <2>12 DEF Accounted
  <1> QED
    BY <1>22, <1>23

LEMMA LoneStep ==
    ASSUME OneSpendAtATime, NEW n, Nodes = {n},
           LedgerInv, LoneInv(n), [Next]_vars
    PROVE  LoneInv(n)'
  <1>1. OneOutstanding(n)'
    BY OneOutstandingStep DEF LedgerInv, LoneInv
  <1>2. ASSUME NEW from, NEW to, NEW amount,
               CreateUTXOTransaction(n, from, to, amount)
        PROVE  LoneInv(n)'
    <2>1. ConfirmedBy(n)' = ConfirmedBy(n)
      BY <1>2, CreateConfirms DEF LedgerInv
    <2>2. UNCHANGED <<chain, utxo, pending>>
      BY <1>2 DEF CreateUTXOTransaction
    <2>3. Missing(n)' = Missing(n)
      BY <2>2 DEF Missing
    <2> QED
      BY <1>1, <2>1, <2>2, <2>3 DEF LoneInv, Accounted, Spendable
  <1>3. ASSUME NEW tx \in created, AddUTXOTransaction(n, tx)
        PROVE  LoneInv(n)'
    <2>1. UNCHANGED <<chain, utxo, created>> /\ ValidateTransaction(tx, utxo[n])
      BY <1>3 DEF AddUTXOTransaction
    <2>2. pending'[n] = pending[n] \cup {tx}
      BY <1>3 DEF AddUTXOTransaction, LedgerInv, TypeInv, TypeOK
    <2>3. Missing(n)' = Missing(n) /\ ConfirmedBy(n)' = ConfirmedBy(n)
      BY <2>1 DEF Missing, ConfirmedBy, ConfirmedIds
    <2> QED
      BY <1>1, <2>1, <2>2, <2>3 DEF LoneInv, Accounted, Spendable
  <1>4. ASSUME NEW miner \in Addresses, NEW gap,
               MinePendingUTXOTransactions(n, miner, gap)
        PROVE  LoneInv(n)'
    <2>1. Accounted(n)'
      BY <1>4, MineBooks
    <2>2. pending'[n] = {}
      BY <1>4, MineConfirms DEF LedgerInv
    <2> QED
      BY <1>1, <2>1, <2>2 DEF LoneInv, Spendable
  <1>5. \A block \in mined : ~AddBlock(n, block)
    BY OwnBlocksRefused DEF LedgerInv
  <1>6. CASE UNCHANGED vars
    <2>1. Missing(n)' = Missing(n) /\ ConfirmedBy(n)' = ConfirmedBy(n)
      BY <1>6 DEF vars, Missing, ConfirmedBy, ConfirmedIds
    <2> QED
      BY <1>1, <1>6, <2>1 DEF vars, LoneInv, Accounted, Spendable
  <1> QED
    BY <1>2, <1>3, <1>4, <1>5, <1>6 DEF Next

LEMMA LoneInit ==
    ASSUME NEW n, Nodes = {n}, Init
    PROVE  LedgerInv /\ LoneInv(n)
  <1>1. OneOutstanding(n) /\ ConfirmedBy(n) = {} /\ pending[n] = {}
    BY DEF Init, OneOutstanding, MinedAlone, Outstanding, ConfirmedBy
  <1>2. Missing(n) = 0
    <2>1. TotalValue(Genesis) \in Int
      BY LedgerAssumption, TotalValueInt
    <2>2. utxo[n] = Genesis /\ Len(chain[n]) = 1
      BY DEF Init
    <2>3. MiningReward * (1 - 1) = 0
      BY LedgerAssumption
    <2> QED
      BY <2>1, <2>2, <2>3 DEF Missing
  <1>3. TotalFee({}) = 0 /\ Cardinality({}) = 0
    BY TotalFeeEmpty, FS_EmptySet
  <1>4. Accounted(n)
    BY <1>1, <1>2, <1>3 DEF Accounted, FeeTolerance
  <1> QED
    BY <1>1, <1>4, LedgerInvInit DEF LoneInv, Spendable

(* A node that works alone, with wallets that wait for each payment, keeps *)
(* its books: every entry of the UTXO set is there once, what is missing   *)
(* from the issue is what the confirmed transactions recorded as their     *)
(* fees, up to the tolerance of each (utxo-transaction.ts,                 *)
(* validateTransaction), and everything in the mempool can be mined now.   *)
THEOREM LedgerSoundTheorem ==
    ASSUME OneSpendAtATime, NEW n, Nodes = {n}
    PROVE  Spec => []LedgerSound
  <1>1. Init => LedgerInv /\ LoneInv(n)
    BY LoneInit
  <1>2. LedgerInv /\ LoneInv(n) /\ [Next]_vars => (LedgerInv /\ LoneInv(n))'
    BY LedgerInvStep, LoneStep
  <1>3. LedgerInv /\ LoneInv(n) => LedgerSound
    <2>1. Accounted(n) => SupplyAccounted
      <3> SUFFICES ASSUME Accounted(n)
                   PROVE  SupplyAccounted
        OBVIOUS
      <3>1. PICK burned : burned = TotalFee(ConfirmedBy(n))
        OBVIOUS
      <3>2. PICK slack : slack = FeeTolerance * Cardinality(ConfirmedBy(n))
        OBVIOUS
      <3>3. PICK issued : issued = TotalValue(Genesis) + MiningReward * (Len(chain[n]) - 1)
        OBVIOUS
      <3>4. /\ issued - TotalValue(utxo[n]) >= 0
            /\ issued - TotalValue(utxo[n]) \in burned - slack .. burned + slack
        <4>1. Missing(n) = issued - TotalValue(utxo[n])
          BY <3>3, Zenon DEF Missing
        <4>2. Missing(n) >= 0 /\ Missing(n) \in burned - slack .. burned + slack
          BY <3>1, <3>2, Zenon DEF Accounted
        <4> QED
          BY <4>1, <4>2
      <3> QED
        BY <3>1, <3>2, <3>3, <3>4, Zenon DEF SupplyAccounted
    <2> QED
      BY <2>1 DEF LedgerInv, LoneInv, LedgerSound, Spendable, MempoolSpendable
  <1> QED
    BY <1>1, <1>2, <1>3, PTL DEF Spec

-----------------------------------------------------------------------------
(* The abstract ledger.  The steps of a node that works alone settle, or   *)
(* leave what can be spent alone.                                          *)

LEMMA BooksValues ==
    /\ \A u : Books!Outpoint(u) = Outpoint(u)
    /\ \A S : Books!Outpoints(S) = Outpoints(S)
    /\ \A S : Books!TotalValue(S) = TotalValue(S)
  <1>1. \A u : Books!Outpoint(u) = Outpoint(u)
    BY DEF Books!Outpoint, Outpoint
  <1>2. \A S : Books!Outpoints(S) = Outpoints(S)
    BY DEF Books!Outpoints, Outpoints, Books!Outpoint, Outpoint
  <1>3. \A S : Books!TotalValue(S) = TotalValue(S)
    BY Zenon DEF Books!TotalValue, TotalValue, Books!MapThenSumSet, MapThenSumSet,
              Books!MapThenFoldSet, MapThenFoldSet
  <1> QED
    BY <1>1, <1>2, <1>3

(* What waits in the mempool, at most one payment, is covered by what it   *)
(* spends.                                                                 *)
LEMMA PaymentsCovered ==
    ASSUME LedgerInv, NEW n \in Nodes, LoneInv(n)
    PROVE  LET outs  == UNION {OutputsOf(tx) : tx \in pending[n]}
               used  == {u \in utxo[n] :
                           Outpoint(u) \in UNION {tx.inputs : tx \in pending[n]}}
           IN  TotalValue(outs) <= TotalValue(used)
  <1>1. PICK outs : outs = UNION {OutputsOf(tx) : tx \in pending[n]}
    OBVIOUS
  <1>2. PICK used : used = {u \in utxo[n] :
                        Outpoint(u) \in UNION {tx.inputs : tx \in pending[n]}}
    OBVIOUS
  <1>3. CASE pending[n] = {}
    <2>1. outs = {} /\ used = {}
      BY <1>1, <1>2, <1>3
    <2>2. TotalValue(outs) <= TotalValue(used)
      BY <2>1, TotalValueEmpty
    <2> QED
      BY <1>1, <1>2, <2>2
  <1>4. ASSUME NEW tx \in pending[n]
        PROVE  TotalValue(outs) <= TotalValue(used)
    <2>1. pending[n] \subseteq Outstanding(n)
      BY PendingOutstanding DEF LedgerInv, LoneInv, OneOutstanding
    <2>2. pending[n] = {tx} /\ tx \in created
      BY <2>1 DEF LoneInv, OneOutstanding, Outstanding
    <2>3. ValidateTransaction(tx, utxo[n]) /\ tx.inputs # {}
      BY <2>2 DEF LoneInv, Spendable, LedgerInv, Inv, SpendingInv, CreatedInv
    <2>4. InputValue(tx, utxo[n]) >= OutputValue(tx)
      BY <2>3 DEF ValidateTransaction
    <2>5. outs = OutputsOf(tx) /\ used = {u \in utxo[n] : Outpoint(u) \in tx.inputs}
      BY <1>1, <1>2, <2>2
    <2>6. TotalValue(outs) = OutputValue(tx) /\ TotalValue(used) = InputValue(tx, utxo[n])
      BY <2>5 DEF OutputValue, InputValue
    <2> QED
      BY <2>4, <2>6
  <1> QED
    BY <1>1, <1>2, <1>3, <1>4

(* What one block of such a node does to the coins.                        *)
LEMMA MineSettles ==
    ASSUME LedgerInv, NEW n \in Nodes, LoneInv(n), SpendsOnce(n)',
           NEW miner \in Addresses, NEW gap,
           MinePendingUTXOTransactions(n, miner, gap)
    PROVE  \E used, made :
              /\ ConsumedBy(n) \subseteq ConsumedBy(n)'
              /\ ConsumedBy(n)' \ ConsumedBy(n) \subseteq Outpoints(utxo[n])
              /\ Outpoints(utxo'[n]) \cap ConsumedBy(n)' = {}
              /\ used = {c \in utxo[n] : Outpoint(c) \in ConsumedBy(n)' \ ConsumedBy(n)}
              /\ made = {c \in utxo'[n] : Outpoint(c) \notin Outpoints(utxo[n])}
              /\ utxo'[n] = (utxo[n] \ used) \cup made
              /\ TotalValue(made) <= TotalValue(used) + MiningReward
  <1>1. PICK removals : removals = UNION {tx.inputs : tx \in pending[n]}
    OBVIOUS
  <1>2. PICK all : all = UNION {OutputsOf(tx) : tx \in BlockTransactions(n, miner)}
    OBVIOUS
  <1>3. PICK used : used = {u \in utxo[n] : Outpoint(u) \in removals}
    OBVIOUS
  <1>4. MinedAlone(n) /\ SpendsOnce(n)
    BY DEF LoneInv, OneOutstanding, LedgerInv, Inv, SpendingInv
  <1>5. ConsumedBy(n)' = ConsumedBy(n) \cup removals
    <2>1. ConfirmedBy(n)' = ConfirmedBy(n) \cup pending[n]
      BY MineConfirms DEF LedgerInv
    <2> QED
      BY <1>1, <2>1 DEF ConsumedBy
  <1>6. removals \subseteq Outpoints(utxo[n])
    BY <1>1, <1>4 DEF SpendsOnce
  <1>7. ConsumedBy(n)' \ ConsumedBy(n) = removals
    BY <1>4, <1>5, <1>6 DEF SpendsOnce
  <1>8. Outpoints(utxo'[n]) \cap ConsumedBy(n)' = {}
    BY DEF SpendsOnce
  <1>9. /\ TotalValue(UNION {OutputsOf(tx) : tx \in pending[n]}) \in Int
        /\ TotalValue(all)
               = TotalValue(UNION {OutputsOf(tx) : tx \in pending[n]}) + MiningReward
        /\ removals = UNION {tx.inputs : tx \in BlockTransactions(n, miner)}
    BY <1>1, <1>2, BlockOutputs
  <1>10. utxo'[n] = ApplyUTXOUpdates(utxo[n], all, removals)
    BY <1>2, <1>9, MineApplies DEF LedgerInv
  <1>11. Outpoints(utxo[n]) \cap Outpoints(all) = {}
    BY <1>2, <1>4, MineFresh DEF LedgerInv
  <1>12. \A c \in all : Outpoint(c) \notin Outpoints(utxo[n])
    BY <1>11 DEF Outpoints
  <1>13. \A c \in utxo[n] : Outpoint(c) \in Outpoints(utxo[n]) /\ Outpoint(c) \notin Outpoints(all)
    BY <1>11 DEF Outpoints
  <1>14. utxo'[n] = (utxo[n] \ used) \cup all
    BY <1>3, <1>10, <1>13 DEF ApplyUTXOUpdates
  <1>15. all = {c \in utxo'[n] : Outpoint(c) \notin Outpoints(utxo[n])}
    BY <1>12, <1>13, <1>14
  <1>16. TotalValue(all) <= TotalValue(used) + MiningReward
    <2>1. TotalValue(UNION {OutputsOf(tx) : tx \in pending[n]}) <= TotalValue(used)
      BY <1>1, <1>3, PaymentsCovered
    <2>2. TotalValue(used) \in Int
      <3>1. used \subseteq utxo[n] /\ IsFiniteSet(utxo[n]) /\ \A u \in utxo[n] : u.value \in Int
        BY <1>3 DEF LedgerInv, TypeInv, TypeOK, UTXOs
      <3>2. IsFiniteSet(used) /\ \A u \in used : u.value \in Int
        BY <3>1, FS_Subset
      <3> QED
        BY <3>2, TotalValueInt
    <2> QED
      BY <1>9, <2>1, <2>2, LedgerAssumption
  <1>17. used = {c \in utxo[n] : Outpoint(c) \in ConsumedBy(n)' \ ConsumedBy(n)}
    BY <1>3, <1>7
  <1> QED
    BY <1>5, <1>6, <1>7, <1>8, <1>14, <1>15, <1>16, <1>17

LEMMA SettleStep ==
    ASSUME OneSpendAtATime, NEW n, Nodes = {n},
           LedgerInv, LoneInv(n), (LedgerInv /\ LoneInv(n))', [Next]_vars
    PROVE  [Books!Settle]_(Books!ledgerVars)
  <1>1. /\ UNION {utxo[m] : m \in Nodes} = utxo[n]
        /\ UNION {utxo'[m] : m \in Nodes} = utxo'[n]
        /\ UNION {ConsumedBy(m) : m \in Nodes} = ConsumedBy(n)
        /\ (UNION {ConsumedBy(m) : m \in Nodes})' = ConsumedBy(n)'
    OBVIOUS
  <1>2. ASSUME UNCHANGED utxo, ConfirmedBy(n)' = ConfirmedBy(n)
        PROVE  UNCHANGED Books!ledgerVars
    <2>1. ConsumedBy(n)' = ConsumedBy(n)
      BY <1>2 DEF ConsumedBy
    <2> QED
      BY <1>1, <1>2, <2>1 DEF Books!ledgerVars
  <1>3. ASSUME NEW from, NEW to, NEW amount,
               CreateUTXOTransaction(n, from, to, amount)
        PROVE  UNCHANGED Books!ledgerVars
    <2>1. ConfirmedBy(n)' = ConfirmedBy(n)
      BY <1>3, CreateConfirms DEF LedgerInv
    <2> QED
      BY <1>2, <1>3, <2>1 DEF CreateUTXOTransaction
  <1>4. ASSUME NEW tx \in created, AddUTXOTransaction(n, tx)
        PROVE  UNCHANGED Books!ledgerVars
    <2>1. UNCHANGED <<chain, utxo, created>>
      BY <1>4 DEF AddUTXOTransaction
    <2>2. ConfirmedBy(n)' = ConfirmedBy(n)
      BY <2>1 DEF ConfirmedBy, ConfirmedIds
    <2> QED
      BY <1>2, <2>1, <2>2
  <1>5. ASSUME NEW miner \in Addresses, NEW gap,
               MinePendingUTXOTransactions(n, miner, gap)
        PROVE  Books!Settle
    <2>1. SpendsOnce(n)'
      BY DEF LoneInv, OneOutstanding, LedgerInv, Inv, SpendingInv
    <2>2. PICK used, made :
              /\ ConsumedBy(n) \subseteq ConsumedBy(n)'
              /\ ConsumedBy(n)' \ ConsumedBy(n) \subseteq Outpoints(utxo[n])
              /\ Outpoints(utxo'[n]) \cap ConsumedBy(n)' = {}
              /\ used = {c \in utxo[n] : Outpoint(c) \in ConsumedBy(n)' \ ConsumedBy(n)}
              /\ made = {c \in utxo'[n] : Outpoint(c) \notin Outpoints(utxo[n])}
              /\ utxo'[n] = (utxo[n] \ used) \cup made
              /\ TotalValue(made) <= TotalValue(used) + MiningReward
      BY <1>5, <2>1, MineSettles
    <2>3. Books!Consumed = used
      BY <1>1, <2>2, BooksValues DEF Books!Consumed
    <2>4. Books!Made = made
      BY <1>1, <2>2, BooksValues DEF Books!Made
    <2> QED
      BY <1>1, <2>2, <2>3, <2>4, BooksValues DEF Books!Settle
  <1>6. CASE UNCHANGED vars
    BY <1>2, <1>6 DEF vars, ConfirmedBy, ConfirmedIds
  <1>7. \A block \in mined : ~AddBlock(n, block)
    BY OwnBlocksRefused DEF LedgerInv
  <1> QED
    BY <1>3, <1>4, <1>5, <1>6, <1>7 DEF Next

(* "UTXO Transaction Model: Complete UTXO implementation with              *)
(* inputs/outputs, double-spend prevention, and validation"                *)
(* (README.md:336), for a node that works alone with wallets that wait for *)
(* each payment: what its blocks do to the UTXO set is a ledger of coins   *)
(* that are consumed at most once and never made from nothing but the      *)
(* reward (minePendingUTXOTransactions, processBlockUTXOs).                *)
THEOREM SettlesLedgerTheorem ==
    ASSUME OneSpendAtATime, NEW n, Nodes = {n}
    PROVE  Spec => SettlesLedger
  <1>1. Init => Books!LedgerInit
    <2> SUFFICES ASSUME Init
                 PROVE  Books!LedgerInit
      OBVIOUS
    <2>1. ConsumedBy(n) = {}
      BY DEF Init, ConsumedBy, ConfirmedBy
    <2>2. UNION {utxo[m] : m \in Nodes} = Genesis
      BY DEF Init
    <2> QED
      BY <2>1, <2>2 DEF Books!LedgerInit
  <1>2. Init => LedgerInv /\ LoneInv(n)
    BY LoneInit
  <1>3. LedgerInv /\ LoneInv(n) /\ [Next]_vars => (LedgerInv /\ LoneInv(n))'
    BY LedgerInvStep, LoneStep
  <1>4. LedgerInv /\ LoneInv(n) /\ (LedgerInv /\ LoneInv(n))' /\ [Next]_vars
            => [Books!Settle]_(Books!ledgerVars)
    BY SettleStep
  <1> QED
    BY <1>1, <1>2, <1>3, <1>4, PTL DEF Spec, SettlesLedger, Books!LedgerSpec
=============================================================================
