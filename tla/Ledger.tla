------------------------------- MODULE Ledger -------------------------------
(***************************************************************************)
(* The in-memory blockchain of every node: class Blockchain                *)
(* (blockchain.ts) with BlockManager (block.ts), UTXOManager (utxo.ts) and *)
(* UTXOTransactionManager (utxo-transaction.ts).                           *)
(*                                                                         *)
(* Nodes run the same code and share no memory.  Transactions built by     *)
(* wallets and blocks mined by nodes reach any node any number of times,   *)
(* in any order and arbitrarily late: `created` and `mined` hold every     *)
(* one there is, and a node may be handed any of them at any time.         *)
(* Persistence is the subject of ChainStore.                               *)
(***************************************************************************)
EXTENDS UTXOTransactions, Difficulty, SequencesExt

CONSTANTS Nodes,               \* the nodes of the network
          Addresses,           \* wallet and miner addresses
          Genesis,             \* genesis allocations, a set of UTXOs
          InitialDifficulty,   \* networkParams.initialDifficulty
          MiningReward,        \* networkParams.miningReward
          Amounts,             \* amounts a wallet is asked to send
          BlockGaps,           \* time between a block and its predecessor
          MinesEmptyBlocks,    \* whether a miner runs with an empty mempool
          OneSpendAtATime,     \* whether wallets wait for the confirmation
                               \*   of a payment before making the next one
          MaxTransactions,     \* bound: transactions built by wallets
          MaxBlocks            \* bound: blocks mined in the whole network

ASSUME LedgerAssumption ==
    /\ IsFiniteSet(Genesis)
    /\ Genesis \subseteq [txId: {"genesis"} \X Nat, outputIndex: Nat,
                           value: Nat \ {0}, to: Addresses]
    /\ \A u, w \in Genesis : Outpoint(u) = Outpoint(w) => u = w
    /\ InitialDifficulty \in Nat \ {0}
    /\ MiningReward \in Nat \ {0}
    /\ Amounts \subseteq Nat \ {0}
    /\ BlockGaps \subseteq Int
    /\ MinesEmptyBlocks \in BOOLEAN
    /\ OneSpendAtATime \in BOOLEAN
    /\ MaxTransactions \in Nat
    /\ MaxBlocks \in Nat

VARIABLES chain,      \* blocks: per node, the sequence of accepted blocks
          utxo,       \* utxoManager: per node, the UTXO set
          pending,    \* pendingUTXOTransactions: per node, the mempool
                      \*   (a set: no input can be another entry's output)
          difficulty, \* difficulty: per node
          created,    \* every transaction a wallet has built
          mined       \* every block a node has mined

vars == <<chain, utxo, pending, difficulty, created, mined>>

-----------------------------------------------------------------------------
(* Blocks.  `hash` is a number that identifies the content (SHA-256 taken  *)
(* as injective); `transactions` are the legacy records a block carries,   *)
(* which name one recipient and one amount and no inputs.  `miner` is the  *)
(* node that mined the block: the code has no such field, only properties  *)
(* read it.                                                                *)

GenesisBlock ==
    [hash |-> 0, index |-> 0, previousHash |-> -1, time |-> 0,
     difficulty |-> InitialDifficulty, miner |-> "genesis",
     transactions |-> {}]

LegacyTransaction(tx) ==
    [id |-> tx.id, to |-> tx.outputs[1].to,
     amount |-> OutputValue(tx), fee |-> tx.fee]

LatestBlock(n) == Last(chain[n])

BlockTimes(n) == [i \in DOMAIN chain[n] |-> chain[n][i].time]

NextDifficulty(n) == CalculateNextDifficulty(difficulty[n], BlockTimes(n))

(* Fault: the previous hash is not compared.                               *)
ValidateBlockIndexOnly(block, previous) ==
    /\ block.index = previous.index + 1
    /\ block.difficulty >= 1

(* BlockManager.validateBlock.                                             *)
ValidateBlock(block, previous) ==
    /\ block.index = previous.index + 1
    /\ block.previousHash = previous.hash
    /\ block.difficulty >= 1
    /\ \A b \in block.transactions : b.amount > 0 /\ b.fee >= 0

(* Fault: the adjustment is expected one block early.                      *)
DifficultyAcceptableEarly(n, block) ==
    \/ block.difficulty = difficulty[n]
    \/ /\ ShouldAdjustDifficulty(block.index + 1)
       /\ block.difficulty = NextDifficulty(n)

(* The difficulty rule of addBlock.                                        *)
DifficultyAcceptable(n, block) ==
    \/ block.difficulty = difficulty[n]
    \/ /\ ShouldAdjustDifficulty(block.index)
       /\ block.difficulty = NextDifficulty(n)

AcceptsBlock(n, block) ==
    /\ ValidateBlock(block, LatestBlock(n))
    /\ DifficultyAcceptable(n, block)

(* Fault: the node keeps its difficulty when it accepts a block.           *)
AdjustedDifficultyNever(current, block) == current

(* addBlock takes over the difficulty of an adjustment block.              *)
AdjustedDifficulty(current, block) ==
    IF ShouldAdjustDifficulty(block.index) THEN block.difficulty ELSE current

-----------------------------------------------------------------------------
(* processBlockUTXOs: `known` are the full transactions the node can still *)
(* find by id; a block transaction it cannot find becomes one output of    *)
(* the whole amount, and spends nothing.                                   *)

(* Fault: every transaction at hand is taken for one of the block.         *)
KnownInAll(known, block) == known

KnownIn(known, block) ==
    {tx \in known : \E b \in block.transactions : b.id = tx.id}

(* Fault: the fallback output is made for every transaction.               *)
FallbackOutputsForAll(known, block) ==
    {[txId |-> b.id, outputIndex |-> 0, value |-> b.amount, to |-> b.to] :
        b \in block.transactions}

FallbackOutputs(known, block) ==
    {[txId |-> b.id, outputIndex |-> 0, value |-> b.amount, to |-> b.to] :
        b \in {c \in block.transactions :
                  \A tx \in known : tx.id # c.id}}

(* Fault: the block's outputs are added, its inputs are not removed.       *)
ProcessBlockUTXOsSpendsNothing(utxos, known, block) ==
    ApplyUTXOUpdates(
        utxos,
        (UNION {OutputsOf(tx) : tx \in KnownIn(known, block)})
            \cup FallbackOutputs(known, block),
        {})

ProcessBlockUTXOs(utxos, known, block) ==
    ApplyUTXOUpdates(
        utxos,
        (UNION {OutputsOf(tx) : tx \in KnownIn(known, block)})
            \cup FallbackOutputs(known, block),
        UNION {tx.inputs : tx \in KnownIn(known, block)})

-----------------------------------------------------------------------------
Init ==
    /\ chain = [n \in Nodes |-> <<GenesisBlock>>]
    /\ utxo = [n \in Nodes |-> Genesis]
    /\ pending = [n \in Nodes |-> {}]
    /\ difficulty = [n \in Nodes |-> InitialDifficulty]
    /\ created = {}
    /\ mined = {}

(* A payment is outstanding at n until a block n knows of contains it.     *)
ConfirmedIds(n) ==
    UNION {{b.id : b \in chain[n][i].transactions} : i \in DOMAIN chain[n]}

Outstanding(n) == {tx \in created : tx.id \notin ConfirmedIds(n)}

(* createUTXOTransaction: the wallet reads the UTXO set of node n.         *)
CreateUTXOTransaction(n, from, to, amount) ==
    /\ Cardinality(created) < MaxTransactions
    /\ OneSpendAtATime => Outstanding(n) = {}
    /\ \E selected \in SufficientSelections(OwnedBy(utxo[n], from), amount) :
          created' = created \cup
             {CreateTransaction(<<"tx", Cardinality(created) + 1>>,
                                from, to, amount, selected)}
    /\ UNCHANGED <<chain, utxo, pending, difficulty, mined>>

(* addUTXOTransaction.                                                     *)
AddUTXOTransaction(n, tx) ==
    /\ ValidateTransaction(tx, utxo[n])
    /\ \A p \in pending[n] : p.id # tx.id
    /\ pending' = [pending EXCEPT ![n] = @ \cup {tx}]
    /\ UNCHANGED <<chain, utxo, difficulty, created, mined>>

(* minePendingUTXOTransactions: adjust the difficulty, add the reward,     *)
(* mine on the latest block, apply the full transactions, clear the        *)
(* mempool.  All of it in one synchronous call.                            *)
RewardTransaction(hash, miner) ==
    [id |-> <<"reward", hash>>, inputs |-> {},
     outputs |-> <<[value |-> MiningReward, to |-> miner]>>, fee |-> 0]

(* Fault: the block carries the reward only.                               *)
BlockTransactionsRewardOnly(n, miner) ==
    {RewardTransaction(Cardinality(mined) + 1, miner)}

BlockTransactions(n, miner) ==
    pending[n] \cup {RewardTransaction(Cardinality(mined) + 1, miner)}

MinedBlock(n, gap, transactions) ==
    [hash         |-> Cardinality(mined) + 1,
     index        |-> LatestBlock(n).index + 1,
     previousHash |-> LatestBlock(n).hash,
     time         |-> LatestBlock(n).time + gap,
     difficulty   |-> IF ShouldAdjustDifficulty(LatestBlock(n).index + 1)
                      THEN NextDifficulty(n) ELSE difficulty[n],
     miner        |-> n,
     transactions |-> {LegacyTransaction(tx) : tx \in transactions}]

MinePendingUTXOTransactions(n, miner, gap) ==
    LET transactions == BlockTransactions(n, miner)
        block == MinedBlock(n, gap, transactions)
    IN  /\ Cardinality(mined) < MaxBlocks
        /\ MinesEmptyBlocks \/ pending[n] # {}
        /\ chain' = [chain EXCEPT ![n] = Append(@, block)]
        /\ difficulty' = [difficulty EXCEPT ![n] = block.difficulty]
        /\ utxo' = [utxo EXCEPT ![n] =
                       ProcessBlockUTXOs(@, transactions, block)]
        /\ pending' = [pending EXCEPT ![n] = {}]
        /\ mined' = mined \cup {block}
        /\ UNCHANGED created

(* addBlock: the block's transactions leave the mempool before the UTXO    *)
(* update looks the full transactions up in it.                            *)
AddBlock(n, block) ==
    LET remaining == pending[n] \ KnownIn(pending[n], block)
    IN  /\ AcceptsBlock(n, block)
        /\ chain' = [chain EXCEPT ![n] = Append(@, block)]
        /\ difficulty' = [difficulty EXCEPT ![n] =
                             AdjustedDifficulty(@, block)]
        /\ pending' = [pending EXCEPT ![n] = remaining]
        /\ utxo' = [utxo EXCEPT ![n] =
                       ProcessBlockUTXOs(@, remaining, block)]
        /\ UNCHANGED <<created, mined>>

Next ==
    \/ \E n \in Nodes, from, to \in Addresses, amount \in Amounts :
          CreateUTXOTransaction(n, from, to, amount)
    \/ \E n \in Nodes, tx \in created : AddUTXOTransaction(n, tx)
    \/ \E n \in Nodes, miner \in Addresses, gap \in BlockGaps :
          MinePendingUTXOTransactions(n, miner, gap)
    \/ \E n \in Nodes, block \in mined : AddBlock(n, block)

Spec == Init /\ [][Next]_vars

(* The mining loop (node.ts, startMining) re-arms its timer after every    *)
(* round, so a miner with a mempool mines.                                 *)
FairSpec ==
    /\ Spec
    /\ \A n \in Nodes :
          WF_vars(\E miner \in Addresses, gap \in BlockGaps :
                     MinePendingUTXOTransactions(n, miner, gap))

-----------------------------------------------------------------------------
(* Types.                                                                  *)

TxIds == {"genesis", "tx", "reward"} \X Nat

AllOutpoints == TxIds \X Nat

UTXOs == [txId: TxIds, outputIndex: Nat, value: Int, to: Addresses]

TransactionOutputs == [value: Int, to: Addresses]

Transactions ==
    [id: TxIds, inputs: SUBSET AllOutpoints, outputs: Seq(TransactionOutputs),
     fee: Int]

LegacyTransactions == [id: TxIds, to: Addresses, amount: Int, fee: Int]

Blocks ==
    [hash: Nat, index: Nat, previousHash: Int, time: Int,
     difficulty: Nat \ {0}, miner: Nodes \cup {"genesis"},
     transactions: SUBSET LegacyTransactions]

(* Every variable keeps the shape the code gives it.                       *)
TypeOK ==
    /\ chain \in [Nodes -> Seq(Blocks)]
    /\ \A n \in Nodes : chain[n] # <<>>
    /\ utxo \in [Nodes -> SUBSET UTXOs]
    /\ pending \in [Nodes -> SUBSET created]
    /\ difficulty \in [Nodes -> Nat \ {0}]
    /\ created \subseteq Transactions
    /\ mined \subseteq Blocks

-----------------------------------------------------------------------------
(* Safety.                                                                 *)

(* The UTXO set has one entry per outpoint, each worth something: the sums *)
(* of getBalance and getTotalValue count nothing twice.                    *)
UTXOKeysUnique ==
    \A n \in Nodes : \A u, w \in utxo[n] :
        u.value > 0 /\ (Outpoint(u) = Outpoint(w) => u = w)

(* validateChain finds no error in the chain of any node, whatever mix of  *)
(* own and received blocks built it.                                       *)
ChainValid ==
    \A n \in Nodes : \A i \in 1 .. Len(chain[n]) - 1 :
        ValidateBlock(chain[n][i + 1], chain[n][i])

(* A node's working difficulty is the one of its latest block, through     *)
(* both ways a block is appended: what the next block is checked against   *)
(* is what the chain says.                                                 *)
DifficultyFollowsChain ==
    \A n \in Nodes : difficulty[n] = LatestBlock(n).difficulty

(* A miner and a validator with the same latest block agree on what may    *)
(* follow: a block mined on a block that is now the latest one of node n   *)
(* has the height and the difficulty n demands of its next block, whichever*)
(* way and whenever n came by its chain.                                   *)
PeersAgreeOnDifficulty ==
    \A n \in Nodes, block \in mined :
        block.previousHash = LatestBlock(n).hash =>
            /\ block.index = LatestBlock(n).index + 1
            /\ DifficultyAcceptable(n, block)

(* The transactions n can name among those its chain confirms, and the     *)
(* outpoints they consumed.                                                *)
ConfirmedBy(n) == {tx \in created : tx.id \in ConfirmedIds(n)}

ConsumedBy(n) == UNION {tx.inputs : tx \in ConfirmedBy(n)}

MinedAlone(n) == \A i \in 2 .. Len(chain[n]) : chain[n][i].miner = n

(* A node that mined its whole chain has no consumed output left to spend. *)
ConsumedOutputsGone ==
    \A n \in Nodes :
        MinedAlone(n) => ConsumedBy(n) \cap Outpoints(utxo[n]) = {}

(* No two transactions of one chain spend the same output ("double-spend   *)
(* prevention", README.md:336).                                            *)
NoDoubleSpend ==
    \A n \in Nodes : \A t, u \in ConfirmedBy(n) :
        t # u => t.inputs \cap u.inputs = {}

TotalFee(transactions) ==
    LET fee(tx) == tx.fee IN MapThenSumSet(fee, transactions)

(* Coins come from the genesis allocation and the rewards only, and leave  *)
(* by fees only: what is missing from the UTXO set is what the chain's     *)
(* transactions recorded as their fees, up to the tolerance of each.       *)
SupplyAccounted ==
    \A n \in Nodes :
        LET issued  == TotalValue(Genesis) + MiningReward * (Len(chain[n]) - 1)
            burned  == TotalFee(ConfirmedBy(n))
            slack   == FeeTolerance * Cardinality(ConfirmedBy(n))
            missing == issued - TotalValue(utxo[n])
        IN  missing >= 0 /\ missing \in burned - slack .. burned + slack

(* Everything waiting in the mempool of a node could be mined now.         *)
MempoolSpendable ==
    \A n \in Nodes : \A tx \in pending[n] : ValidateTransaction(tx, utxo[n])

(* A node that works alone keeps its books: every entry is spent or kept   *)
(* once, the supply is the issue less the fees, and what waits in the      *)
(* mempool is covered by what the UTXO set still holds.                    *)
LedgerSound == UTXOKeysUnique /\ SupplyAccounted /\ MempoolSpendable

(* Whatever mix of own and received blocks, forks and retargets built the  *)
(* chain of a node, validateChain passes it and the working difficulty is  *)
(* the one of its latest block.                                            *)
ChainsSound == TypeOK /\ ChainValid /\ DifficultyFollowsChain

(* The UTXO set is a function of the chain: two nodes with the same latest *)
(* block agree on it ("Process UTXO transactions properly by               *)
(* reconstructing original UTXO structure", blockchain.ts:470).            *)
SameChainSameUTXOs ==
    \A n, m \in Nodes :
        LatestBlock(n) = LatestBlock(m) => utxo[n] = utxo[m]

(* What a node that works alone makes of its wallets, its mempool and its  *)
(* blocks is the ledger the UTXO model promises: every block settles its   *)
(* payments at once, and nothing else changes what can be spent.           *)
Books ==
    INSTANCE AbstractLedger WITH
        Allocation <- Genesis,
        Issue <- MiningReward,
        coins <- UNION {utxo[n] : n \in Nodes},
        spent <- UNION {ConsumedBy(n) : n \in Nodes}

SettlesLedger == Books!LedgerSpec

(* Nodes may fork, but two chains that share a block share everything      *)
(* before it, at the same heights.                                         *)
SharedHistory ==
    \A n, m \in Nodes : \A i \in DOMAIN chain[n], j \in DOMAIN chain[m] :
        chain[n][i].hash = chain[m][j].hash
            => i = j /\ \A k \in 1 .. i : chain[n][k] = chain[m][k]

(* A transaction leaves the mempool only by being confirmed in the chain   *)
(* of that node, in the same step.                                         *)
NoTransactionDropped ==
    [][\A n \in Nodes : \A tx \in pending[n] \ pending'[n] :
            tx.id \in ConfirmedIds(n)']_vars

(* A transaction in the mempool of a miner ends up in its chain.           *)
PendingIsConfirmed ==
    \A n \in Nodes : \A i \in 1 .. MaxTransactions :
        (\E tx \in pending[n] : tx.id = <<"tx", i>>)
            ~> (<<"tx", i>> \in ConfirmedIds(n))
=============================================================================
