----------------------------- MODULE ChainStore -----------------------------
(***************************************************************************)
(* One node's blockchain and its database: the asynchronous half of class  *)
(* Blockchain (blockchain.ts) with UTXOPersistenceManager (persistence.ts),*)
(* LevelDatabase (database.ts) and the genesis bootstrap of                *)
(* GenesisConfigManager.                                                   *)
(*                                                                         *)
(* Every call that writes is a job: it changes memory at once and leaves a *)
(* list of single database writes that are carried out one by one, between *)
(* which anything else can run, and which a crash cuts short.  Ledger      *)
(* models what the transactions do; here a transaction is [id, spends],    *)
(* has one output named by its id, and only their presence matters.        *)
(***************************************************************************)
EXTENDS Difficulty, FiniteSets, SequencesExt

CONSTANTS GenesisOutputs,    \* outputs of the genesis allocation
          InitialDifficulty, \* networkParams.initialDifficulty
          BlockGap,          \* time between blocks
          Modes,             \* how the node may be run: whether it mines,
                             \*   whether blocks of peers reach it, whether
                             \*   the application calls save() and
                             \*   rebuildUTXOSet(), and whether a database
                             \*   write may throw
          MaxInFlight,       \* bound: calls awaiting the database at a time
          MaxBlocks,         \* bound: blocks beyond genesis
          MaxTransactions,   \* bound: transactions submitted to this node
          MaxCrashes         \* bound: crashes or stops

ASSUME StoreAssumption ==
    /\ IsFiniteSet(GenesisOutputs) /\ GenesisOutputs \subseteq {"genesis"} \X Nat
    /\ InitialDifficulty \in Nat \ {0}
    /\ BlockGap \in Nat
    /\ Modes \subseteq [mines: BOOLEAN, follows: BOOLEAN, saves: BOOLEAN,
                       rebuilds: BOOLEAN, writesFail: BOOLEAN]
    /\ {MaxInFlight, MaxBlocks, MaxTransactions, MaxCrashes} \subseteq Nat

VARIABLES mode,       \* the member of Modes this node runs in
          phase,      \* "down", "starting" or "up"
          chain,      \* blocks
          utxo,       \* utxoManager: the unspent outputs
          pending,    \* pendingUTXOTransactions
          difficulty, \* difficulty
          jobs,       \* calls awaiting the database, oldest first
          disk,       \* the database
          made,       \* every block that exists, here or at peers
          acked,      \* blocks whose addBlock or save has returned
          submitted,  \* transactions handed to addTransaction so far
          crashes     \* crashes so far

memory == <<chain, utxo, pending, difficulty>>

vars == <<mode, phase, chain, utxo, pending, difficulty, jobs, disk, made, acked,
          submitted, crashes>>

-----------------------------------------------------------------------------
(* Blocks and their effect on memory.                                      *)

GenesisBlock ==
    [hash |-> 0, index |-> 0, previousHash |-> -1, time |-> 0,
     difficulty |-> InitialDifficulty, txs |-> {}]

Ids(txs) == {tx.id : tx \in txs}

Spends(txs) == UNION {tx.spends : tx \in txs}

LatestBlock == Last(chain)

NextDifficulty(current) ==
    CalculateNextDifficulty(current, [i \in DOMAIN chain |-> chain[i].time])

(* The block a miner with the given working difficulty puts on this chain. *)
NextBlock(working, txs) ==
    [hash |-> Cardinality(made) + 1, index |-> LatestBlock.index + 1,
     previousHash |-> LatestBlock.hash, time |-> LatestBlock.time + BlockGap,
     difficulty |-> IF ShouldAdjustDifficulty(LatestBlock.index + 1)
                    THEN NextDifficulty(working) ELSE working,
     txs |-> txs \cup {[id |-> <<"reward", Cardinality(made) + 1>>,
                        spends |-> {}]}]

Linked(blocks) ==
    \A i \in 1 .. Len(blocks) - 1 :
        /\ blocks[i + 1].index = blocks[i].index + 1
        /\ blocks[i + 1].previousHash = blocks[i].hash

AcceptsBlock(block) ==
    /\ Linked(<<LatestBlock, block>>)
    /\ \/ block.difficulty = difficulty
       \/ /\ ShouldAdjustDifficulty(block.index)
          /\ block.difficulty = NextDifficulty(difficulty)

-----------------------------------------------------------------------------
(* The database: BLOCKS by index, UTXO_SET under keys with and without the *)
(* "utxo:" prefix, PENDING_UTXO_TX, UTXO_TRANSACTIONS, and METADATA and    *)
(* CONFIG, where Absent stands for a missing key.                          *)

Absent == -1

EmptyDisk ==
    [blocks |-> {}, utxos |-> {}, bareUtxos |-> {}, pendingTxs |-> {},
     txs |-> {}, latest |-> Absent, difficulty |-> Absent]

PutBlocks(blocks)  == [op |-> "blocks", arg |-> blocks]
PutLatest(index)   == [op |-> "latest", arg |-> index]
PutUTXO(o)         == [op |-> "utxo", arg |-> o]
DelUTXO(o)         == [op |-> "del utxo", arg |-> o]
PutBareUTXOs(outs) == [op |-> "bare utxos", arg |-> outs]
PutPending(txs)    == [op |-> "pending", arg |-> txs]
PutTx(tx)          == [op |-> "tx", arg |-> tx]
PutDifficulty(d)   == [op |-> "difficulty", arg |-> d]

(* put: an entry replaces the one with the same key.                       *)
KeyOf(x) == IF "index" \in DOMAIN x THEN x.index ELSE x.id

PutAll(old, new) == {x \in old : \A y \in new : KeyOf(x) # KeyOf(y)} \cup new

Apply(w) ==
    CASE w.op = "blocks"     -> [disk EXCEPT !.blocks = PutAll(@, w.arg)]
      [] w.op = "latest"     -> [disk EXCEPT !.latest = w.arg]
      [] w.op = "utxo"       -> [disk EXCEPT !.utxos = @ \cup {w.arg}]
      [] w.op = "del utxo"   -> [disk EXCEPT !.utxos = @ \ {w.arg}]
      [] w.op = "bare utxos" -> [disk EXCEPT !.bareUtxos = @ \cup w.arg]
      [] w.op = "pending"    -> [disk EXCEPT !.pendingTxs = PutAll(@, w.arg)]
      [] w.op = "tx"         -> [disk EXCEPT !.txs = PutAll(@, {w.arg})]
      [] w.op = "difficulty" -> [disk EXCEPT !.difficulty = w.arg]

(* The blocks of a set that holds one per index, in rising order.          *)
ByIndex(blocks) ==
    CHOOSE s \in [1 .. Cardinality(blocks) -> blocks] :
        \A i, j \in DOMAIN s : i < j => s[i].index < s[j].index

(* Fault: the loop stops before the latest block.                          *)
LoadedBlocksAllButLast ==
    ByIndex({b \in disk.blocks : b.index \in 0 .. disk.latest - 1})

(* loadBlockchainState: blocks 0 .. latest_block, missing ones skipped.    *)
LoadedBlocks == ByIndex({b \in disk.blocks : b.index \in 0 .. disk.latest})

LoadedDifficulty == IF disk.difficulty = Absent THEN 2 ELSE disk.difficulty

(* Fault: latest_block first.                                              *)
SaveBlockWritesSwapped(block) == <<PutLatest(block.index), PutBlocks({block})>>

(* saveBlock: the block, then latest_block.                                *)
SaveBlockWrites(block) == <<PutBlocks({block}), PutLatest(block.index)>>

(* saveBlockchainState: LevelDatabase.batch writes one batch per sublevel, *)
(* in the order the sublevels first appear.  The UTXO entries are stored   *)
(* under the keys of the in-memory map, which lack the prefix.             *)
SaveWrites(blocks, utxos, txs, d) ==
    <<PutBlocks(Range(blocks)), PutBareUTXOs(utxos), PutPending(txs),
      PutLatest(Len(blocks) - 1), PutDifficulty(d)>>

(* createGenesisBlockchainState: createAndPersistGenesisBlock saves the    *)
(* block and each allocation, then save() the whole state.                 *)
GenesisWrites ==
    SaveBlockWrites(GenesisBlock)
        \o [i \in 1 .. Cardinality(GenesisOutputs) |->
               PutUTXO(SetToSeq(GenesisOutputs)[i])]
        \o SaveWrites(<<GenesisBlock>>, GenesisOutputs, {}, InitialDifficulty)

(* rebuildUTXOSet: delete every entry, then one output per transaction of  *)
(* every stored block; nothing is ever removed again.                      *)
RebuildWrites ==
    LET old == SetToSeq(disk.utxos)
        new == SetToSeq(UNION {Ids(b.txs) : b \in Range(LoadedBlocks)})
    IN  [i \in DOMAIN old |-> DelUTXO(old[i])]
            \o [i \in DOMAIN new |-> PutUTXO(new[i])]

-----------------------------------------------------------------------------
Init ==
    /\ mode \in Modes
    /\ phase = "down"
    /\ chain = <<>> /\ utxo = {} /\ pending = {} /\ difficulty = 0
    /\ jobs = <<>>
    /\ disk = EmptyDisk
    /\ made = {GenesisBlock}
    /\ acked = {}
    /\ submitted = 0
    /\ crashes = 0

(* A call awaiting the database; `reports` are the blocks its caller may   *)
(* take for stored once it returns.                                        *)
Job(kind, reports, writes) ==
    [kind |-> kind, reports |-> reports, writes |-> writes]

CanCall == phase = "up" /\ Len(jobs) < MaxInFlight

(* load, and the loading half of initializeBlockchainWithPersistence.      *)
LoadMemory ==
    /\ chain' = LoadedBlocks
    /\ utxo' = disk.utxos
    /\ pending' = disk.pendingTxs
    /\ difficulty' = LoadedDifficulty

(* initializeBlockchainWithPersistence: a stored chain that starts with    *)
(* the expected genesis block is taken as it is.                           *)
StoredChainUsable ==
    disk.latest # Absent /\ LoadedBlocks # <<>> /\ Head(LoadedBlocks) = GenesisBlock

Restart ==
    /\ phase = "down"
    /\ StoredChainUsable
    /\ LoadMemory
    /\ phase' = "up"
    /\ UNCHANGED <<mode, jobs, disk, made, acked, submitted, crashes>>

FirstStart ==
    /\ phase = "down"
    /\ ~StoredChainUsable
    /\ chain' = <<GenesisBlock>>
    /\ utxo' = GenesisOutputs
    /\ pending' = {}
    /\ difficulty' = InitialDifficulty
    /\ jobs' = <<Job("genesis", {GenesisBlock}, GenesisWrites)>>
    /\ phase' = "starting"
    /\ UNCHANGED <<mode, disk, made, acked, submitted, crashes>>

(* addUTXOTransaction: into the mempool, then saveUTXOTransaction, which   *)
(* writes UTXO_TRANSACTIONS.                                               *)
AddTransaction(spent) ==
    /\ CanCall
    /\ submitted < MaxTransactions
    /\ spent \in utxo
    /\ LET tx == [id |-> <<"tx", submitted + 1>>, spends |-> {spent}]
       IN  /\ pending' = pending \cup {tx}
           /\ jobs' = Append(jobs, Job("tx", {}, <<PutTx(tx)>>))
    /\ submitted' = submitted + 1
    /\ UNCHANGED <<mode, phase, chain, utxo, difficulty, disk, made, acked,
                   crashes>>

(* minePendingUTXOTransactions: memory only, nothing is written.           *)
MineBlock ==
    LET block == NextBlock(difficulty, pending)
    IN  /\ mode.mines
        /\ phase = "up"
        /\ Cardinality(made) <= MaxBlocks
        /\ chain' = Append(chain, block)
        /\ difficulty' = block.difficulty
        /\ utxo' = (utxo \ Spends(pending)) \cup Ids(block.txs)
        /\ pending' = {}
        /\ made' = made \cup {block}
        /\ UNCHANGED <<mode, phase, jobs, disk, acked, submitted, crashes>>

(* addBlock of a block some peer mined on this node's chain: the peer's    *)
(* working difficulty is the one of the latest block.  The block's outputs *)
(* are added and nothing is spent (Ledger, ProcessBlockUTXOs).             *)
PeerBlock(txs) == NextBlock(LatestBlock.difficulty, txs)

AddBlock(txs) ==
    LET block == PeerBlock(txs)
    IN  /\ mode.follows
        /\ CanCall
        /\ Cardinality(made) <= MaxBlocks
        /\ AcceptsBlock(block)
        /\ chain' = Append(chain, block)
        /\ difficulty' = IF ShouldAdjustDifficulty(block.index)
                         THEN block.difficulty ELSE difficulty
        /\ pending' = pending \ txs
        /\ utxo' = utxo \cup Ids(block.txs)
        /\ made' = made \cup {block}
        /\ jobs' = Append(jobs, Job("block", {block}, SaveBlockWrites(block)))
        /\ UNCHANGED <<mode, phase, disk, acked, submitted, crashes>>

(* save, called by the application.                                        *)
Save ==
    /\ mode.saves
    /\ CanCall
    /\ jobs' = Append(jobs, Job("save", Range(chain),
                                SaveWrites(chain, utxo, pending, difficulty)))
    /\ UNCHANGED <<mode, phase, memory, disk, made, acked, submitted, crashes>>

(* rebuildUTXOSet, called by the application with no other call running.   *)
RebuildUTXOSet ==
    /\ mode.rebuilds
    /\ CanCall
    /\ jobs = <<>>
    /\ jobs' = <<Job("rebuild", {}, RebuildWrites)>>
    /\ UNCHANGED <<mode, phase, memory, disk, made, acked, submitted, crashes>>

(* One database write of one call.  Writes of different calls are carried  *)
(* out by a thread pool: any of them can be next.                          *)
DatabaseWrite(j) ==
    /\ jobs[j].writes # <<>>
    /\ disk' = Apply(Head(jobs[j].writes))
    /\ jobs' = [jobs EXCEPT ![j].writes = Tail(@)]
    /\ UNCHANGED <<mode, phase, memory, made, acked, submitted, crashes>>

(* The last write is done and the call continues: addBlock returns,        *)
(* initialization ends, rebuildUTXOSet reloads memory from the database.   *)
Return(j) ==
    LET job == jobs[j]
    IN  /\ job.writes = <<>>
        /\ jobs' = RemoveAt(jobs, j)
        /\ phase' = IF job.kind = "genesis" THEN "up" ELSE phase
        /\ acked' = acked \cup job.reports
        /\ IF job.kind = "rebuild" THEN LoadMemory ELSE UNCHANGED memory
        /\ UNCHANGED <<mode, disk, made, submitted, crashes>>

(* A write throws: the call rejects, memory keeps what it changed.         *)
WriteError(j) ==
    /\ mode.writesFail
    /\ phase = "up"
    /\ jobs[j].writes # <<>>
    /\ jobs' = RemoveAt(jobs, j)
    /\ UNCHANGED <<mode, phase, memory, disk, made, acked, submitted, crashes>>

(* The process dies, or stop() closes the database under the running       *)
(* calls: memory and unfinished calls are lost.                            *)
Crash ==
    /\ phase # "down"
    /\ crashes < MaxCrashes
    /\ phase' = "down"
    /\ chain' = <<>> /\ utxo' = {} /\ pending' = {} /\ difficulty' = 0
    /\ jobs' = <<>>
    /\ crashes' = crashes + 1
    /\ UNCHANGED <<mode, disk, made, acked, submitted>>

Next ==
    \/ Restart
    \/ FirstStart
    \/ \E o \in utxo : AddTransaction(o)
    \/ MineBlock
    \/ \E txs \in SUBSET pending : AddBlock(txs)
    \/ Save
    \/ RebuildUTXOSet
    \/ \E j \in DOMAIN jobs : DatabaseWrite(j) \/ Return(j) \/ WriteError(j)
    \/ Crash

Spec == Init /\ [][Next]_vars

-----------------------------------------------------------------------------
(* Types.                                                                  *)

OutpointIds == {"genesis", "tx", "reward"} \X Nat

Txs == [id: OutpointIds, spends: SUBSET OutpointIds]

Blocks == [hash: Nat, index: Nat, previousHash: Int, time: Nat,
           difficulty: Nat \ {0}, txs: SUBSET Txs]

(* Memory, the calls in flight and the database keep their shapes, down or *)
(* up; a running node always has a block to build on.                      *)
TypeOK ==
    /\ phase \in {"down", "starting", "up"}
    /\ chain \in Seq(Blocks) /\ (phase = "down" <=> chain = <<>>)
    /\ utxo \subseteq OutpointIds
    /\ pending \subseteq Txs
    /\ difficulty \in Nat
    /\ \A j \in DOMAIN jobs : jobs[j].reports \subseteq made
    /\ made \subseteq Blocks /\ Range(chain) \subseteq made
    /\ disk.blocks \subseteq made
    /\ disk.utxos \cup disk.bareUtxos \subseteq OutpointIds
    /\ disk.pendingTxs \cup disk.txs \subseteq Txs
    /\ {disk.latest, disk.difficulty} \subseteq Nat \cup {Absent}
    /\ acked \subseteq made

-----------------------------------------------------------------------------
(* Safety.                                                                 *)

(* Every block reaches this node the same way, mined or received, and      *)
(* every write succeeds.                                                   *)
SingleSource == ~mode.writesFail /\ ~(mode.mines /\ mode.follows)

(* What a call reported as stored is still in the chain after any number   *)
(* of crashes and restarts.                                                *)
AckedBlocksSurvive ==
    SingleSource /\ phase = "up" => acked \subseteq Range(chain)

(* The chain a node works on has no gap, before and after restarts         *)
(* ("Blockchain state persistence with atomic operations and integrity     *)
(* validation", README.md:111).                                            *)
ChainComplete ==
    phase = "up" => Head(chain) = GenesisBlock /\ Linked(chain)

(* Such a node never works on a chain with a gap: the blocks a miner lost  *)
(* are the last ones.                                                      *)
SingleSourceComplete == SingleSource => ChainComplete

(* latest_block never points at a block that is not stored: a crash between*)
(* the two writes of saveBlock loses the block, not the chain.             *)
LatestBlockStored ==
    SingleSource /\ disk.latest # Absent =>
        \E b \in disk.blocks : b.index = disk.latest

(* validateIntegrity (persistence.ts:363).                                 *)
ValidateIntegrity ==
    \/ disk.latest = Absent
    \/ /\ \A i \in 0 .. disk.latest : \E b \in disk.blocks : b.index = i
       /\ \A i \in 1 .. Len(LoadedBlocks) - 1 :
              LoadedBlocks[i + 1].previousHash = LoadedBlocks[i].hash
       /\ disk.latest > 0 => disk.utxos # {}

(* A node that runs on a chain with a gap can find out: the stored state   *)
(* fails validateIntegrity, whatever was saved since the gap appeared.     *)
GapDetected ==
    phase = "up" /\ ~Linked(chain) /\ jobs = <<>> => ~ValidateIntegrity

(* What the database says can be built on, whatever was interrupted: a     *)
(* chain of one source has no gap, latest_block points at a stored block,  *)
(* and where a gap can arise it is noticed.                                *)
StoreSound == TypeOK /\ SingleSourceComplete /\ LatestBlockStored /\ GapDetected

(* A running node's working difficulty is the one of its latest block, so  *)
(* that it accepts what peers mine next ("should persist and restore       *)
(* complete blockchain state", persistence.integration.test.ts:141).       *)
DifficultyRestored == phase = "up" => difficulty = LatestBlock.difficulty

ConfirmedTxs == UNION {b.txs : b \in Range(chain)}

UnspentOnChain == (GenesisOutputs \cup Ids(ConfirmedTxs)) \ Spends(ConfirmedTxs)

(* An output that a stored chain creates and does not spend is there to    *)
(* spend, restart or not ("should handle UTXO set persistence and          *)
(* recovery", persistence.integration.test.ts:219).                        *)
SavedUTXOsRestored ==
    phase = "up" /\ Range(chain) \subseteq acked \cup {GenesisBlock}
        => Ids(ConfirmedTxs) \ Spends(ConfirmedTxs) \subseteq utxo

(* The UTXO set is what the blocks of the chain leave unspent, also after  *)
(* rebuildUTXOSet ("should rebuild UTXO set from blocks",                  *)
(* persistence.test.ts:388).                                               *)
UTXOsFollowChain == phase = "up" => utxo = UnspentOnChain

(* No genesis allocation disappears unspent ("Genesis configuration system *)
(* with UTXO-based initial allocations", README.md:121).                   *)
GenesisAllocated ==
    phase = "up" => GenesisOutputs \subseteq utxo \cup Spends(ConfirmedTxs)
=============================================================================
