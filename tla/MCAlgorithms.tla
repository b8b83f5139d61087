----------------------------- MODULE MCAlgorithms -----------------------------
(* The algorithms that no other part of a node takes part in, for TLC: the     *)
(* difficulty of a growing chain, the payments of a wallet, how messages are   *)
(* compressed with which dictionary, the compact form of a transaction, the    *)
(* proofs of a growing block, and the downloads of several batches of blocks.  *)
(* A behaviour runs one of them, with the others at rest.                      *)
EXTENDS DifficultyHistory, Wallet, Compression, Merkle, Synchronization

CONSTANTS MaxLength,    \* bound: characters of a text
          MaxBlock      \* bound: transactions of a block

(* The scripts of the transaction below are of up to three characters. *)
ASSUME ScriptsAssumption == ScriptModulus > 3

VARIABLES part, text, outputs, block

samples == <<text, outputs, block>>

algorithmVars == <<vars, walletVars, compressionVars, syncVars, samples, part>>

(***************************************************************************)
(* Difficulty: a period of three blocks, target time 4.                    *)
(* Wallet: output values and amounts on both sides of every fee threshold  *)
(* (250 for one input, 366 and 400 for two, 550 for three).                *)
(***************************************************************************)

MCGaps == {-3, 0, 4, 9, 60}

MCInitial == 1 .. 12

MCValues == {300, 500, 750, 1000}

MCAmounts == {50, 500, 750, 1600}

(***************************************************************************)
(* The compression manager: data with a pattern in common, braces, a blank *)
(***************************************************************************)

MCSamples == {<<123, 32, 125, 125>>, <<123, 125, 123, 125>>, <<32, 123, 123>>}

(* What the dictionaries are made from. *)
FirstSamples == {<<123, 32, 125, 125>>, <<123, 125, 123, 125>>}

MCRecentTransactions == <<123, 125>>

Config(threshold, default, utxoOptimization, maxMemory) ==
    [threshold |-> threshold, default |-> default, utxoOptimization |-> utxoOptimization,
     enableDictionary |-> utxoOptimization, maxMemory |-> maxMemory, maxExpansion |-> 2]

MCConfigs == {Config(2, "protobuf", TRUE, 1), Config(4, "utxo_custom", FALSE, 0)}

(* How algorithms are selected, for what, and with which configuration. *)
SelectionNext ==
    \/ \E d \in Samples, type \in MessageTypes, option \in {"any", "utxo_custom"}, busy \in BOOLEAN :
           packet = NoPacket /\ Compress(d, type, option, busy, "default")
    \/ \E d \in Samples, type \in {"transaction", "sync"} :
           packet = NoPacket /\ SendCompressedMessage([type |-> type, payload |-> d])
    \/ ReceivePacket
    \/ RegisterAllEngines
    \/ \E c \in Configs : UpdateConfig(c)
    \/ \E n \in {0, 11} : OptimizeForUTXOPatterns(n, RecentTransactions)
    \/ \E enable \in BOOLEAN : EnableAdaptiveCompression(enable)

(* What becomes of the dictionaries while data compressed with one of them is *)
(* on its way.                                                                *)
DictionariesNext ==
    \/ RegisterAllEngines
    \/ \E d \in Samples, id \in DictionaryIds :
           packet = NoPacket /\ Compress(d, "utxo_transaction", "utxo_dictionary", FALSE, id)
    \/ ReceivePacket
    \/ \E id \in DictionaryIds, d \in FirstSamples, now \in BOOLEAN : CreateDictionary(id, d, now)
    \/ \E id \in DictionaryIds, d \in FirstSamples : UpdateDictionary(id, d)
    \/ \E id \in DictionaryIds : DeleteDictionary(id)

(***************************************************************************)
(* Engines                                                                 *)
(***************************************************************************)

Characters == {97, 98, 125}

(* Dictionaries as they are made of earlier texts, one of them updated. *)
Dictionaries ==
    {NewDictionary(<<>>), NewDictionary(<<<<97, 98, 97, 98>>>>),
     UpdatedDictionary(NewDictionary(<<<<97, 98, 125>>>>), <<<<98, 98, 125>>, <<98, 125>>>>)}

Type == /\ Len(text) < MaxLength
        /\ \E c \in Characters : text' = Append(text, c)
        /\ UNCHANGED <<outputs, block>>

(* Amounts that take one, two and three bytes, and one that is common. *)
OutputValues == {0, 127, 128, 16383, 16384, 500}

AddOutput ==
    /\ Len(outputs) < 3
    /\ \E amount \in OutputValues, address \in {"a", "b"} :
           outputs' = Append(outputs, [value |-> amount, address |-> address])
    /\ UNCHANGED <<text, block>>

RecentAmounts == CommonAmounts(<<127, 500, 500>>)

Addresses == <<"a">>

Hash(n) == [prefix |-> n, rest |-> n]

(* The transaction with these outputs; what it spends follows from them too. *)
Transaction ==
    LET inputs == [i \in DOMAIN outputs |-> [previousTxId |-> Hash(i), outputIndex |-> i - 1, script |-> [k \in 1 .. i |-> 48 + k]]]
    IN [id |-> "tx", inputs |-> inputs, outputs |-> outputs, fee |-> 100 * Len(outputs) + 1, timestamp |-> 12345, lockTime |-> Len(outputs)]

(***************************************************************************)
(* Blocks for light clients                                                *)
(***************************************************************************)

(* Among the first three, one may be there twice. *)
AddTransaction ==
    /\ Len(block.transactions) < MaxBlock
    /\ \E n \in (IF Len(block.transactions) < 3 THEN 1 ELSE Len(block.transactions) + 1) .. Len(block.transactions) + 1 :
           block' = [block EXCEPT !.transactions = Append(@, n)]
    /\ UNCHANGED <<text, outputs>>

Genesis == [index |-> 0, timestamp |-> 1, previousHash |-> "0", hash |-> "g", zeros |-> 0, transactions |-> <<>>]

EmptyBlock == [index |-> 1, timestamp |-> 2, previousHash |-> "g", hash |-> "b", zeros |-> 1, transactions |-> <<>>]

Accepts(tx, proof) ==
    LET header == HeaderOf(block)
    IN ValidateBlockHeader(header, HeaderOf(Genesis)) /\ VerifyTransaction(tx, proof, header)

(* Blocks that differ a little from this one, if it is not long. *)
OtherBlocks ==
    IF Len(block.transactions) > MaxLength THEN {}
    ELSE {Reverse(block.transactions), Front(block.transactions), Append(block.transactions, 0)}

(***************************************************************************)
(* Downloads: two batches with a block in common, a peer of each kind      *)
(***************************************************************************)

MCHashesOf == [b \in {1, 2} |-> IF b = 1 THEN <<1, 2>> ELSE <<2, 3, 4>>]

MCSyncPeers == <<[id |-> "p", type |-> "mesh"], [id |-> "q", type |-> "internet"]>>

(***************************************************************************)
(* All together                                                            *)
(***************************************************************************)

AlgorithmsInit ==
    /\ part \in {"difficulty", "wallet", "selection", "dictionaries", "texts", "transactions", "blocks", "downloads"}
    /\ IF part = "difficulty" THEN Init ELSE current = MinDifficulty /\ times = <<0>>
    /\ WalletInit
    /\ CompressionInit
    /\ SyncInit
    /\ text = <<>> /\ outputs = <<>> /\ block = EmptyBlock

Rest(resting) == UNCHANGED <<resting, part>>

DownloadsStep == Rest(<<vars, walletVars, compressionVars, samples>>)

AlgorithmsNext ==
    \/ part = "difficulty" /\ Next /\ Rest(<<walletVars, compressionVars, syncVars, samples>>)
    \/ part = "wallet" /\ WalletNext /\ Rest(<<vars, compressionVars, syncVars, samples>>)
    \/ part = "selection" /\ SelectionNext /\ Rest(<<vars, walletVars, syncVars, samples>>)
    \/ part = "dictionaries" /\ DictionariesNext /\ Rest(<<vars, walletVars, syncVars, samples>>)
    \/ part = "downloads" /\ SyncNext /\ DownloadsStep
    \/ /\ \/ part = "texts" /\ Type
          \/ part = "transactions" /\ AddOutput
          \/ part = "blocks" /\ AddTransaction
       /\ Rest(<<vars, walletVars, compressionVars, syncVars>>)

AlgorithmsSpec ==
    /\ AlgorithmsInit
    /\ [][AlgorithmsNext]_algorithmVars
    /\ WF_algorithmVars(part = "downloads" /\ BlocksArrive /\ DownloadsStep)

(***************************************************************************)
(* Properties                                                              *)
(***************************************************************************)

(* Whatever a dictionary was made from, what is compressed with it comes back: *)
(* the longest match, references and their two bytes fit together              *)
(* (compressWithDictionaryImpl and decompressWithDictionaryImpl).              *)
DictionaryRoundTrips ==
    \A dictionary \in Dictionaries :
        DecompressWithDictionary(CompressWithDictionary(text, dictionary.entries), dictionary.entries) = text

(* The compact form of a transaction keeps what is paid to whom and what is    *)
(* spent, at every length of a number; it rounds the fee up to a tier and the  *)
(* time down to the second (compressUTXOTransaction, decompressUTXOTransaction). *)
CompactTransactionKept ==
    LET tx == Transaction
        out == DecompressUTXOTransaction(CompressUTXOTransaction(tx, Addresses, RecentAmounts), RecentAmounts)
        addresses == Last(AddressTables(Addresses, outputs))
    IN /\ [i \in DOMAIN out.outputs |-> [value |-> out.outputs[i].value, address |-> addresses[out.outputs[i].address + 1]]]
              = outputs
       /\ out.inputs = [i \in DOMAIN tx.inputs |-> [tx.inputs[i] EXCEPT !.previousTxId = ShortHash(@)]]
       /\ out.fee >= tx.fee
       /\ tx.timestamp - out.timestamp \in 0 .. 999
       /\ out.lockTime = tx.lockTime

(* The block as the protocol holds it, with hashes for its transactions. *)
WholeBlock ==
    [index |-> block.index, timestamp |-> 12345, previousHash |-> block.previousHash, hash |-> block.hash,
     merkleRoot |-> CalculateRoot(block.transactions), nonce |-> 7, difficulty |-> block.zeros,
     transactions |-> [i \in DOMAIN block.transactions |-> Hash(block.transactions[i])]]

(* The compact form of a block keeps its header but for the milliseconds, and  *)
(* of its transactions the first bytes of each hash, in order                  *)
(* (compressUTXOBlock, decompressUTXOBlock).                                   *)
CompactBlockKept ==
    LET out == DecompressUTXOBlock(CompressUTXOBlock(WholeBlock))
    IN /\ [out EXCEPT !.timestamp = 12345, !.transactions = WholeBlock.transactions] = WholeBlock
       /\ out.timestamp = 12000
       /\ out.transactions = [i \in DOMAIN block.transactions |-> ShortHash(WholeBlock.transactions[i])]

(* What any of the engines and the manager above them compressed comes back.   *)
CompressionSound ==
    DictionaryRoundTrips /\ CompactTransactionKept /\ CompactBlockKept /\ NothingGarbled

(* The node above a position at some level of the tree has no sibling. *)
Unpaired(transactions, leaf) ==
    \E k \in 0 .. Height(Len(transactions)) - 1 :
        Sibling(Climb(transactions, leaf)[k].index) >= Len(Tree(transactions)[k])

First(tx) == SelectInSeq(block.transactions, LAMBDA t : t = tx) - 1

(* Whoever has the headers accepts a transaction of the block with its proof,  *)
(* also after the proof was compressed, exactly if no level of the tree was    *)
(* filled with a copy on its way (generateProof, compressProof,                *)
(* verifyTransaction).                                                         *)
ProvableExactlyIfPaired ==
    \A tx \in ToSet(block.transactions) :
        LET proof == DecompressProof(CompressProof(GenerateProof(block.transactions, tx)))
            utxo == [txId |-> tx, lockingScript |-> "key"]
        IN /\ Accepts(tx, proof) <=> ~ Unpaired(block.transactions, First(tx))
           /\ Accepts(tx, proof) => ValidateUTXOOwnership(utxo, proof, HeaderOf(block), "key")

(* Nobody is made to accept a transaction that the block does not hold by a    *)
(* proof that another block, however similar, gave for it or for another.      *)
OnlyOwnTransactionsAccepted ==
    \A other \in OtherBlocks : \A tx \in ToSet(other) : \A claimed \in ToSet(other) \cup {0} :
        Accepts(claimed, GenerateProof(other, tx)) => claimed \in ToSet(block.transactions)

(* The proofs of a block convince of its transactions and of nothing else.     *)
ProofsSound == ProvableExactlyIfPaired /\ OnlyOwnTransactionsAccepted

(* "Generate merkle proofs for any transaction in a block" (README.md:225):    *)
(* generateProof gives a proof that verifies.                                  *)
EveryTransactionProvable ==
    \A tx \in ToSet(block.transactions) : Accepts(tx, GenerateProof(block.transactions, tx))
=============================================================================
