-------------------------------- MODULE Merkle --------------------------------
(* MerkleTree and SPVManager (packages/core/src/merkle): the root of a block,  *)
(* the proof that it holds a transaction, the compressed form of a proof, and  *)
(* what a light client makes of it. Positions count from 0, as in the code.    *)
(* sha256 is taken to be injective: a hash is a record of what was hashed.     *)
EXTENDS Integers, Sequences, SequencesExt, FiniteSetsExt

HashOf(tx) == [leaf |-> tx]

Combined(left, right) == [left |-> left, right |-> right]

EmptyRoot == [empty |-> TRUE]

(* The last hash of an odd level is combined with itself. *)
NextLevel(level) ==
    [i \in 1 .. (Len(level) + 1) \div 2 |->
        Combined(level[2 * i - 1], IF 2 * i <= Len(level) THEN level[2 * i] ELSE level[2 * i - 1])]

(* How many times n hashes are combined until one is left. *)
Height(n) ==
    LET Rounds[m \in 0 .. n] == IF m <= 1 THEN 0 ELSE 1 + Rounds[(m + 1) \div 2]
    IN Rounds[n]

(* The levels of the tree, the leaves being level 0. *)
Tree(transactions) ==
    LET Level[k \in 0 .. Height(Len(transactions))] ==
            IF k = 0 THEN [i \in DOMAIN transactions |-> HashOf(transactions[i])] ELSE NextLevel(Level[k - 1])
    IN Level

CalculateRoot(transactions) ==
    IF transactions = <<>> THEN EmptyRoot ELSE Tree(transactions)[Height(Len(transactions))][1]

Sibling(position) == IF position % 2 = 0 THEN position + 1 ELSE position - 1

Direction(position) == IF position % 2 = 0 THEN "right" ELSE "left"

(* generateProofFromTree, level by level: a hash that was combined with itself *)
(* is not in the proof.                                                        *)
Climb(transactions, leaf) ==
    LET tree == Tree(transactions)
        At[k \in 0 .. Height(Len(transactions))] ==
            IF k = 0 THEN [index |-> leaf, proof |-> <<>>]
            ELSE LET below == At[k - 1]
                     sibling == Sibling(below.index)
                     element == [hash |-> tree[k - 1][sibling + 1], direction |-> Direction(below.index)]
                 IN [index |-> below.index \div 2,
                     proof |-> IF sibling < Len(tree[k - 1]) THEN Append(below.proof, element) ELSE below.proof]
    IN At

ProofElements(transactions, index) == Climb(transactions, index)[Height(Len(transactions))].proof

(* generateProof for a transaction of the block: its first place counts. *)
GenerateProof(transactions, tx) ==
    LET index == SelectInSeq(transactions, LAMBDA t : t = tx) - 1
    IN [transactionId |-> tx, transactionHash |-> HashOf(tx), merkleRoot |-> CalculateRoot(transactions),
        proof |-> ProofElements(transactions, index), leafIndex |-> index]

Above(element, hash) ==
    IF element.direction = "left" THEN Combined(element.hash, hash) ELSE Combined(hash, element.hash)

(* What the hash of a transaction becomes, element by element of its proof. *)
HashesAlong(proof) ==
    LET Hash[k \in 0 .. Len(proof.proof)] ==
            IF k = 0 THEN proof.transactionHash ELSE Above(proof.proof[k], Hash[k - 1])
    IN Hash

VerifyProof(proof, root) == root = HashesAlong(proof)[Len(proof.proof)]

(***************************************************************************)
(* The compressed form: directions as hexadecimal digits, then the hashes   *)
(***************************************************************************)

BitOf(direction) == IF direction = "left" THEN 0 ELSE 1

(* Fault: the last digit is filled from the left. *)
PaddedLeft(bits) == [i \in 1 .. (4 - (Len(bits) % 4)) % 4 |-> 0] \o bits

Padded(bits) == bits \o [i \in 1 .. (4 - (Len(bits) % 4)) % 4 |-> 0]

BitsToHex(bits) ==
    LET all == Padded(bits)
    IN [i \in 1 .. Len(all) \div 4 |->
           8 * all[4 * i - 3] + 4 * all[4 * i - 2] + 2 * all[4 * i - 1] + all[4 * i]]

HexToBits(hex) ==
    [i \in 1 .. 4 * Len(hex) |-> (hex[(i + 3) \div 4] \div <<8, 4, 2, 1>>[1 + ((i + 3) % 4)]) % 2]

CompressProof(p) ==
    [txId |-> p.transactionId, txHash |-> p.transactionHash, root |-> p.merkleRoot, index |-> p.leafIndex,
     path |-> [hex |-> BitsToHex([i \in DOMAIN p.proof |-> BitOf(p.proof[i].direction)]),
               hashes |-> [i \in DOMAIN p.proof |-> p.proof[i].hash]]]

DecompressProof(c) ==
    LET bits == HexToBits(c.path.hex)
        Element(i) == [hash |-> c.path.hashes[i], direction |-> IF bits[i] = 0 THEN "left" ELSE "right"]
    IN [transactionId |-> c.txId, transactionHash |-> c.txHash, merkleRoot |-> c.root, leafIndex |-> c.index,
        proof |-> [i \in 1 .. Min({Len(bits), Len(c.path.hashes)}) |-> Element(i)]]

(***************************************************************************)
(* Simplified payment verification. Of a header, [index, timestamp,        *)
(* previousHash, hash, merkleRoot, transactionCount, difficulty, zeros]:   *)
(* zeros is how many zeros its hash begins with, difficulty 0 if unknown.  *)
(***************************************************************************)

(* createBlockHeader of block.ts leaves the difficulty out. *)
HeaderOf(block) ==
    [index |-> block.index, timestamp |-> block.timestamp, previousHash |-> block.previousHash, hash |-> block.hash,
     merkleRoot |-> CalculateRoot(block.transactions), transactionCount |-> Len(block.transactions),
     difficulty |-> 0, zeros |-> block.zeros]

(* The types and the form of the hashes are those of any header here. *)
BasicHeaderValid(header) == header.index >= 0 /\ header.timestamp > 0 /\ header.transactionCount >= 0

ValidateBlockHeader(header, previous) ==
    /\ BasicHeaderValid(header)
    /\ header.index = previous.index + 1
    /\ header.previousHash = previous.hash
    /\ header.timestamp > previous.timestamp
    /\ header.zeros >= header.difficulty

VerifyTransactionInBlock(tx, proof, root) ==
    VerifyProof(proof, root) /\ proof.transactionHash = HashOf(tx) /\ proof.transactionId = tx

VerifyTransaction(tx, proof, header) ==
    VerifyTransactionInBlock(tx, proof, header.merkleRoot) /\ BasicHeaderValid(header)

(* verifyTransactionBatch throws unless there is a proof and a header for each. *)
VerifyTransactionBatch(transactions, proofs, headers) ==
    IF Len(transactions) = Len(proofs) /\ Len(proofs) = Len(headers)
    THEN [i \in DOMAIN transactions |-> VerifyTransaction(transactions[i], proofs[i], headers[i])]
    ELSE <<>>

SufficientConfirmations(blockIndex, height, required) == height - blockIndex >= required

ValidateUTXOOwnership(utxo, proof, header, publicKey) ==
    VerifyProof(proof, header.merkleRoot) /\ utxo.txId = proof.transactionId /\ utxo.lockingScript = publicKey

(* A proof is one message, whatever its size: fragmentProof cuts nothing. *)
EstimateProofSize(proof) == 128 + 65 * Len(proof.proof)

FitsLoRaConstraints(proof) == EstimateProofSize(proof) <= 256
=============================================================================
