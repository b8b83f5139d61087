-------------------------- MODULE CompressionEngines --------------------------
(* The compression engines (packages/core/src/compression-engines.ts and      *)
(* utxo-compression-engines.ts). Data is a sequence of character codes below  *)
(* 128, where a byte is a character; what the dictionary engine does to other *)
(* bytes, and the custom engine to tabs and line ends, is not looked at.      *)
EXTENDS Integers, Sequences, SequencesExt, FiniteSetsExt, Ordering

CONSTANTS
    MaxDictionarySize,     \* entries of a dictionary
    ScriptModulus,         \* one more than the longest script whose length can be written
    MaxPatternLength       \* patterns are of length 2 up to this

(* Characters, among them no white space but the blank. *)
Codes == 0 .. 127 \ {9, 10, 13}

(* A reference has fifteen bits for the entry (the code allows 1000 entries). *)
ASSUME EnginesAssumption ==
    /\ MaxDictionarySize \in Nat /\ MaxDictionarySize <= 32768
    /\ ScriptModulus \in Nat
    /\ MaxPatternLength \in Nat \ {0}

SPACE == 32
Whitespace == {9, 10, 13, SPACE}

(* A result that is no data: the engine throws. *)
FAILED == <<-1>>

(***************************************************************************)
(* The custom engine: white space is collapsed, nothing is put back.       *)
(***************************************************************************)

Collapsed(d) ==
    FoldLeft(LAMBDA done, c :
                 IF c \notin Whitespace THEN Append(done, c)
                 ELSE IF done # <<>> /\ Last(done) = SPACE THEN done
                 ELSE Append(done, SPACE), <<>>, d)

Trimmed(d) ==
    LET black == {i \in DOMAIN d : d[i] \notin Whitespace}
    IN IF black = {} THEN <<>>
       ELSE SubSeq(d, CHOOSE i \in black : \A j \in black : i <= j,
                      CHOOSE i \in black : \A j \in black : i >= j)

CustomCompress(d) == Trimmed(Collapsed(d))

(***************************************************************************)
(* Dictionaries: [entries, frequency, version]. The id of an entry is its  *)
(* place in entries, from 0. frequency lists [pattern, count] in the order *)
(* the patterns came in, entries the patterns by falling count.            *)
(***************************************************************************)

Substrings(d, n) == [i \in 1 .. (IF Len(d) < n THEN 0 ELSE Len(d) - n + 1) |-> SubSeq(d, i, i + n - 1)]

(* extractPatterns: each pattern of the samples once, in order. *)
ExtractPatterns(samples) ==
    LET In(d) == FlattenSeq([k \in 1 .. MaxPatternLength - 1 |-> Substrings(d, k + 1)])
        found == FlattenSeq([i \in DOMAIN samples |-> In(samples[i])])
    IN FoldLeft(LAMBDA s, p : IF Contains(s, p) \/ Len(Trimmed(p)) < 2 THEN s ELSE Append(s, p), <<>>, found)

Counted(frequency, pattern) ==
    LET at == SelectInSeq(frequency, LAMBDA e : e.pattern = pattern)
    IN IF at = 0 THEN Append(frequency, [pattern |-> pattern, count |-> 1])
       ELSE [frequency EXCEPT ![at].count = @ + 1]

SelectBestEntries(frequency) ==
    LET best == Truncate(SortByFalling(frequency, LAMBDA e : e.count), MaxDictionarySize)
    IN [i \in DOMAIN best |-> best[i].pattern]

DictionaryOf(frequency, version) ==
    [entries |-> SelectBestEntries(frequency), frequency |-> frequency, version |-> version]

NewDictionary(samples) == DictionaryOf(FoldLeft(Counted, <<>>, ExtractPatterns(samples)), 1)

UpdatedDictionary(dictionary, samples) ==
    DictionaryOf(FoldLeft(Counted, dictionary.frequency, ExtractPatterns(samples)), dictionary.version + 1)

(* The place of the longest entry that matches d at i, 0 for none. *)
BestMatch(entries, d, i) ==
    LET Matches(e) == Len(entries[e]) \in 1 .. Len(d) - i + 1 /\ SubSeq(d, i, i + Len(entries[e]) - 1) = entries[e]
        all == {e \in DOMAIN entries : Matches(e)}
    IN IF all = {} THEN 0 ELSE CHOOSE e \in all : \A f \in all : Len(entries[e]) >= Len(entries[f])

Reference(id) == <<128 + ((id \div 256) % 128), id % 256>>

(* Fault: one character further, whatever was matched. *)
MatchedLengthOne(entries, e) == 1

MatchedLength(entries, e) == Len(entries[e])

CompressWithDictionary(d, entries) ==
    LET From[i \in 1 .. Len(d) + 1] ==
            IF i > Len(d) THEN <<>>
            ELSE LET e == BestMatch(entries, d, i)
                 IN IF e = 0 THEN <<d[i]>> \o From[i + 1]
                    ELSE Reference(e - 1) \o From[i + MatchedLength(entries, e)]
    IN From[1]

DecompressWithDictionary(z, entries) ==
    LET IdAt(i) == (z[i] - 128) * 256 + z[i + 1]
        Broken(i) == z[i] >= 128 /\ (i = Len(z) \/ IdAt(i) >= Len(entries))
        Before(s, rest) == IF rest = FAILED THEN FAILED ELSE s \o rest
        From[i \in 1 .. Len(z) + 1] ==
            IF i > Len(z) THEN <<>>
            ELSE IF z[i] < 128 THEN Before(<<z[i]>>, From[i + 1])
            ELSE IF Broken(i) THEN FAILED
            ELSE Before(entries[IdAt(i) + 1], From[i + 2])
    IN From[1]

(***************************************************************************)
(* Numbers of the compact encoding                                         *)
(***************************************************************************)

FitsOneByte(value) == value < 128

(* encodeVarint: seven bits a byte, the least significant first. *)
EncodeVarint(value) ==
    LET Bytes[v \in 0 .. value] ==
            IF FitsOneByte(v) THEN <<v % 256>> ELSE <<128 + (v % 128)>> \o Bytes[v \div 128]
    IN Bytes[value]

(* readVarint at offset i: the value and the number of bytes read, or nothing *)
(* where no byte ends the number. Numbers are below 2^31, where shifts of 32   *)
(* bits lose nothing.                                                          *)
ReadVarint(bytes, i) ==
    LET End[k \in i .. Len(bytes) + 1] ==
            IF k > Len(bytes) THEN 0 ELSE IF bytes[k] < 128 THEN k ELSE End[k + 1]
        last == End[i]
        Value[k \in i .. last] ==
            IF k = last THEN bytes[k] ELSE (bytes[k] % 128) + 128 * Value[k + 1]
    IN IF last = 0 THEN [value |-> -1, read |-> 0]
       ELSE [value |-> Value[i], read |-> last - i + 1]

EncodeCompressedAmount(amount, common) ==
    LET at == SelectInSeq(common, LAMBDA a : a = amount)
    IN IF at # 0 /\ at <= 128 THEN <<128 + at - 1>> ELSE <<0>> \o EncodeVarint(amount)

ReadCompressedAmount(bytes, i, common) ==
    IF bytes[i] >= 128
    THEN [value |-> IF bytes[i] - 127 \in DOMAIN common THEN common[bytes[i] - 127] ELSE 0, read |-> 1]
    ELSE [ReadVarint(bytes, i + 1) EXCEPT !.read = @ + 1]

(* The fee is rounded up to a tier, or down to the last one. *)
FeeTiers == <<1, 10, 100, 1000, 10000>>

CompressFee(fee) ==
    LET enough == {i \in 1 .. 5 : fee <= FeeTiers[i]}
    IN IF enough = {} THEN 4 ELSE (CHOOSE i \in enough : \A j \in enough : i <= j) - 1

DecompressFee(tier) == IF tier < 5 THEN FeeTiers[tier + 1] ELSE FeeTiers[5]

(* updateCommonAmounts: the amounts of recent outputs, the most frequent first. *)
CommonAmounts(amounts) ==
    LET counted == FoldLeft(Counted, <<>>, amounts)
        best == Truncate(SortByFalling(counted, LAMBDA e : e.count), 128)
    IN [i \in DOMAIN best |-> best[i].pattern]

(***************************************************************************)
(* The compact encoding of transactions and blocks: a sequence of fields,  *)
(* where a field is an integer of a fixed width or a number of bytes; the  *)
(* reader has to know what comes next. Hashes are [prefix, rest] and lose  *)
(* all but their first eight bytes; addresses become numbers, and no number *)
(* becomes an address again; times lose their milliseconds.                *)
(***************************************************************************)

ShortHash(hash) == [prefix |-> hash.prefix, rest |-> 0]

(* compressAddress: the number of an address, and the table with it. *)
AddressId(table, address) ==
    IF Contains(table, address) THEN SelectInSeq(table, LAMBDA a : a = address) - 1 ELSE Len(table)

WithAddress(table, address) == IF Contains(table, address) THEN table ELSE Append(table, address)

(* The table before each output and after the last. *)
AddressTables(table, outputs) ==
    LET Table[i \in 1 .. Len(outputs) + 1] ==
            IF i = 1 THEN table ELSE WithAddress(Table[i - 1], outputs[i - 1].address)
    IN Table

(* The length of a script is written in two bytes. *)
CompactInput(input) ==
    <<ShortHash(input.previousTxId), input.outputIndex, Len(input.script) % ScriptModulus>> \o input.script

CompressUTXOTransaction(tx, table, common) ==
    LET tables == AddressTables(table, tx.outputs)
        Output(i) == EncodeCompressedAmount(tx.outputs[i].value, common)
                         \o <<AddressId(tables[i], tx.outputs[i].address)>>
    IN <<tx.id>> \o EncodeVarint(Len(tx.inputs))
         \o FlattenSeq([i \in DOMAIN tx.inputs |-> CompactInput(tx.inputs[i])])
         \o EncodeVarint(Len(tx.outputs))
         \o FlattenSeq([i \in DOMAIN tx.outputs |-> Output(i)])
         \o <<CompressFee(tx.fee), tx.timestamp \div 1000, tx.lockTime>>

(* Reads count items with Read(offset) = [value, read], one after the other. *)
ReadAll(Read(_), count, offset) ==
    LET Done[k \in 0 .. count] ==
            IF k = 0 THEN [items |-> <<>>, offset |-> offset]
            ELSE LET item == Read(Done[k - 1].offset)
                 IN [items |-> Append(Done[k - 1].items, item.value), offset |-> Done[k - 1].offset + item.read]
    IN Done[count]

ReadInput(z, i) ==
    [value |-> [previousTxId |-> z[i], outputIndex |-> z[i + 1], script |-> SubSeq(z, i + 3, i + 2 + z[i + 2])],
     read |-> 3 + z[i + 2]]

ReadOutput(z, i, common) ==
    LET amount == ReadCompressedAmount(z, i, common)
    IN [value |-> [value |-> amount.value, address |-> z[i + amount.read]], read |-> amount.read + 1]

DecompressUTXOTransaction(z, common) ==
    LET Input(i) == ReadInput(z, i)
        Output(i) == ReadOutput(z, i, common)
        inputCount == ReadVarint(z, 2)
        inputs == ReadAll(Input, inputCount.value, 2 + inputCount.read)
        outputCount == ReadVarint(z, inputs.offset)
        outputs == ReadAll(Output, outputCount.value, inputs.offset + outputCount.read)
        rest == outputs.offset
    IN [id |-> z[1], inputs |-> inputs.items, outputs |-> outputs.items, fee |-> DecompressFee(z[rest]),
        timestamp |-> z[rest + 1] * 1000, lockTime |-> z[rest + 2]]

(* Of the transactions of a block only the short hashes are left. *)
CompressUTXOBlock(block) ==
    <<block.index, block.timestamp \div 1000, block.previousHash, block.hash, block.merkleRoot, block.nonce, block.difficulty>>
        \o EncodeVarint(Len(block.transactions))
        \o [i \in DOMAIN block.transactions |-> ShortHash(block.transactions[i])]

DecompressUTXOBlock(z) ==
    LET count == ReadVarint(z, 8)
    IN [index |-> z[1], timestamp |-> z[2] * 1000, previousHash |-> z[3], hash |-> z[4], merkleRoot |-> z[5],
        nonce |-> z[6], difficulty |-> z[7], transactions |-> SubSeq(z, 8 + count.read, 7 + count.read + count.value)]

=============================================================================
