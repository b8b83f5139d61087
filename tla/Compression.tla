----------------------------- MODULE Compression -----------------------------
(* UTXOCompressionManager (packages/core/src/utxo-compression-manager.ts)    *)
(* with the engines the factory registers, the dictionaries of the           *)
(* dictionary engine, and CompressedUTXOMeshProtocol on top. The mesh makes   *)
(* a manager that knows the null engine only, the factory one that knows all. *)
(*                                                                           *)
(* Sizes are lengths. Statistics and benchmarks, which only measure, are left *)
(* out. What the entropy of data is cannot be computed here: data counts as   *)
(* random when it has ManyCharacters different ones, as it must have.         *)
EXTENDS CompressionEngines, FiniteSets

CONSTANTS
    Samples,           \* what is compressed, and what dictionaries are made from
    RecentTransactions, \* the sample the manager makes a dictionary of
    DictionaryIds,
    Configs,           \* [threshold, default, utxoOptimization, enableDictionary, maxMemory, maxExpansion]
    CacheSize,         \* entries of the algorithm cache
    MaxDictionaries,   \* of the dictionary engine
    MaxVersion,        \* bound: updates of a dictionary
    ManyCharacters,
    LargeBlock         \* blocks longer than this have an engine of their own

ASSUME CompressionAssumption ==
    /\ Samples \subseteq Seq(Codes)
    /\ \A c \in Configs : c.maxExpansion \in Nat

VARIABLES
    manager,           \* engines, config, algorithmCache, utxoPatterns, dictionaries
    engineDictionaries, \* of the dictionary engine: id -> dictionary
    dictionaryOrder,   \* its ids, the least recently updated first
    packet             \* what is on its way, see NoPacket

compressionVars == <<manager, engineDictionaries, dictionaryOrder, packet>>

NONE == "none"
Algorithms == {NONE, "protobuf", "gzip", "lz4", "utxo_custom", "utxo_dictionary"}

MessageTypes == {"utxo_transaction", "utxo_block", "blockchain_sync", "node_discovery"}

NoPacket == [sent |-> <<>>]

Updated(f, x, v) == [y \in DOMAIN f \cup {x} |-> IF y = x THEN v ELSE f[y]]

(***************************************************************************)
(* Selection                                                               *)
(***************************************************************************)

Occurs(d, code) == \E i \in DOMAIN d : d[i] = code

(* An object in JSON: a brace of each kind. *)
Structured(d) == Occurs(d, 123) /\ Occurs(d, 125)

(* More than 0.3 of the neighbours are equal. *)
Repetitive(d) ==
    Len(d) >= 2 /\ 10 * Cardinality({i \in 2 .. Len(d) : d[i] = d[i - 1]}) > 3 * (Len(d) - 1)

HighEntropy(d) == Cardinality({d[i] : i \in DOMAIN d}) >= ManyCharacters

AlgorithmByPatterns(d, config) ==
    CASE HighEntropy(d) -> NONE
      [] Repetitive(d) -> "lz4"
      [] Structured(d) -> "gzip"
      [] OTHER -> config.default

(* utxoPatterns is how many common addresses are known, -1 before any. *)
UTXOOptimized(d, type, m) ==
    CASE ~m.config.utxoOptimization \/ m.utxoPatterns < 0 -> "any"
      [] type = "utxo_transaction" /\ m.utxoPatterns > 10 -> "utxo_dictionary"
      [] type = "utxo_block" /\ Len(d) > LargeBlock -> "utxo_custom"
      [] OTHER -> "any"

AlgorithmForType(type) ==
    CASE type = "utxo_transaction" -> "protobuf"
      [] type = "utxo_block" -> "utxo_custom"
      [] type = "blockchain_sync" -> "gzip"
      [] OTHER -> "any"

Chosen(d, type, m) ==
    CASE UTXOOptimized(d, type, m) \in m.engines -> UTXOOptimized(d, type, m)
      [] AlgorithmForType(type) \in m.engines -> AlgorithmForType(type)
      [] AlgorithmByPatterns(d, m.config) \in m.engines -> AlgorithmByPatterns(d, m.config)
      [] OTHER -> NONE

Key(d, type) == <<Len(d), type>>

CachedAt(cache, key) == SelectInSeq(cache, LAMBDA e : e.key = key)

(* LRUCache: used entries go to the end, the first leaves a full cache. *)
CacheSet(cache, key, algorithm) ==
    LET others == SelectSeq(cache, LAMBDA e : e.key # key)
        kept == IF Len(others) = Len(cache) /\ Len(cache) >= CacheSize THEN Tail(others) ELSE others
    IN Append(kept, [key |-> key, algorithm |-> algorithm])

(* selectOptimalAlgorithm: the choice, and the cache after it. A cached choice *)
(* is taken for other data of the same length and type.                        *)
SelectOptimalAlgorithm(d, type, m) ==
    LET at == CachedAt(m.algorithmCache, Key(d, type))
        choice == IF at # 0 THEN m.algorithmCache[at].algorithm ELSE Chosen(d, type, m)
    IN IF at = 0 /\ Len(d) < m.config.threshold
       THEN [algorithm |-> NONE, cache |-> m.algorithmCache]
       ELSE [algorithm |-> choice, cache |-> CacheSet(m.algorithmCache, Key(d, type), choice)]

(***************************************************************************)
(* Compressing                                                             *)
(***************************************************************************)

Result(algorithm, data, d, id) ==
    [algorithm |-> algorithm, data |-> data, originalSize |-> Len(d), dictionaryId |-> id]

Uncompressed(d) == Result(NONE, d, d, "no dictionary")

(* An engine that throws leaves the data uncompressed. Protobuf and LZ4 are   *)
(* stand-ins that return their data; gzip is the library's.                   *)
EngineCompress(algorithm, d, id) ==
    CASE algorithm = "utxo_custom" -> Result(algorithm, CustomCompress(d), d, id)
      [] algorithm = "utxo_dictionary" ->
             IF id \notin DOMAIN engineDictionaries THEN Uncompressed(d)
             ELSE Result(algorithm, CompressWithDictionary(d, engineDictionaries[id].entries), d, id)
      [] OTHER -> Result(algorithm, d, d, id)

(* compress, with the algorithm the caller asks for or "any"; busy: the duty  *)
(* cycle leaves no time, and the fast engine is taken if there is one.        *)
CompressResult(d, type, option, busy, id) ==
    LET selected == IF option # "any" THEN option ELSE SelectOptimalAlgorithm(d, type, manager).algorithm
        used == IF busy /\ "lz4" \in manager.engines THEN "lz4" ELSE selected
    IN IF Len(d) < manager.config.threshold \/ selected \notin manager.engines
       THEN Uncompressed(d) ELSE EngineCompress(used, d, id)

CacheAfter(d, type, option) ==
    IF option # "any" \/ Len(d) < manager.config.threshold THEN manager.algorithmCache
    ELSE SelectOptimalAlgorithm(d, type, manager).cache

(* What the packet remembers of the dictionary, to compare it with later. *)
EntriesOf(id) == IF id \in DOMAIN engineDictionaries THEN engineDictionaries[id].entries ELSE <<FAILED>>

Compress(d, type, option, busy, id) ==
    /\ d # <<>>
    /\ packet' = [sent |-> d, result |-> CompressResult(d, type, option, busy, id), entries |-> EntriesOf(id), from |-> "caller"]
    /\ manager' = [manager EXCEPT !.algorithmCache = CacheAfter(d, type, option)]
    /\ UNCHANGED <<engineDictionaries, dictionaryOrder>>

SizeRight(z, out) == out # FAILED /\ Len(out) = z.originalSize

EngineDecompress(z) ==
    CASE z.algorithm = "utxo_dictionary" ->
             IF z.dictionaryId \in DOMAIN engineDictionaries
             THEN DecompressWithDictionary(z.data, engineDictionaries[z.dictionaryId].entries) ELSE FAILED
      [] OTHER -> z.data

(* decompress: the data, or FAILED. *)
Decompressed(z) ==
    LET valid == z.data # <<>> /\ z.originalSize > 0 /\ z.algorithm \in manager.engines
    IN IF valid /\ z.originalSize <= manager.config.maxExpansion * Len(z.data)
       THEN LET out == EngineDecompress(z) IN IF SizeRight(z, out) THEN out ELSE FAILED
       ELSE FAILED

ReceivePacket ==
    /\ packet # NoPacket
    /\ packet' = NoPacket
    /\ UNCHANGED <<manager, engineDictionaries, dictionaryOrder>>

(***************************************************************************)
(* The manager's configuration                                             *)
(***************************************************************************)

(* registerAlgorithm of each engine in its turn, as the factory does. *)
RegisterAllEngines ==
    /\ manager' = [manager EXCEPT !.engines = Algorithms]
    /\ UNCHANGED <<engineDictionaries, dictionaryOrder, packet>>

ValidConfig(c) == c.maxMemory > 0 /\ c.threshold >= 0 /\ c.default \in Algorithms

(* An invalid configuration is refused after it has been taken. *)
UpdateConfig(c) ==
    /\ manager' = [manager EXCEPT !.config = c, !.algorithmCache = IF ValidConfig(c) THEN <<>> ELSE @]
    /\ UNCHANGED <<engineDictionaries, dictionaryOrder, packet>>

(* optimizeForUTXOPatterns: the manager's own dictionary of recent            *)
(* transactions is made or updated; no engine ever sees it.                   *)
OptimizeForUTXOPatterns(addresses, recent) ==
    LET id == "utxo"
        known == id \in DOMAIN manager.dictionaries
        made == IF known THEN UpdatedDictionary(manager.dictionaries[id], <<recent>>) ELSE NewDictionary(<<recent>>)
    IN /\ known /\ manager.config.enableDictionary => manager.dictionaries[id].version < MaxVersion
       /\ manager' = [manager EXCEPT !.utxoPatterns = addresses,
                          !.dictionaries = IF manager.config.enableDictionary THEN Updated(@, id, made) ELSE @]
       /\ UNCHANGED <<engineDictionaries, dictionaryOrder, packet>>

EnableAdaptiveCompression(enable) ==
    /\ manager' = [manager EXCEPT !.algorithmCache = IF enable THEN @ ELSE <<>>]
    /\ UNCHANGED <<engineDictionaries, dictionaryOrder, packet>>

(***************************************************************************)
(* The dictionaries of the engine                                          *)
(***************************************************************************)

MovedToEnd(order, id) == Append(SelectSeq(order, LAMBDA i : i # id), id)

(* evictOldDictionaries: one dictionary, unless all were made this instant. *)
CreateDictionary(id, sample, sameInstant) ==
    LET order == MovedToEnd(dictionaryOrder, id)
        evicted == IF Len(order) > MaxDictionaries /\ ~sameInstant THEN {Head(order)} ELSE {}
        all == Updated(engineDictionaries, id, NewDictionary(<<sample>>))
    IN /\ engineDictionaries' = [i \in DOMAIN all \ evicted |-> all[i]]
       /\ dictionaryOrder' = SelectSeq(order, LAMBDA i : i \notin evicted)
       /\ UNCHANGED <<manager, packet>>

UpdateDictionary(id, sample) ==
    /\ id \in DOMAIN engineDictionaries /\ engineDictionaries[id].version < MaxVersion
    /\ engineDictionaries' = [engineDictionaries EXCEPT ![id] = UpdatedDictionary(engineDictionaries[id], <<sample>>)]
    /\ dictionaryOrder' = MovedToEnd(dictionaryOrder, id)
    /\ UNCHANGED <<manager, packet>>

DeleteDictionary(id) ==
    /\ id \in DOMAIN engineDictionaries
    /\ engineDictionaries' = [i \in DOMAIN engineDictionaries \ {id} |-> engineDictionaries[i]]
    /\ dictionaryOrder' = SelectSeq(dictionaryOrder, LAMBDA i : i # id)
    /\ UNCHANGED <<manager, packet>>

(***************************************************************************)
(* The compressed mesh: a message is [type, payload], and compressed it is   *)
(* compressed as a whole. Only the payload, the signature and the number of   *)
(* the type survive the serializer; its signature goes with the payload here. *)
(***************************************************************************)

MessageTypeEnum(type) == CASE type = "route_request" -> 4 [] type = "hello" -> 7 [] OTHER -> 0

SerializeMessage(message) == <<MessageTypeEnum(message.type)>> \o message.payload

DeserializeMessage(data) == Tail(data)

MapMessageType(type) ==
    CASE type = "transaction" -> "utxo_transaction" [] type = "block" -> "utxo_block"
      [] type = "discovery" -> "node_discovery" [] OTHER -> "blockchain_sync"

(* Transactions and blocks ask for the custom engine, others for nothing. *)
OptionFor(type) == IF type \in {"transaction", "block"} THEN "utxo_custom" ELSE "any"

SendCompressedMessage(message) ==
    LET d == SerializeMessage(message)
        type == MapMessageType(message.type)
        option == OptionFor(message.type)
    IN /\ option # "any" \/ Len(message.payload) >= manager.config.threshold
       /\ packet' = [sent |-> message.payload, result |-> CompressResult(d, type, option, FALSE, "default"),
                     entries |-> EntriesOf("default"), from |-> "mesh"]
       /\ manager' = [manager EXCEPT !.algorithmCache = CacheAfter(d, type, option)]
       /\ UNCHANGED <<engineDictionaries, dictionaryOrder>>

(* What receiveMessage hands up, taken to the serializer where it has not been. *)
Recovered(p) ==
    LET data == Decompressed(p.result)
    IN IF p.from = "caller" \/ data = FAILED THEN data ELSE DeserializeMessage(data)

CompressionInit ==
    /\ \E c \in Configs : ValidConfig(c)
           /\ manager = [engines |-> {NONE}, config |-> c, algorithmCache |-> <<>>, utxoPatterns |-> -1, dictionaries |-> <<>>]
    /\ engineDictionaries = <<>>
    /\ dictionaryOrder = <<>>
    /\ packet = NoPacket

CompressionNext ==
    \/ \E d \in Samples, type \in MessageTypes, option \in Algorithms \cup {"any"}, busy \in BOOLEAN, id \in DictionaryIds :
           packet = NoPacket /\ Compress(d, type, option, busy, id)
    \/ \E d \in Samples, type \in {"transaction", "block", "sync"} :
           packet = NoPacket /\ SendCompressedMessage([type |-> type, payload |-> d])
    \/ ReceivePacket
    \/ RegisterAllEngines
    \/ \E c \in Configs : UpdateConfig(c)
    \/ \E n \in {0, 11} : OptimizeForUTXOPatterns(n, RecentTransactions)
    \/ \E enable \in BOOLEAN : EnableAdaptiveCompression(enable)
    \/ \E id \in DictionaryIds, d \in Samples, now \in BOOLEAN : CreateDictionary(id, d, now)
    \/ \E id \in DictionaryIds, d \in Samples : UpdateDictionary(id, d)
    \/ \E id \in DictionaryIds : DeleteDictionary(id)

(* What was compressed comes out as it went in or not at all, whatever has   *)
(* been registered, configured or cached since, unless the entries of its    *)
(* dictionary have changed; and it comes out if its engine loses nothing.    *)
NothingGarbled ==
    packet # NoPacket =>
        LET out == Recovered(packet)
            algorithm == packet.result.algorithm
            id == packet.result.dictionaryId
            same == algorithm # "utxo_dictionary" \/ EntriesOf(id) = packet.entries
            expands == packet.result.originalSize > manager.config.maxExpansion * Len(packet.result.data)
        IN same => /\ out \in {packet.sent, FAILED}
                   /\ algorithm # "utxo_custom" /\ ~expands => out = packet.sent
=============================================================================
