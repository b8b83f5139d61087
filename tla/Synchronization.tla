--------------------------- MODULE Synchronization ---------------------------
(* Downloads as packages/core/src/sync-strategies.ts has them: the blocks of a *)
(* batch over a pool of connections, each from one peer after the other until  *)
(* one answers, and the snapshot of the UTXO set likewise. HybridSyncStrategy  *)
(* chooses the peers by the kind of network it finds itself in.                *)
(*                                                                            *)
(* What a peer answers is left open, since sending and reading is not written. *)
(* What a gateway relays over the mesh afterwards is left out: it never ends.  *)
EXTENDS Integers, Sequences, SequencesExt

CONSTANTS
    HashesOf,            \* batch of a call -> the blocks it asks for
    SyncPeers,           \* as they are tried: [id, type]
    MaxPoolConnections   \* maxConnections

ASSUME SyncAssumption ==
    /\ \A b \in DOMAIN HashesOf : IsInjective(HashesOf[b])
    /\ \A i \in DOMAIN SyncPeers : SyncPeers[i].type \in {"internet", "mesh"}
    /\ MaxPoolConnections \in Nat \ {0}

VARIABLES
    peersOf,             \* batch that was asked for -> the peers it may ask
    connectionPool,      \* [active |-> number of connections, queue |-> tasks]
    downloading,         \* task <<batch, block>> -> the peers that are left
    ended,               \* task -> whether the block came
    snapshotPeers        \* the peers left to ask for the snapshot, if it is wanted

syncVars == <<peersOf, connectionPool, downloading, ended, snapshotPeers>>

NoSnapshot == <<[id |-> "none wanted", type |-> "internet"]>>

Batches == DOMAIN HashesOf

TasksOf(b) == {<<b, HashesOf[b][i]>> : i \in DOMAIN HashesOf[b]}

Internet(peers) == SelectSeq(peers, LAMBDA p : p.type = "internet")

-----------------------------------------------------------------------------
(* ConnectionPool                                                             *)

(* A task takes a connection or a place in the queue.                         *)
Executed(pool, task) ==
    IF pool.active < MaxPoolConnections THEN [pool EXCEPT !.active = @ + 1] ELSE [pool EXCEPT !.queue = Append(@, task)]

(* Fault: the one that waits longest is not served.                           *)
FinishedAlone(pool) == [pool EXCEPT !.active = @ - 1]

(* A task that ends, either way, makes room for one of the queue.             *)
Finished(pool) == IF pool.queue = <<>> THEN [pool EXCEPT !.active = @ - 1] ELSE [pool EXCEPT !.queue = Tail(@)]

(* What is asked for, but neither waits nor has ended, is being downloaded.   *)
Downloading(asked, pool, over) == {t \in UNION {TasksOf(b) : b \in asked} : t \notin ToSet(pool.queue) \cup over}

-----------------------------------------------------------------------------
(* InternetSyncStrategy                                                       *)

ParallelBlockDownload(b, peers) ==
    LET pool == FoldLeft(LAMBDA p, h : Executed(p, <<b, h>>), connectionPool, HashesOf[b])
    IN /\ peersOf' = [c \in DOMAIN peersOf \cup {b} |-> IF c = b THEN peers ELSE peersOf[c]]
       /\ connectionPool' = pool
       /\ downloading' = [t \in Downloading(DOMAIN peersOf', pool, DOMAIN ended) |->
                             IF t[1] = b THEN peers ELSE downloading[t]]
       /\ UNCHANGED <<ended, snapshotPeers>>

(* The task of a connection is over; another may take its place.              *)
Settle(task, found) ==
    LET pool == Finished(connectionPool)
        over == DOMAIN ended \cup {task}
    IN /\ connectionPool' = pool
       /\ ended' = [t \in over |-> IF t = task THEN found ELSE ended[t]]
       /\ downloading' = [t \in Downloading(DOMAIN peersOf, pool, over) |->
                             IF t \in DOMAIN downloading THEN downloading[t] ELSE peersOf[t[1]]]
       /\ UNCHANGED <<peersOf, snapshotPeers>>

(* downloadBlock: the peer answers, or the next one is asked, or none is left. *)
DownloadBlock(task) ==
    /\ task \in DOMAIN downloading
    /\ \/ downloading[task] # <<>> /\ Settle(task, TRUE)
       \/ downloading[task] = <<>> /\ Settle(task, FALSE)
       \/ /\ downloading[task] # <<>>
          /\ downloading' = [downloading EXCEPT ![task] = Tail(@)]
          /\ UNCHANGED <<peersOf, connectionPool, ended, snapshotPeers>>

BatchUTXOSetSync ==
    /\ snapshotPeers = NoSnapshot
    /\ snapshotPeers' = SyncPeers
    /\ UNCHANGED <<peersOf, connectionPool, downloading, ended>>

(* A snapshot comes from a peer, or the next is asked, or there is none.      *)
DownloadUTXOSnapshot ==
    /\ snapshotPeers # NoSnapshot
    /\ \/ snapshotPeers' = NoSnapshot
       \/ snapshotPeers # <<>> /\ snapshotPeers' = Tail(snapshotPeers)
    /\ UNCHANGED <<peersOf, connectionPool, downloading, ended>>

-----------------------------------------------------------------------------
(* HybridSyncStrategy: without the internet blocks come over the mesh.        *)
AdaptiveSync(b, networkType) ==
    /\ b \notin DOMAIN peersOf
    /\ networkType \in {"internet", "gateway"}
    /\ ParallelBlockDownload(b, IF networkType = "gateway" THEN Internet(SyncPeers) ELSE SyncPeers)

SyncInit ==
    /\ peersOf = <<>> /\ downloading = <<>> /\ ended = <<>>
    /\ connectionPool = [active |-> 0, queue |-> <<>>]
    /\ snapshotPeers = NoSnapshot

BlocksArrive == \E b \in Batches : \E t \in TasksOf(b) : DownloadBlock(t)

SyncNext ==
    \/ \E b \in Batches, networkType \in {"internet", "gateway"} : AdaptiveSync(b, networkType)
    \/ BatchUTXOSetSync
    \/ BlocksArrive \/ DownloadUTXOSnapshot

(* A request is answered or fails. *)
SyncFairness == WF_syncVars(BlocksArrive)

-----------------------------------------------------------------------------
(* Every block that was asked for is downloaded or given up, although other   *)
(* batches, some of which have failed already, hold all connections: each     *)
(* task that ends, with the block or without, lets the next one in.           *)
DownloadsEnd == \A b \in Batches : b \in DOMAIN peersOf ~> TasksOf(b) \subseteq DOMAIN ended

=============================================================================
