---------------------------- MODULE FloodControl ----------------------------
(***************************************************************************)
(* BlockchainFloodManager and CryptoLoopPrevention (routing.ts): the cache *)
(* that suppresses copies of flooded messages and the sequence numbers of  *)
(* other nodes.  Entries carry their age; both cleanups run every          *)
(* CleanupInterval.                                                        *)
(***************************************************************************)
EXTENDS Integers, FiniteSets, FiniteSetsExt, Functions

CONSTANTS Floods,               \* the messages that arrive
          Originators, SequenceNumbers,
          FloodCacheSize, FloodExpiry, MaxSequenceNumberAge, CleanupInterval,
          MaxBurst              \* bound: floods accepted between two ticks

BlockchainFloodMessage ==
    [id : Int, originator : Originators, sequenceNumber : SequenceNumbers,
     ttl : Nat, signed : BOOLEAN]

BlockchainFloodEntry == [messageId : Int, age : Nat, processed : BOOLEAN]

CryptoSequenceEntry == [sequenceNumber : SequenceNumbers, age : Nat]

ASSUME FloodAssumption ==
    /\ Floods \subseteq BlockchainFloodMessage
    /\ SequenceNumbers \subseteq Nat
    /\ {FloodCacheSize, FloodExpiry, MaxSequenceNumberAge, CleanupInterval, MaxBurst} \subseteq Nat \ {0}

VARIABLES floodCache,       \* entries by originator and sequence number
          accepted,         \* floods let through since the last tick
          worstBurst,       \* history: the most that ever were
          sequenceNumbers,  \* the entry of each known originator
          learned,          \* history: the numbers stored, with their ages
          floodCleanupIn

floodVars == <<floodCache, accepted, worstBurst, sequenceNumbers, learned,
               floodCleanupIn>>

Key(m) == <<m.originator, m.sequenceNumber>>

Cached == DOMAIN floodCache

-----------------------------------------------------------------------------
(* BlockchainFloodManager.                                                 *)
Suppressed(m) == Key(m) \in Cached /\ floodCache[Key(m)].processed

(* Entries of this instant are never evicted: oldestTime starts at now.    *)
Oldest ==
    {k \in Cached : /\ floodCache[k].age > 0
                    /\ \A l \in Cached : floodCache[l].age <= floodCache[k].age}

RoomMade ==
    IF Cardinality(Cached) < FloodCacheSize \/ Oldest = {}
    THEN {Cached}
    ELSE {Cached \ {k} : k \in Oldest}

FloodEntry(m) == [messageId |-> m.id, age |-> 0, processed |-> FALSE]

(* Room is made even when the entry replaces one of the same key.          *)
ShouldForwardFlood(m) ==
    /\ accepted < MaxBurst
    /\ ~ Suppressed(m)
    /\ m.ttl > 0
    /\ m.signed
    /\ \E kept \in RoomMade :
        floodCache' = [k \in kept \cup {Key(m)} |->
                        IF k = Key(m) THEN FloodEntry(m) ELSE floodCache[k]]
    /\ accepted' = accepted + 1
    /\ worstBurst' = Max({worstBurst, accepted + 1})
    /\ UNCHANGED <<sequenceNumbers, learned, floodCleanupIn>>

(* The first entry with the id, in the order of insertion: any.            *)
MarkFloodProcessed(k) ==
    /\ floodCache' = [floodCache EXCEPT ![k].processed = TRUE]
    /\ UNCHANGED <<accepted, worstBurst, sequenceNumbers, learned, floodCleanupIn>>

DecrementTTL(m) == [m EXCEPT !.ttl = Max({0, @ - 1})]

ClearFloodCache ==
    /\ floodCache' = [k \in {} |-> 0]
    /\ UNCHANGED <<accepted, worstBurst, sequenceNumbers, learned, floodCleanupIn>>

-----------------------------------------------------------------------------
(* CryptoLoopPrevention.                                                   *)
Known == DOMAIN sequenceNumbers

(* Fault: an older number replaces the one that is known.                  *)
AnyNumber(n, seq) == TRUE

NewerNumber(n, seq) == n \in Known => seq > sequenceNumbers[n].sequenceNumber

UpdateSequenceNumber(n, seq) ==
    /\ NewerNumber(n, seq)
    /\ sequenceNumbers' = [k \in Known \cup {n} |->
                            IF k = n THEN [sequenceNumber |-> seq, age |-> 0]
                            ELSE sequenceNumbers[k]]
    /\ learned' = learned \cup {[node |-> n, sequenceNumber |-> seq, age |-> 0]}
    /\ UNCHANGED <<floodCache, accepted, worstBurst, floodCleanupIn>>

TooOld(n) == sequenceNumbers[n].age > MaxSequenceNumberAge

IsValidSequenceNumber(n, seq) ==
    n \in Known => TooOld(n) \/ seq > sequenceNumbers[n].sequenceNumber

(* The check forgets a number that is too old.                             *)
CheckSequenceNumber(n) ==
    /\ n \in Known
    /\ TooOld(n)
    /\ sequenceNumbers' = Restrict(sequenceNumbers, Known \ {n})
    /\ UNCHANGED <<floodCache, accepted, worstBurst, learned, floodCleanupIn>>

-----------------------------------------------------------------------------
FreshFloods == {k \in Cached : floodCache[k].age <= FloodExpiry}

CleanupFloods ==
    /\ floodCleanupIn = 0
    /\ floodCleanupIn' = CleanupInterval
    /\ floodCache' = Restrict(floodCache, FreshFloods)
    /\ sequenceNumbers' = Restrict(sequenceNumbers, {n \in Known : ~ TooOld(n)})
    /\ UNCHANGED <<accepted, worstBurst, learned>>

FloodTick ==
    /\ floodCleanupIn > 0
    /\ floodCleanupIn' = floodCleanupIn - 1
    /\ accepted' = 0
    /\ floodCache' = [k \in Cached |-> [floodCache[k] EXCEPT !.age = @ + 1]]
    /\ sequenceNumbers' = [n \in Known |-> [sequenceNumbers[n] EXCEPT !.age = @ + 1]]
    /\ learned' = {[l EXCEPT !.age = @ + 1] :
                    l \in {x \in learned : x.age <= MaxSequenceNumberAge}}
    /\ UNCHANGED worstBurst

FloodInit ==
    /\ floodCache = [k \in {} |-> 0]
    /\ accepted = 0
    /\ worstBurst = 0
    /\ sequenceNumbers = [n \in {} |-> 0]
    /\ learned = {}
    /\ floodCleanupIn = CleanupInterval

FloodCacheNext ==
    \/ \E m \in Floods \cup {DecrementTTL(f) : f \in Floods} : ShouldForwardFlood(m)
    \/ \E k \in Cached : MarkFloodProcessed(k)
    \/ ClearFloodCache

SequenceNext ==
    \/ \E n \in Originators, seq \in SequenceNumbers : UpdateSequenceNumber(n, seq)
    \/ \E n \in Originators : CheckSequenceNumber(n)

FloodTimerNext == CleanupFloods \/ FloodTick

FloodSpec == FloodInit /\ [][FloodCacheNext \/ SequenceNext \/ FloodTimerNext]_floodVars

-----------------------------------------------------------------------------
(* The cache holds no more than its limit, or than the worst burst of one  *)
(* instant when that was more: eviction spares what came this instant, and *)
(* later messages replace what a burst left, one for one.                  *)
FloodCacheBounded == Cardinality(Cached) <= Max({FloodCacheSize, worstBurst})

(* No sequence number is accepted a second time before it is too old,      *)
(* whatever came after it and whichever cleanup ran: the entry that is     *)
(* kept is always one at least as new.                                     *)
NoReplayWhileFresh ==
    \A l \in learned :
        l.age <= MaxSequenceNumberAge => ~ IsValidSequenceNumber(l.node, l.sequenceNumber)

(* Neither of the two tables that stop repetition grows or forgets too     *)
(* much, in bursts and over cleanups.                                      *)
FloodControlSound == FloodCacheBounded /\ NoReplayWhileFresh
=============================================================================
