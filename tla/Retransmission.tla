---------------------------- MODULE Retransmission ----------------------------
(* EnhancedUTXOFragmentReassembler (packages/core/src/fragmentation.ts): next *)
(* to the session in which UTXOFragmentReassembler puts a message together it *)
(* keeps one of its own, with a bitmap of what has arrived, and asks for what *)
(* is missing, a bounded number of times, each time waiting longer.           *)
(*                                                                           *)
(* A message is known by its number of fragments. Every message counts as a   *)
(* transaction here, as determineMessageType has it, so that the tasks of the *)
(* queue are ordered by their time alone. Time passes in ticks, the jitter of *)
(* a waiting time being less than one. The quota of a node may refuse any     *)
(* fragment.                                                                  *)
EXTENDS Integers, Sequences, SequencesExt, FiniteSets

CONSTANTS
    Transfers,             \* messages that are put together
    FragmentsOf,           \* message -> number of its fragments
    MaxBaseSessions,       \* maxSessions of UTXOFragmentReassembler
    BaseTimeout,           \* its sessionTimeout
    BaseBackoff, MaxBackoff,
    NetworkConfigs,        \* [maxAttempts, timeout], see OptimizeForNetworkConditions
    MaxRetransmissionTasks \* 1000

ASSUME RetransmissionAssumption ==
    /\ FragmentsOf \in [Transfers -> Nat \ {0}]
    /\ BaseTimeout \in Nat
    /\ \A c \in NetworkConfigs : c.maxAttempts \in Nat /\ c.timeout \in Nat /\ c.timeout >= BaseTimeout

VARIABLES
    base,                  \* message -> [received, age], of UTXOFragmentReassembler
    enhanced,              \* message -> session, see NewEnhanced
    retransmissionQueue,   \* [message, due], the earliest first
    config,                \* of NetworkConfigs
    cleaning,              \* messages to be forgotten once all are persisted
    persistence,           \* whether there is a database for sessions
    silent                 \* nothing arrives any more

retransmissionVars == <<base, enhanced, retransmissionQueue, config, cleaning, persistence, silent>>

NotCleaning == {"not cleaning"}

(* A fragment or an acknowledgment arrives. *)
Arrives == ~silent /\ UNCHANGED <<persistence, silent, config>>

Put(f, x, v) == [y \in DOMAIN f \cup {x} |-> IF y = x THEN v ELSE f[y]]

Removed(f, S) == [y \in DOMAIN f \ S |-> f[y]]

FragmentsFrom(m) == 0 .. FragmentsOf[m] - 1

(***************************************************************************)
(* The session of the enhanced reassembler                                 *)
(***************************************************************************)

(* The bitmap is a set of numbers; it has room for whole bytes. *)
NewEnhanced(m, i) ==
    [bitmap |-> {}, missing |-> FragmentsFrom(m) \ {i}, retries |-> 0, wait |-> 0, age |-> 0, state |-> "receiving"]

BitmapSize(m) == 8 * ((FragmentsOf[m] + 7) \div 8)

WithBits(s, m, bits) == [s EXCEPT !.bitmap = @ \cup {i \in bits : i < BitmapSize(m)}]

WithMissing(s, m) == [s EXCEPT !.missing = FragmentsFrom(m) \ s.bitmap]

Smaller(a, b) == IF a < b THEN a ELSE b

Backoff(retries) == Smaller(BaseBackoff * 2 ^ retries, MaxBackoff)

MayAsk(s) == s.missing # {} /\ s.state = "receiving" /\ s.wait = 0

(* scheduleRetransmissionIfNeeded: the session, and the task if there is one. *)
Scheduled(s, m) ==
    LET due == Backoff(s.retries)
    IN IF ~MayAsk(s) THEN [session |-> s, tasks |-> <<>>]
       ELSE IF s.retries >= config.maxAttempts THEN [session |-> [s EXCEPT !.state = "failed"], tasks |-> <<>>]
       ELSE [session |-> [s EXCEPT !.wait = due, !.retries = @ + 1, !.state = "waiting_retransmission"],
             tasks |-> <<[message |-> m, due |-> due]>>]

(* A task goes behind those that are due no later. *)
Enqueued(queue, tasks) ==
    FoldLeft(LAMBDA q, t : SelectSeq(q, LAMBDA u : u.due <= t.due) \o <<t>> \o SelectSeq(q, LAMBDA u : u.due > t.due),
             queue, tasks)

(***************************************************************************)
(* Fragments                                                               *)
(***************************************************************************)

OldestBase == {m \in DOMAIN base : base[m].age > 0 /\ \A n \in DOMAIN base : base[n].age <= base[m].age}

(* The sessions that stay when one more is opened. *)
BaseRooms ==
    IF Cardinality(DOMAIN base) >= MaxBaseSessions /\ OldestBase # {}
    THEN {Removed(base, {m}) : m \in OldestBase} ELSE {base}

BaseComplete(b, m) == m \in DOMAIN b /\ b[m].received = FragmentsFrom(m)

(* Fault: the bitmap of a session that is there already is not updated. *)
NotedNewOnly(m, i) ==
    IF m \in DOMAIN enhanced THEN WithMissing(enhanced[m], m)
    ELSE WithMissing(WithBits(NewEnhanced(m, i), m, {i}), m)

Noted(m, i) ==
    LET s == IF m \in DOMAIN enhanced THEN enhanced[m] ELSE NewEnhanced(m, i)
    IN WithMissing(WithBits(s, m, {i}), m)

(* What the base has not had yet. Whatever scheduling makes of the state, it  *)
(* ends as receiving or complete.                                             *)
AddNewFragment(m, i) ==
    \E room \in IF m \in DOMAIN base THEN {base} ELSE BaseRooms :
        LET received == (IF m \in DOMAIN base THEN base[m].received ELSE {}) \cup {i}
            scheduled == Scheduled(Noted(m, i), m)
        IN /\ base' = Put(room, m, [received |-> received, age |-> 0])
           /\ enhanced' = Put(enhanced, m,
                  [scheduled.session EXCEPT !.age = 0,
                      !.state = IF received = FragmentsFrom(m) THEN "complete" ELSE "receiving"])
           /\ retransmissionQueue' = Enqueued(retransmissionQueue, scheduled.tasks)

(* One that is refused by the quota, damaged, or had before, changes nothing. *)
AddFragmentOf(m, i) ==
    /\ Arrives
    /\ ~(m \in DOMAIN base /\ i \in base[m].received)
    /\ AddNewFragment(m, i)
    /\ UNCHANGED cleaning

(* getCompleteUTXOTransaction, getCompleteBlock, getCompleteMerkleProof *)
GetComplete(m) ==
    /\ BaseComplete(base, m)
    /\ base' = Removed(base, {m})
    /\ UNCHANGED <<enhanced, retransmissionQueue, config, cleaning, persistence, silent>>

(***************************************************************************)
(* Acknowledgments                                                         *)
(***************************************************************************)

(* Of some fragments, or of all up to one; this node counts them as its own. *)
ProcessAcknowledgment(m, acknowledged) ==
    /\ Arrives
    /\ m \in DOMAIN enhanced
    /\ LET noted == WithBits(enhanced[m], m, acknowledged)
       IN enhanced' = [enhanced EXCEPT ![m] = [noted EXCEPT !.missing = @ \ acknowledged, !.age = 0]]
    /\ UNCHANGED <<base, retransmissionQueue, cleaning>>

(* What a neighbour lacks is missing, and may be asked for at once. *)
ProcessNack(m, lacking) ==
    /\ Arrives
    /\ m \in DOMAIN enhanced
    /\ LET asked == [enhanced[m] EXCEPT !.missing = @ \cup lacking, !.wait = 0]
           scheduled == Scheduled(asked, m)
       IN /\ enhanced' = [enhanced EXCEPT ![m] = [scheduled.session EXCEPT !.age = 0]]
          /\ retransmissionQueue' = Enqueued(retransmissionQueue, scheduled.tasks)
    /\ UNCHANGED <<base, cleaning>>

(***************************************************************************)
(* Timers                                                                  *)
(***************************************************************************)

(* Every second: the requests that are due go out. *)
ProcessRetransmissionQueue ==
    /\ retransmissionQueue # <<>> /\ Head(retransmissionQueue).due = 0
    /\ retransmissionQueue' = SelectSeq(retransmissionQueue, LAMBDA t : t.due > 0)
    /\ UNCHANGED <<base, enhanced, config, cleaning, persistence, silent>>

(* No session is ever marked as expired. *)
ExpiredEnhanced == {m \in DOMAIN enhanced : enhanced[m].age > config.timeout \/ enhanced[m].state = "expired"}

(* cleanup: the expired sessions are determined, the others persisted, which  *)
(* takes time with a database but less than to the next cleanup, and then the *)
(* expired ones are forgotten.                                                *)
PerformEnhancedCleanup ==
    /\ cleaning = NotCleaning
    /\ base' = Removed(base, {m \in DOMAIN base : base[m].age > BaseTimeout})
    /\ IF persistence
       THEN cleaning' = ExpiredEnhanced /\ UNCHANGED enhanced
       ELSE enhanced' = Removed(enhanced, ExpiredEnhanced) /\ UNCHANGED cleaning
    /\ retransmissionQueue' = IF Len(retransmissionQueue) > MaxRetransmissionTasks THEN <<>> ELSE retransmissionQueue
    /\ UNCHANGED <<config, persistence, silent>>

SessionsPersisted ==
    /\ cleaning # NotCleaning
    /\ enhanced' = Removed(enhanced, cleaning)
    /\ cleaning' = NotCleaning
    /\ UNCHANGED <<base, retransmissionQueue, config, persistence, silent>>

(* Lossy networks get more attempts, slow ones longer sessions. *)
OptimizeForNetworkConditions(c) ==
    /\ ~silent
    /\ config' = c
    /\ UNCHANGED <<base, enhanced, retransmissionQueue, cleaning, persistence, silent>>

Sooner(n) == IF n = 0 THEN 0 ELSE n - 1

LongestTimeout == CHOOSE t \in {c.timeout : c \in NetworkConfigs} : \A c \in NetworkConfigs : c.timeout <= t

OlderTo(age, limit) == IF age > limit THEN age ELSE age + 1

RetransmissionTick ==
    /\ \A i \in DOMAIN retransmissionQueue : retransmissionQueue[i].due > 0
    /\ base' = [m \in DOMAIN base |-> [base[m] EXCEPT !.age = OlderTo(@, BaseTimeout)]]
    /\ enhanced' = [m \in DOMAIN enhanced |->
                       [enhanced[m] EXCEPT !.age = OlderTo(@, LongestTimeout), !.wait = Sooner(@)]]
    /\ retransmissionQueue' = [i \in DOMAIN retransmissionQueue |-> [retransmissionQueue[i] EXCEPT !.due = @ - 1]]
    /\ UNCHANGED <<config, cleaning, persistence, silent>>

Silence ==
    /\ ~silent /\ silent' = TRUE
    /\ UNCHANGED <<base, enhanced, retransmissionQueue, config, cleaning, persistence>>

RetransmissionInit ==
    /\ base = <<>> /\ enhanced = <<>>
    /\ retransmissionQueue = <<>>
    /\ config \in NetworkConfigs
    /\ cleaning = NotCleaning
    /\ persistence \in BOOLEAN
    /\ silent = FALSE

RetransmissionTimers ==
    ProcessRetransmissionQueue \/ PerformEnhancedCleanup \/ SessionsPersisted \/ RetransmissionTick

RetransmissionNext ==
    \/ \E m \in Transfers :
           \/ GetComplete(m)
           \/ \E i \in FragmentsFrom(m) : AddFragmentOf(m, i) \/ ProcessNack(m, {i})
           \/ \E i \in FragmentsFrom(m) : ProcessAcknowledgment(m, {i}) \/ ProcessAcknowledgment(m, 0 .. i)
    \/ \E c \in NetworkConfigs : OptimizeForNetworkConditions(c)
    \/ RetransmissionTimers \/ Silence

RetransmissionSpec == RetransmissionInit /\ [][RetransmissionNext]_retransmissionVars

(* Timers fire and time passes. *)
RetransmissionFairness ==
    /\ WF_retransmissionVars(ProcessRetransmissionQueue)
    /\ WF_retransmissionVars(PerformEnhancedCleanup)
    /\ WF_retransmissionVars(SessionsPersisted)
    /\ WF_retransmissionVars(RetransmissionTick)

(***************************************************************************)
(* Properties                                                              *)
(***************************************************************************)

(* The two sessions of a message agree as long as nothing is persisted: what  *)
(* has arrived is not asked for again, whichever of the sessions was evicted, *)
(* expired, handed up or kept alive by acknowledgments; and a message that    *)
(* counts as complete is.                                                     *)
SessionsAgree ==
    ~persistence =>
        \A m \in DOMAIN base :
            /\ m \in DOMAIN enhanced
            /\ base[m].received \subseteq enhanced[m].bitmap
            /\ enhanced[m].state = "complete" => BaseComplete(base, m)

(* Once nothing arrives any more, all requests go out and all sessions end,   *)
(* the failed and the complete ones too.                                      *)
EverythingForgotten ==
    silent ~> (retransmissionQueue = <<>> /\ DOMAIN enhanced = {} /\ DOMAIN base = {})
=============================================================================
