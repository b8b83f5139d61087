----------------------------- MODULE DutyCycle -----------------------------
(***************************************************************************)
(* DutyCycleManager with its PriorityMessageQueue and                      *)
(* RegionalComplianceValidator (duty-cycle.ts): a queue of messages that a *)
(* timer empties as far as the duty cycle of the region allows.            *)
(*                                                                         *)
(* A tick is the processing interval, one second.  Every transmission is   *)
(* taken to last Duration, as in the code.  Duty cycles are airtime in     *)
(* milliseconds per window, so that the arithmetic is exact.               *)
(***************************************************************************)
EXTENDS Ordering, FiniteSetsExt, SequencesExt, Functions

CONSTANTS Messages,
          Priority,         \* 0 (CRITICAL) to 3 (LOW)
          Configs,          \* configurations given to constructor, updateConfig
          BandOf,           \* the frequency band of each frequency
          SubBandOf,        \* its sub-band, or NoSubBand
          SubBandLimit,     \* airtime per window of each sub-band
          NoSubBand,
          DefaultLimit,     \* airtime per window where a region names none
          Window,           \* trackingWindowHours, in ticks
          Retention,        \* 24 hours, in ticks
          TTL,              \* five minutes, in ticks
          MaxSize,          \* of the queue
          MaxRestarts       \* bound

Priorities == 0 .. 3
Critical == 0
Duration == 1000

NorthAmerica == {"US", "CA", "MX"}
NoDutyCycle == NorthAmerica \cup {"AU", "NZ", "BR", "AR"}

Frequencies == DOMAIN BandOf
Bands == Range(BandOf)

DutyCycleConfig ==
    [region                   : STRING,
     bands                    : SUBSET Bands,
     frequency                : Frequencies,  \* of the active band
     maxDutyCycle             : Nat,          \* airtime per window, 0 if not given
     maxTransmissionTimeMs    : Nat,
     frequencyHopping         : BOOLEAN,
     dwellTimeMs              : Nat,          \* 0 if not given
     emergencyOverrideEnabled : BOOLEAN]

ASSUME DutyCycleAssumption ==
    /\ IsFiniteSet(Messages)
    /\ Priority \in [Messages -> Priorities]
    /\ Configs # {} /\ Configs \subseteq DutyCycleConfig
    /\ SubBandOf \in [Frequencies -> DOMAIN SubBandLimit \cup {NoSubBand}]
    /\ NoSubBand \notin DOMAIN SubBandLimit
    /\ Range(SubBandLimit) \subseteq Nat \ {0}
    /\ DefaultLimit \in [{"EU", "JP"} -> Nat]
    /\ {Window, Retention, TTL, MaxSize} \subseteq Nat \ {0}
    /\ Window <= Retention
    /\ MaxRestarts \in Nat

VARIABLES config, isRunning,
          queue,                \* the messages of each priority, oldest first
          transmissionHistory,  \* what the manager knows was transmitted
          enqueued,             \* messages given to enqueueMessage so far
          due,                  \* the processing interval has elapsed
          aired,                \* history: every transmission of the last day
          restarts

vars == <<config, isRunning, queue, transmissionHistory, enqueued, due, aired, restarts>>

-----------------------------------------------------------------------------
(* RegionalComplianceValidator.                                            *)
FrequencyBandAllowed(c) == BandOf[c.frequency] \in c.bands

DwellTime(c) == IF c.dwellTimeMs = 0 THEN 400 ELSE c.dwellTimeMs

(* Whether a limit on airtime applies, and which.                          *)
Limited(c) ==
    /\ c.region \notin NoDutyCycle
    /\ c.region \notin {"EU", "JP"} => c.maxDutyCycle # 0

DutyCycleLimit(c) ==
    IF c.region = "EU" /\ SubBandOf[c.frequency] # NoSubBand
    THEN SubBandLimit[SubBandOf[c.frequency]]
    ELSE IF c.maxDutyCycle = 0 THEN DefaultLimit[c.region] ELSE c.maxDutyCycle

(* The band is looked up by the first frequency, and both sub-bands in it. *)
IsSameSubBand(c, f, g) ==
    \/ BandOf[f] \notin c.bands
    \/ \A h \in Frequencies : BandOf[h] = BandOf[f] => SubBandOf[h] = NoSubBand
    \/ SubBandOf[f] = IF BandOf[g] = BandOf[f] THEN SubBandOf[g] ELSE NoSubBand

(* Fault: the record that just reaches the end of the window is not counted. *)
InWindowStrict(r) == r.age < Window

InWindow(r) == r.age <= Window

(* getCurrentDutyCycle, as airtime.                                        *)
CurrentAirtime(c) ==
    Duration * Cardinality(
        {r \in transmissionHistory :
            /\ InWindow(r)
            /\ c.region = "EU" => IsSameSubBand(c, r.frequency, c.frequency)})

ValidateTransmission(c) ==
    /\ FrequencyBandAllowed(c)
    /\ Duration <= c.maxTransmissionTimeMs
    /\ c.region \in NorthAmerica /\ c.frequencyHopping => Duration <= DwellTime(c)
    /\ Limited(c) => CurrentAirtime(c) + Duration <= DutyCycleLimit(c)

Override(p) == p = Critical /\ config.emergencyOverrideEnabled

CanTransmit(p) == ValidateTransmission(config) \/ Override(p)

-----------------------------------------------------------------------------
(* PriorityMessageQueue.                                                   *)
Entries(q) == UNION {Range(q[p]) : p \in Priorities}

Waiting == {e.message : e \in Entries(queue)}

Size(q) == Len(q[0]) + Len(q[1]) + Len(q[2]) + Len(q[3])

Occupied(q) == {p \in Priorities : q[p] # <<>>}

RemoveExpired(q) ==
    [p \in Priorities |-> Filtered(q[p], {i \in DOMAIN q[p] : q[p][i].age < TTL})]

(* Fault: the most urgent priority goes first. *)
EvictMostUrgent(q) == [q EXCEPT ![Min(Occupied(q))] = Tail(@)]

EvictLowestPriority(q) == [q EXCEPT ![Max(Occupied(q))] = Tail(@)]

RoomMade ==
    LET q == RemoveExpired(queue) IN
    CASE Size(queue) < MaxSize -> queue
      [] Size(queue) >= MaxSize /\ Size(q) < MaxSize -> q
      [] OTHER -> EvictLowestPriority(q)

-----------------------------------------------------------------------------
TypeOK ==
    /\ config \in Configs /\ isRunning \in BOOLEAN /\ due \in BOOLEAN
    /\ enqueued \subseteq Messages
    /\ DOMAIN queue = Priorities /\ Size(queue) <= MaxSize
    /\ \A e \in Entries(queue) : e.message \in enqueued /\ e.age \in 0 .. TTL
    /\ \A r \in transmissionHistory :
        /\ r.message \in enqueued \ Waiting /\ r.frequency \in Frequencies
        /\ r.age \in 0 .. Retention + 1
    /\ restarts \in 0 .. MaxRestarts

Init ==
    /\ config \in Configs
    /\ isRunning = FALSE
    /\ queue = [p \in Priorities |-> <<>>]
    /\ transmissionHistory = {}
    /\ enqueued = {}
    /\ due = FALSE
    /\ aired = {}
    /\ restarts = 0

EnqueueMessage(m) ==
    /\ m \notin enqueued
    /\ enqueued' = enqueued \cup {m}
    /\ queue' = [RoomMade EXCEPT ![Priority[m]] = Append(@, [message |-> m, age |-> 0])]
    /\ UNCHANGED <<config, isRunning, transmissionHistory, due, aired, restarts>>

UpdateConfig ==
    /\ config' \in Configs
    /\ UNCHANGED <<isRunning, queue, transmissionHistory, enqueued, due, aired, restarts>>

Start ==
    /\ ~isRunning
    /\ isRunning' = TRUE
    /\ UNCHANGED <<config, queue, transmissionHistory, enqueued, due, aired, restarts>>

Stop ==
    /\ isRunning
    /\ isRunning' = FALSE
    /\ due' = FALSE
    /\ UNCHANGED <<config, queue, transmissionHistory, enqueued, aired, restarts>>

CleanupOldTransmissions(history) == {r \in history : r.age <= Retention}

(* The airtime the rules in force allow for the window that ends with a    *)
(* transmission of priority p; NoLimit when nothing does.                  *)
NoLimit == -1

LimitFor(p) ==
    IF Limited(config) /\ ~Override(p) THEN DutyCycleLimit(config) ELSE NoLimit

Transmission(m) == [message |-> m, age |-> 0, frequency |-> config.frequency]

(* Fault: the last message stays in the queue. *)
MayTransmitIfMore == Size(queue) > 1 /\ CanTransmit(Min(Occupied(queue)))

MayTransmit == Occupied(queue) # {} /\ CanTransmit(Min(Occupied(queue)))

(* Dequeue and scheduleTransmission of the most urgent message.            *)
Transmit ==
    LET p == Min(Occupied(queue))
        m == Head(queue[p]).message
    IN
    /\ MayTransmit
    /\ queue' = [queue EXCEPT ![p] = Tail(@)]
    /\ transmissionHistory' =
            CleanupOldTransmissions(transmissionHistory \cup {Transmission(m)})
    /\ aired' = aired \cup {[message |-> m, age |-> 0, frequency |-> config.frequency,
                             run |-> restarts, limit |-> LimitFor(p)]}

ProcessQueue ==
    /\ isRunning /\ due
    /\ due' = FALSE
    /\ \/ Transmit
       \/ /\ ~MayTransmit
          /\ transmissionHistory' = CleanupOldTransmissions(transmissionHistory)
          /\ UNCHANGED <<queue, aired>>
    /\ UNCHANGED <<config, isRunning, enqueued, restarts>>

(* Ages beyond the last one that matters are not told apart.               *)
Older(x, last) == [x EXCEPT !.age = IF @ > last THEN @ ELSE @ + 1]

Tick ==
    /\ due' = isRunning
    /\ queue' = [p \in Priorities |->
                    [i \in DOMAIN queue[p] |-> Older(queue[p][i], TTL - 1)]]
    /\ transmissionHistory' = {Older(r, Retention) : r \in transmissionHistory}
    /\ aired' = {Older(r, Retention) : r \in {s \in aired : s.age < Retention}}
    /\ UNCHANGED <<config, isRunning, enqueued, restarts>>

(* The process ends and a new one starts.  The records it has stored under *)
(* duty_cycle_history are never read.                                      *)
Restart ==
    /\ restarts < MaxRestarts
    /\ restarts' = restarts + 1
    /\ config' \in Configs
    /\ isRunning' = FALSE /\ due' = FALSE
    /\ queue' = [p \in Priorities |-> <<>>]
    /\ transmissionHistory' = {}
    /\ UNCHANGED <<enqueued, aired>>

Next ==
    \/ \E m \in Messages : EnqueueMessage(m)
    \/ UpdateConfig
    \/ Start
    \/ Stop
    \/ ProcessQueue
    \/ Tick
    \/ Restart

Spec == Init /\ [][Next]_vars

(* Time passes and setInterval fires.                                      *)
FairSpec == Spec /\ WF_vars(Tick) /\ WF_vars(ProcessQueue)

-----------------------------------------------------------------------------
SameSubBand(f, g) == BandOf[f] = BandOf[g] /\ SubBandOf[f] = SubBandOf[g]

(* The transmissions of one run of the program in the window that ends     *)
(* with x, on the frequencies that share its limit.                        *)
WindowOf(x) ==
    {y \in aired :
        /\ y.run = x.run
        /\ y.age - x.age \in 0 .. Window
        /\ SameSubBand(y.frequency, x.frequency)}

(* In no window does the airtime on a sub-band exceed what was allowed     *)
(* when its last transmission was made, wherever the window begins,        *)
(* whatever the configuration was before and however often the timer was   *)
(* stopped; only emergencies may exceed it.  A restart begins anew         *)
(* (validateTransmission, getCurrentDutyCycle, cleanupOldTransmissions).   *)
AirtimeLimited ==
    \A x \in aired :
        x.limit # NoLimit => Duration * Cardinality(WindowOf(x)) <= x.limit

(* A message that leaves the queue unsent had expired, or the queue was    *)
(* full of messages that had not and were all at least as urgent           *)
(* (enqueue, evictLowestPriority); the queue never holds more than its     *)
(* limit.                                                                  *)
GivenUpForMoreUrgent ==
    /\ []TypeOK
    /\ [][restarts' = restarts =>
            \A e \in Entries(queue) :
                \/ e.message \in Waiting'
                \/ \E x \in aired' : x.message = e.message /\ x.run = restarts
                \/ e.age >= TTL
                \/ /\ Size(RemoveExpired(queue)) >= MaxSize
                   /\ \A d \in Entries(RemoveExpired(queue)) :
                        Priority[d.message] <= Priority[e.message]]_vars

(* While the program runs under rules that allow a transmission on a free  *)
(* channel, no message waits for ever, also behind more urgent ones that   *)
(* the duty cycle holds back (processQueue).  Rules that allow none exist: *)
(* the dwell time of North America is shorter than Duration.               *)
Transmittable ==
    /\ FrequencyBandAllowed(config)
    /\ Duration <= config.maxTransmissionTimeMs
    /\ config.region \in NorthAmerica /\ config.frequencyHopping =>
            Duration <= DwellTime(config)
    /\ Limited(config) => Duration <= DutyCycleLimit(config)

QueueDrained ==
    \A m \in Messages :
        m \in Waiting ~> m \notin Waiting \/ ~isRunning \/ ~Transmittable
=============================================================================
