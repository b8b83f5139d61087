----------------------------- MODULE PriorityMesh -----------------------------
(* UTXOPriorityMeshProtocol (packages/core/src/enhanced-priority-mesh-       *)
(* protocol.ts) with its queue and UTXOQoSManager (qos-manager.ts): messages *)
(* enter with a priority, a timer takes the most urgent one, asks the duty   *)
(* cycle, hands it to the base protocol and puts it back when it must wait   *)
(* or failed. Rounds of the timer overlap while the base protocol is awaited.*)
(*                                                                           *)
(* Times are ages in units of TickSeconds. Delivery trackers, which feed     *)
(* events and statistics, are left out.                                      *)
EXTENDS PriorityQueue

CONSTANTS
    Submissions,           \* what is ever sent: [call, id, type, feePerByte, ...]
    MaxAttempts,           \* retryPolicies[p].maxAttempts
    EmergencyMaxRetries,   \* 10 in the code
    TimeToLive,            \* getTTLForPriority, in ticks
    EmergencyTimeToLive,   \* 300 s in the code
    DutyCycleExemption,    \* qosPolicy.dutyCycleExemption
    EmergencyConfigEnabled,
    MaxOverlap,            \* bound: rounds that overlap
    MaxTimers              \* bound: emergency timers pending at once

ASSUME PriorityAssumption ==
    /\ \A s \in Submissions :
          /\ s.call \in {"transaction", "message", "block", "proof", "emergency"}
          /\ {s.feePerByte, s.blockHeight, s.size} \subseteq Nat
          /\ s.priority \in Priorities
    /\ {MaxAttempts, TimeToLive} \subseteq [Priorities -> Nat]
    /\ {EmergencyMaxRetries, EmergencyTimeToLive} \subseteq Nat
    /\ EmergencyConfigEnabled \in BOOLEAN

VARIABLES
    queue,          \* the UTXOPriorityQueue
    rounds,         \* messages between dequeue and the end of their round
    emergencyMode,  \* of the QoS manager
    contextEmergency, \* networkContext.emergencyMode
    timers,         \* pending setTimeout calls that disable the emergency mode
    submitted       \* ids of the messages sent so far

priorityVars == <<queue, rounds, emergencyMode, contextEmergency, timers, submitted>>

emergencyVars == <<emergencyMode, contextEmergency, timers>>

(***************************************************************************)
(* What enters the queue                                                   *)
(***************************************************************************)

Message(s, priority, emergency, retries, ttl) ==
    [id |-> s.id, priority |-> priority, emergencyFlag |-> emergency, feePerByte |-> s.feePerByte,
     blockHeight |-> s.blockHeight, size |-> s.size, retryCount |-> 0, maxRetries |-> retries,
     ttl |-> ttl, age |-> 0]

OfPriority(s, priority) ==
    Message(s, priority, priority = CRITICAL, MaxAttempts[priority], TimeToLive[priority])

(* `priority || calculate`: CRITICAL is 0 and counts as not given. *)
SendUTXOPriorityTransaction(s) ==
    OfPriority(s, IF s.priority \in {HIGH, NORMAL, LOW} THEN s.priority
                  ELSE TransactionPriority(s.feePerByte, contextEmergency))

SendMessage(s) == OfPriority(s, CalculatePriority(s, contextEmergency))

SendBlock(s) == Message(s, CRITICAL, FALSE, 5, TimeToLive[CRITICAL])

SendMerkleProof(s) == Message(s, HIGH, FALSE, 3, TimeToLive[HIGH])

SendEmergency(s) == Message(s, CRITICAL, TRUE, EmergencyMaxRetries, EmergencyTimeToLive)

Submit(s) ==
    /\ queue' = Enqueue(queue, CASE s.call = "transaction" -> SendUTXOPriorityTransaction(s)
                                 [] s.call = "message"     -> SendMessage(s)
                                 [] s.call = "block"       -> SendBlock(s)
                                 [] s.call = "proof"       -> SendMerkleProof(s))
    /\ submitted' = submitted \cup {s.id}
    /\ UNCHANGED <<rounds, emergencyVars>>

(* Fault: the timer is set although the mode was on, and not when it was off. *)
SendEmergencyUTXOTransactionSwapped(s) ==
    /\ ~emergencyMode \/ timers < MaxTimers
    /\ queue' = Enqueue(queue, SendEmergency(s))
    /\ emergencyMode' = TRUE
    /\ timers' = IF emergencyMode THEN timers + 1 ELSE timers
    /\ submitted' = submitted \cup {s.id}
    /\ UNCHANGED <<rounds, contextEmergency>>

(* Switches the emergency mode on, and off again a minute later if it was off. *)
SendEmergencyUTXOTransaction(s) ==
    /\ emergencyMode \/ timers < MaxTimers
    /\ queue' = Enqueue(queue, SendEmergency(s))
    /\ emergencyMode' = TRUE
    /\ timers' = IF emergencyMode THEN timers ELSE timers + 1
    /\ submitted' = submitted \cup {s.id}
    /\ UNCHANGED <<rounds, contextEmergency>>

(***************************************************************************)
(* The emergency mode                                                      *)
(***************************************************************************)

SetEmergencyMode(on) ==
    /\ emergencyMode' = on /\ contextEmergency' = on
    /\ UNCHANGED <<queue, rounds, timers, submitted>>

EnableUTXOEmergencyMode == SetEmergencyMode(TRUE)

DisableUTXOEmergencyMode == SetEmergencyMode(FALSE)

EmergencyTimer ==
    /\ timers > 0
    /\ timers' = timers - 1
    /\ emergencyMode' = FALSE
    /\ UNCHANGED <<queue, rounds, contextEmergency, submitted>>

(***************************************************************************)
(* Processing                                                              *)
(***************************************************************************)

(* getTransmissionParameters *)
Exempt(p) ==
    \/ DutyCycleExemption[p]
    \/ emergencyMode /\ EmergencyConfigEnabled /\ p = CRITICAL

(* canTransmitWithQoS, given what the duty cycle manager answers. *)
CanTransmit(p, dutyCycleAllows) == (Exempt(p) /\ emergencyMode) \/ dutyCycleAllows

(* A round begins: expired messages go, the most urgent one is taken. *)
ProcessMessageQueue ==
    /\ Cardinality(rounds) < MaxOverlap
    /\ LET fresh == WithoutExpired(queue)
       IN IF fresh.heap = <<>> THEN queue' = fresh /\ UNCHANGED rounds
          ELSE /\ queue' = Dequeue(fresh)
               /\ rounds' = rounds \cup {[message |-> Peek(fresh), stage |-> "taken"]}
    /\ UNCHANGED <<submitted, emergencyVars>>

(* Fault: a message put back begins a new life. *)
PutBackRenewed(r) ==
    /\ r.stage = "taken"
    /\ ~CanTransmit(r.message.priority, FALSE)
    /\ queue' = Enqueue(queue, [r.message EXCEPT !.age = 0])
    /\ rounds' = rounds \ {r}
    /\ UNCHANGED <<submitted, emergencyVars>>

(* It may not be transmitted now: back into the queue, if there is room. *)
PutBack(r) ==
    /\ r.stage = "taken"
    /\ ~CanTransmit(r.message.priority, FALSE)
    /\ queue' = Enqueue(queue, r.message)
    /\ rounds' = rounds \ {r}
    /\ UNCHANGED <<submitted, emergencyVars>>

(* It is handed to the base protocol, which is awaited. *)
Transmit(r) ==
    /\ r.stage = "taken"
    /\ rounds' = (rounds \ {r}) \cup {[r EXCEPT !.stage = "sending"]}
    /\ UNCHANGED <<queue, submitted, emergencyVars>>

(* sendMessage of the base protocol succeeded. *)
Transmitted(r) ==
    /\ r.stage = "sending"
    /\ rounds' = rounds \ {r}
    /\ UNCHANGED <<queue, submitted, emergencyVars>>

Retried(m) == [m EXCEPT !.retryCount = @ + 1]

(* handleTransmissionFailure *)
TransmissionFailed(r) ==
    /\ r.stage = "sending"
    /\ rounds' = rounds \ {r}
    /\ IF Retried(r.message).retryCount < r.message.maxRetries
       THEN queue' = Enqueue(queue, Retried(r.message)) 
       ELSE UNCHANGED queue
    /\ UNCHANGED <<submitted, emergencyVars>>

Continue(r) == PutBack(r) \/ Transmit(r) \/ Transmitted(r) \/ TransmissionFailed(r)

(***************************************************************************)
(* The queue as a whole, and time                                          *)
(***************************************************************************)

ClearUTXOQueue ==
    /\ queue' = EmptyQueue
    /\ UNCHANGED <<rounds, submitted, emergencyVars>>

(* shutdown saves the queue, a new process loads it; what was being sent then *)
(* is gone, and so are the counters and the reserve in use.                   *)
Restart ==
    /\ queue' = LoadQueueState(SavedState(queue))
    /\ rounds' = {} /\ timers' = 0
    /\ emergencyMode' = EmergencyConfigEnabled /\ contextEmergency' = FALSE
    /\ UNCHANGED submitted

Tick ==
    /\ queue' = QueueAged(queue)
    /\ rounds' = {[message |-> Older(r.message), stage |-> r.stage] : r \in rounds}
    /\ UNCHANGED <<submitted, emergencyVars>>

Init ==
    /\ queue = EmptyQueue /\ rounds = {}
    /\ emergencyMode = EmergencyConfigEnabled /\ contextEmergency = FALSE /\ timers = 0
    /\ submitted = {}

Next ==
    \/ \E s \in {t \in Submissions : t.id \notin submitted} :
          IF s.call = "emergency" THEN SendEmergencyUTXOTransaction(s) ELSE Submit(s)
    \/ EnableUTXOEmergencyMode \/ DisableUTXOEmergencyMode \/ EmergencyTimer
    \/ ProcessMessageQueue
    \/ \E r \in rounds : Continue(r)
    \/ ClearUTXOQueue \/ Restart \/ Tick

(* Timers fire, time passes and the base protocol answers; nobody is obliged *)
(* to send or to start again.                                                *)
Fairness ==
    /\ WF_priorityVars(Tick)
    /\ WF_priorityVars(ProcessMessageQueue)
    /\ WF_priorityVars(\E r \in rounds : Continue(r))

Spec == Init /\ [][Next]_priorityVars /\ Fairness

(***************************************************************************)
(* Properties                                                              *)
(***************************************************************************)

Entry(node) ==
    [id |-> node.message.id, score |-> node.score,
     ordinary |-> ~node.message.emergencyFlag,
     expendable |-> ~node.message.emergencyFlag /\ node.message.priority > CRITICAL]

Entries(heap) == {Entry(heap[i]) : i \in DOMAIN heap}

OverdueOf(messages) == {m.id : m \in {n \in messages : Expired(n)}}

Buffer == INSTANCE PriorityBuffer WITH
    MaxOrdinary <- MaxTotalMessages,
    waiting <- Entries(queue.heap),
    overdue <- OverdueOf(Queued(queue))

(* The heap with its evictions, retries, messages put back, overlapping rounds *)
(* and restarts implements the buffer: the most urgent message leaves first,   *)
(* no block or emergency is dropped before its time, and ordinary messages     *)
(* never use the emergency reserve.                                            *)
MostUrgentFirst == Buffer!BufferSpec

(* Every message is transmitted, dropped or expires: the duty cycle may refuse *)
(* it, the radio may fail and more urgent ones overtake it, but it does not go *)
(* round for ever.                                                             *)
NothingCirculatesForever ==
    <>[](queue.heap = <<>> /\ rounds = {})

(* The emergency mode that an emergency transaction switches on is switched    *)
(* off again, unless it is asked for explicitly or configured: some timer is   *)
(* pending, however calls and timers of several transactions interleave.       *)
EmergencyWillEnd ==
    emergencyMode /\ ~contextEmergency /\ ~EmergencyConfigEnabled => timers > 0
=============================================================================
