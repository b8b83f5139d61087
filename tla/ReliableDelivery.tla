-------------------------- MODULE ReliableDelivery --------------------------
(***************************************************************************)
(* UTXOReliableDeliveryManager (utxo-reliable-delivery-manager.ts) with    *)
(* the receiving half of UTXOAcknowledmentHandler: pending messages, the   *)
(* retry queue, acknowledgment timers, and the promise continuations an    *)
(* acknowledgment passes through.                                          *)
(*                                                                         *)
(* `tasks` is the queue of promise continuations.  Timers run only when it *)
(* is empty; calls of the application and results of the mesh come from    *)
(* promise chains of their own and can run between two of its entries.     *)
(* The circuit breaker is left out: transmitMessage catches every error,   *)
(* so incrementCircuitBreakerFailure is never reached and it stays closed. *)
(***************************************************************************)
EXTENDS Integers, FiniteSets, SequencesExt

CONSTANTS Messages,    \* calls of sendReliableMessage
          Ids,         \* message ids
          IdMaps,      \* how messages may be named; EnhancedMeshProtocol
                       \*   takes the signature, which is the same for every
                       \*   transaction of a node
          MaxRetries,  \* maxRetries of a message
          Urgency,     \* getRetryPriority: 0 is served first
          MaxPending,  \* config.maxPendingMessages
          BatchSize,   \* entries handled in one round of the retry timer
          MaxAcks,     \* bound: acknowledgments received
          MaxEchoes,   \* bound: times one is processed before it is too old
          MaxManual    \* bound: calls of retryMessage

Idle == -1

ASSUME DeliveryAssumption ==
    /\ IdMaps \subseteq [Messages -> Ids]
    /\ MaxRetries \in [Messages -> Nat]
    /\ Urgency \in [Messages -> 0 .. 2]
    /\ {MaxPending, MaxAcks, MaxEchoes, MaxManual} \subseteq Nat
    /\ BatchSize \in Nat \ {0}

VARIABLES idOf,       \* the member of IdMaps in use
          running,    \* until shutdown
          sent,       \* messages accepted by sendReliableMessage
          pending,    \* deliveryTracker.pendingMessages: ids
          retryCount, \* DeliveryStatus.retryCount, per id
          completed,  \* deliveryTracker.completedMessages: status per id
          deadLetters,\* deliveryTracker.deadLetterQueue
          inFlight,   \* calls of transmitMessage awaiting the mesh
          retryQueue, \* entries by urgency, then age
          processed,  \* entries of the current round, Idle between rounds
          armed,      \* messages with a running acknowledgment timer
          ackTimeout, \* ackTimeout: the timers the map knows, by id
          tasks,      \* continuations of acknowledgments
          delivered,  \* metrics.messagesDelivered
          acks,       \* acknowledgments received so far
          manual,     \* calls of retryMessage so far
          handedOver, \* messages the mesh reported as transmitted
          attempts,   \* transmissions begun, per message
          resets      \* times retryCount was set to 0, per id

delivery == <<sent, pending, retryCount, completed, deadLetters, delivered>>
retry == <<inFlight, retryQueue, processed>>
timers == <<armed, ackTimeout>>
history == <<handedOver, attempts, resets>>
bounds == <<acks, manual>>

vars == <<idOf, running, delivery, retry, timers, tasks, history, bounds>>

Transmission(m, kind, attempt) == [msg |-> m, kind |-> kind, attempt |-> attempt]

Init ==
    /\ idOf \in IdMaps
    /\ running = TRUE
    /\ sent = {} /\ pending = {} /\ deadLetters = {} /\ delivered = 0
    /\ retryCount = [i \in Ids |-> 0]
    /\ completed = [i \in Ids |-> "none"]
    /\ inFlight = {} /\ retryQueue = <<>> /\ processed = Idle
    /\ armed = {} /\ ackTimeout = [i \in Ids |-> {}]
    /\ tasks = <<>>
    /\ acks = 0 /\ manual = 0
    /\ handedOver = {}
    /\ attempts = [m \in Messages |-> 0]
    /\ resets = [i \in Ids |-> 0]

-----------------------------------------------------------------------------
(* The retry queue.  `due` says that nextRetryTime has passed.             *)

(* PriorityQueue.enqueue: before the first entry that is less urgent.      *)
Enqueue(queue, entry) ==
    LET before == {i \in DOMAIN queue :
                      Urgency[queue[i].msg] <= Urgency[entry.msg]}
    IN  InsertAt(queue, Cardinality(before) + 1, entry)

(* Fault: the predicate is ignored.                                        *)
RemoveEntryAny(queue, id) == IF queue = <<>> THEN queue ELSE Tail(queue)

(* PriorityQueue.remove: the first entry with this id.                     *)
RemoveEntry(queue, id) ==
    LET matches(entry) == idOf[entry.msg] = id
    IN  RemoveFirstMatch(queue, matches)

RetriesLeft(m) == retryCount[idOf[m]] < MaxRetries[m]

(* Fault: the retry is counted, not queued.                                *)
QueueAfterFailureNever(m) == retryQueue

(* The entry scheduleRetry puts into the queue, if any.                    *)
QueueAfterFailure(m) ==
    IF idOf[m] \in pending /\ RetriesLeft(m)
    THEN Enqueue(retryQueue, [msg |-> m, attempt |-> retryCount[idOf[m]],
                              due |-> FALSE])
    ELSE retryQueue

MoveToDeadLetterQueue(m) ==
    /\ pending' = pending \ {idOf[m]}
    /\ completed' = [completed EXCEPT ![idOf[m]] = "failed"]
    /\ deadLetters' = deadLetters \cup {m}
    /\ armed' = armed \ ackTimeout[idOf[m]]
    /\ ackTimeout' = [ackTimeout EXCEPT ![idOf[m]] = {}]
    /\ UNCHANGED retryCount

(* scheduleRetry, apart from the queue.                                    *)
ScheduleRetry(m) ==
    IF idOf[m] \in pending /\ ~RetriesLeft(m)
    THEN MoveToDeadLetterQueue(m)
    ELSE /\ retryCount' = IF idOf[m] \in pending
                          THEN [retryCount EXCEPT ![idOf[m]] = @ + 1]
                          ELSE retryCount
         /\ UNCHANGED <<pending, completed, deadLetters, timers>>

(* setupAckTimeout: a timer the map already has keeps running.             *)
SetupAckTimeout(m) ==
    /\ armed' = armed \cup {m}
    /\ ackTimeout' = [ackTimeout EXCEPT ![idOf[m]] = {m}]
    /\ UNCHANGED <<pending, completed, deadLetters, retryCount>>

(* The loop of processRetryQueue up to its next await: entries that are no *)
(* longer pending are dropped, the first other one is transmitted, and a   *)
(* head that is not due ends the round.  `others` are the transmissions    *)
(* that stay in flight, `done` the entries the round has handled.          *)
ContinueRound(queue, others, done, stillPending) ==
    LET served(i) == queue[i].due /\ i <= BatchSize - done
        stale == {n \in 0 .. Len(queue) : \A i \in 1 .. n :
                     served(i) /\ idOf[queue[i].msg] \notin stillPending}
        n     == CHOOSE k \in stale : \A j \in stale : j <= k
        rest  == SubSeq(queue, n + 1, Len(queue))
    IN  IF rest # <<>> /\ served(n + 1)
        THEN /\ retryQueue' = Tail(rest)
             /\ processed' = done + n + 1
             /\ inFlight' = others \cup {Transmission(Head(rest).msg, "retry",
                                                      Head(rest).attempt)}
             /\ attempts' = [attempts EXCEPT ![Head(rest).msg] = @ + 1]
        ELSE /\ retryQueue' = rest
             /\ processed' = Idle
             /\ inFlight' = others
             /\ UNCHANGED attempts

-----------------------------------------------------------------------------
(* Sending.                                                                *)

(* sendReliableMessage up to the await: the id is tracked before anything  *)
(* is transmitted, and replaces a pending message of the same id.          *)
SendReliableMessage(m) ==
    /\ m \notin sent
    /\ Cardinality(pending) < MaxPending
    /\ sent' = sent \cup {m}
    /\ pending' = pending \cup {idOf[m]}
    /\ retryCount' = [retryCount EXCEPT ![idOf[m]] = 0]
    /\ inFlight' = inFlight \cup {Transmission(m, "send", 0)}
    /\ attempts' = [attempts EXCEPT ![m] = @ + 1]
    /\ resets' = [resets EXCEPT ![idOf[m]] = @ + 1]
    /\ UNCHANGED <<idOf, running, completed, deadLetters, delivered, retryQueue,
                   processed, timers, tasks, handedOver, bounds>>

(* The mesh answers the first transmission of a message.                   *)
SendReturns(t, success) ==
    /\ t.kind = "send"
    /\ inFlight' = inFlight \ {t}
    /\ IF success
       THEN SetupAckTimeout(t.msg) /\ UNCHANGED retryQueue
       ELSE ScheduleRetry(t.msg) /\ retryQueue' = QueueAfterFailure(t.msg)
    /\ handedOver' = IF success THEN handedOver \cup {t.msg} ELSE handedOver
    /\ UNCHANGED <<idOf, running, sent, delivered, processed, tasks, attempts,
                   resets, bounds>>

(* The retry timer of every second.                                        *)
ProcessRetryQueue ==
    /\ running
    /\ tasks = <<>>
    /\ processed = Idle
    /\ retryQueue # <<>> /\ Head(retryQueue).due
    /\ ContinueRound(retryQueue, inFlight, 0, pending)
    /\ UNCHANGED <<idOf, running, delivery, timers, tasks, handedOver, resets,
                   bounds>>

(* The mesh answers a retry, and the round goes on.                        *)
RetryReturns(t, success) ==
    /\ t.kind = "retry"
    /\ IF success
       THEN SetupAckTimeout(t.msg)
       ELSE IF t.attempt < MaxRetries[t.msg]
            THEN ScheduleRetry(t.msg)
            ELSE IF idOf[t.msg] \in pending
                 THEN MoveToDeadLetterQueue(t.msg)
                 ELSE UNCHANGED <<pending, completed, deadLetters, retryCount,
                                  timers>>
    /\ ContinueRound(IF success \/ t.attempt >= MaxRetries[t.msg]
                     THEN retryQueue ELSE QueueAfterFailure(t.msg),
                     inFlight \ {t}, processed, pending')
    /\ handedOver' = IF success THEN handedOver \cup {t.msg} ELSE handedOver
    /\ UNCHANGED <<idOf, running, sent, delivered, tasks, resets, bounds>>

(* nextRetryTime passes.  A round compares with the time it began, so what *)
(* becomes due while it runs waits for the next one.                       *)
BecomeDue(i) ==
    /\ processed = Idle
    /\ ~retryQueue[i].due
    /\ retryQueue' = [retryQueue EXCEPT ![i].due = TRUE]
    /\ UNCHANGED <<idOf, running, delivery, inFlight, processed, timers, tasks,
                   history, bounds>>

-----------------------------------------------------------------------------
(* Acknowledgments.                                                        *)

Task(step, id, type, echo) ==
    [step |-> step, id |-> id, type |-> type, echo |-> echo]

(* handleAcknowledgment up to its await: an unknown id is ignored.         *)
Handle(id, type, echo) ==
    IF id \in pending THEN <<Task("verify", id, type, echo)>> ELSE <<>>

(* An acknowledgment arrives for a message that is being or was            *)
(* transmitted; the network may lose, repeat and delay it.                 *)
IncomingAck(id, type) ==
    /\ acks < MaxAcks
    /\ id \in {idOf[m] : m \in handedOver \cup {t.msg : t \in inFlight}}
    /\ id \in pending
    /\ acks' = acks + 1
    /\ tasks' = tasks \o Handle(id, type, 1)
    /\ UNCHANGED <<idOf, running, delivery, retry, timers, history, manual>>

(* processIncomingAck after its await, for an acknowledgment that is not   *)
(* too old: the event it emits calls handleAcknowledgment again, and only  *)
(* then does its own caller continue.                                      *)
VerifyAck ==
    LET task == Head(tasks)
    IN  /\ tasks # <<>> /\ task.step = "verify"
        /\ task.echo <= MaxEchoes
        /\ tasks' = Tail(tasks) \o Handle(task.id, task.type, task.echo + 1)
                        \o <<Task("update", task.id, task.type, task.echo)>>
        /\ UNCHANGED <<idOf, running, delivery, retry, timers, history, bounds>>

(* Older than the handler's ackTimeout: processIncomingAck returns false.  *)
RejectOldAck ==
    /\ tasks # <<>> /\ Head(tasks).step = "verify"
    /\ tasks' = Tail(tasks)
    /\ UNCHANGED <<idOf, running, delivery, retry, timers, history, bounds>>

(* scheduleRetryForExisting schedules nothing: it only counts.             *)
ScheduleRetryForExisting(id) ==
    retryCount' = IF id \in pending /\ completed[id] = "none"
                  THEN [retryCount EXCEPT ![id] = @ + 1]
                  ELSE retryCount

(* handleAcknowledgment after its await, which does not look again whether *)
(* the message is still pending.                                           *)
UpdateDelivered ==
    LET id == Head(tasks).id
    IN  /\ tasks # <<>> /\ Head(tasks).step = "update" /\ Head(tasks).type = "ack"
        /\ tasks' = Tail(tasks)
        /\ delivered' = delivered + 1
        /\ armed' = armed \ ackTimeout[id]
        /\ ackTimeout' = [ackTimeout EXCEPT ![id] = {}]
        /\ retryQueue' = RemoveEntry(retryQueue, id)
        /\ completed' = [completed EXCEPT ![id] = "acknowledged"]
        /\ pending' = pending \ {id}
        /\ UNCHANGED <<idOf, running, sent, retryCount, deadLetters, inFlight,
                       processed, history, bounds>>

UpdateRefused ==
    /\ tasks # <<>> /\ Head(tasks).step = "update" /\ Head(tasks).type = "nack"
    /\ tasks' = Tail(tasks)
    /\ ScheduleRetryForExisting(Head(tasks).id)
    /\ UNCHANGED <<idOf, running, sent, pending, completed, deadLetters, delivered,
                   retry, timers, history, bounds>>

(* handleAckTimeout.                                                       *)
AckTimeout(m) ==
    /\ tasks = <<>>
    /\ armed' = armed \ {m}
    /\ ScheduleRetryForExisting(idOf[m])
    /\ UNCHANGED <<idOf, running, sent, pending, completed, deadLetters, delivered,
                   retry, ackTimeout, tasks, history, bounds>>

-----------------------------------------------------------------------------
(* The application.                                                        *)

(* retryMessage resets the count, nothing else.                            *)
RetryMessage(id) ==
    /\ id \in pending
    /\ manual < MaxManual
    /\ manual' = manual + 1
    /\ retryCount' = [retryCount EXCEPT ![id] = 0]
    /\ resets' = [resets EXCEPT ![id] = @ + 1]
    /\ UNCHANGED <<idOf, running, sent, pending, completed, deadLetters, delivered,
                   retry, timers, tasks, handedOver, attempts, acks>>

CancelMessage(id) ==
    /\ id \in pending
    /\ completed' = [completed EXCEPT ![id] = "failed"]
    /\ pending' = pending \ {id}
    /\ armed' = armed \ ackTimeout[id]
    /\ ackTimeout' = [ackTimeout EXCEPT ![id] = {}]
    /\ retryQueue' = RemoveEntry(retryQueue, id)
    /\ UNCHANGED <<idOf, running, sent, retryCount, deadLetters, delivered, inFlight,
                   processed, tasks, history, bounds>>

(* shutdown: timers the map no longer knows keep running.                  *)
Shutdown ==
    /\ running
    /\ running' = FALSE
    /\ armed' = armed \ UNION {ackTimeout[i] : i \in Ids}
    /\ ackTimeout' = [i \in Ids |-> {}]
    /\ pending' = {} /\ deadLetters' = {} /\ retryQueue' = <<>>
    /\ completed' = [i \in Ids |-> "none"]
    /\ UNCHANGED <<idOf, sent, retryCount, delivered, inFlight, processed, tasks,
                   history, bounds>>

Next ==
    \/ \E m \in Messages : SendReliableMessage(m)
    \/ \E t \in inFlight, success \in BOOLEAN :
          SendReturns(t, success) \/ RetryReturns(t, success)
    \/ ProcessRetryQueue
    \/ \E i \in DOMAIN retryQueue : BecomeDue(i)
    \/ \E id \in Ids, type \in {"ack", "nack"} : IncomingAck(id, type)
    \/ VerifyAck \/ RejectOldAck \/ UpdateDelivered \/ UpdateRefused
    \/ \E m \in armed : AckTimeout(m)
    \/ \E id \in Ids : RetryMessage(id) \/ CancelMessage(id)
    \/ Shutdown

Spec == Init /\ [][Next]_vars

(* The mesh answers every call, the interval timers of startProcessing and *)
(* the acknowledgment timers fire, and promise continuations run; nothing  *)
(* makes the application act or an acknowledgment arrive.                  *)
FairSpec ==
    /\ Spec
    /\ \A m \in Messages :
          /\ WF_vars(\E t \in inFlight, success \in BOOLEAN :
                        /\ t.msg = m
                        /\ SendReturns(t, success) \/ RetryReturns(t, success))
          /\ WF_vars(m \in armed /\ AckTimeout(m))
    /\ WF_vars(ProcessRetryQueue)
    /\ WF_vars(\E i \in DOMAIN retryQueue : BecomeDue(i))
    /\ WF_vars(VerifyAck \/ RejectOldAck \/ UpdateDelivered \/ UpdateRefused)

-----------------------------------------------------------------------------
(* Types.                                                                  *)

Transmissions == [msg: Messages, kind: {"send", "retry"}, attempt: Nat]

QueueEntries == [msg: Messages, attempt: Nat, due: BOOLEAN]

Tasks == [step: {"verify", "update"}, id: Ids, type: {"ack", "nack"}, echo: Nat]

(* Every variable keeps its shape; a queued message has retries left, and  *)
(* the queue is ordered by urgency.                                        *)
TypeOK ==
    /\ idOf \in IdMaps /\ running \in BOOLEAN
    /\ sent \subseteq Messages /\ deadLetters \subseteq sent
    /\ pending \subseteq Ids
    /\ retryCount \in [Ids -> Nat] /\ resets \in [Ids -> Nat]
    /\ completed \in [Ids -> {"none", "acknowledged", "failed"}]
    /\ inFlight \subseteq Transmissions
    /\ retryQueue \in Seq(QueueEntries)
    /\ \A i, j \in DOMAIN retryQueue :
          /\ retryQueue[i].attempt < MaxRetries[retryQueue[i].msg]
          /\ i < j => Urgency[retryQueue[i].msg] <= Urgency[retryQueue[j].msg]
    /\ processed \in {Idle} \cup 1 .. BatchSize
    /\ armed \subseteq sent /\ ackTimeout \in [Ids -> SUBSET sent]
    /\ tasks \in Seq(Tasks)
    /\ {delivered, acks, manual} \subseteq Nat
    /\ handedOver \subseteq sent
    /\ attempts \in [Messages -> Nat]

-----------------------------------------------------------------------------
(* Safety.                                                                 *)

(* A message is being transmitted, or waits for a retry, or waits for its  *)
(* acknowledgment, never two of these at once, whatever acknowledgments,   *)
(* timeouts and application calls come in between.                         *)
OneActivity ==
    \A m \in Messages :
        Cardinality({t \in inFlight : t.msg = m})
          + Cardinality({i \in DOMAIN retryQueue : retryQueue[i].msg = m})
          + Cardinality(armed \cap {m}) <= 1

(* maxRetries bounds the transmissions of a message, once for every time   *)
(* the count of its id starts again.                                       *)
TransmissionsBounded ==
    \A m \in Messages :
        attempts[m] <= 1 + MaxRetries[m] * resets[idOf[m]]

UniqueIds == \A m, k \in Messages : idOf[m] = idOf[k] => m = k

(* With ids of their own, a message the application waits for is not       *)
(* forgotten before it was transmitted once.                               *)
NothingForgotten ==
    UniqueIds =>
        \A m \in sent \ handedOver :
            idOf[m] \in pending =>
                \/ \E t \in inFlight : t.msg = m
                \/ \E i \in DOMAIN retryQueue : retryQueue[i].msg = m

(* A dead letter is a message that was never transmitted: the retries are  *)
(* those of the own radio, and a message on the air is never given up.     *)
DeadLettersNotTransmitted == deadLetters \cap handedOver = {}

(* A message has one activity, a bounded number of transmissions, and is   *)
(* neither forgotten before the first nor given up after it, whatever      *)
(* acknowledgments, timeouts and calls of the application come in between. *)
DeliverySound ==
    /\ TypeOK
    /\ OneActivity
    /\ TransmissionsBounded
    /\ NothingForgotten
    /\ DeadLettersNotTransmitted

(* No more deliveries are counted than messages were sent ("should provide *)
(* accurate delivery metrics", reliable-delivery.integration.test.ts:437). *)
DeliveredOnce == delivered <= Cardinality(sent)

-----------------------------------------------------------------------------
(* Liveness.                                                               *)

(* Until shutdown, every accepted message is transmitted, or completed     *)
(* without it: neither a failing mesh nor a less urgent place in the queue *)
(* keeps it for ever.  (Of two messages with one id, one can be lost.)     *)
SentOrCompleted ==
    \A m \in Messages :
        UniqueIds /\ m \in sent ~>
            m \in handedOver \/ idOf[m] \notin pending \/ ~running

(* "ACK/NACK processing, retry logic with exponential backoff" (README.md: *)
(* 163): a message does not stay pending for ever when its acknowledgment  *)
(* is lost; it is transmitted again until it is acknowledged or fails.     *)
PendingResolved == \A id \in Ids : id \in pending ~> id \notin pending
=============================================================================
