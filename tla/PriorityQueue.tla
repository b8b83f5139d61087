---------------------------- MODULE PriorityQueue ----------------------------
(* UTXOPriorityQueue (packages/core/src/priority-queue.ts): a binary heap of *)
(* messages ordered by a score computed when they enter, bounded by a total, *)
(* a reserve for emergencies, a number per priority and an estimate of the   *)
(* memory in use. A queue is a record; each operation maps it to the next.   *)
(*                                                                           *)
(* Sizes are counted in message headers (200 bytes), the unit by which       *)
(* freeMemorySpace estimates what it frees. The estimate only grows, and     *)
(* nothing tells two values at the limit or above it apart, so it stops      *)
(* there. messageIndex, which nothing reads, and the statistics are left out.*)
EXTENDS PriorityCalculator, Sequences, SequencesExt

CONSTANTS
    MaxTotalMessages,
    EmergencyCapacityReserve,
    CapacityByPriority,
    MemoryLimit,
    TickSeconds          \* seconds of one unit of a message's age

ASSUME QueueAssumption ==
    /\ {MaxTotalMessages, EmergencyCapacityReserve, MemoryLimit, TickSeconds} \subseteq Nat
    /\ CapacityByPriority \in [Priorities -> Nat]

EmptyQueue == [heap |-> <<>>, counters |-> [p \in Priorities |-> 0], memory |-> 0, reserveUsed |-> 0]

Expired(m) == m.age > m.ttl

Older(m) == [m EXCEPT !.age = Min({m.age + 1, m.ttl + 1})]

(* In hundredths; the lower the more urgent. *)
PriorityScore(m) ==
    100 * (1000 * m.priority - (IF m.emergencyFlag THEN 10000 ELSE 0)
           - 10 * m.feePerByte - Min({m.age * TickSeconds, 100})) - m.blockHeight

(***************************************************************************)
(* The heap                                                                *)
(***************************************************************************)

HeapSwap(h, i, j) == [h EXCEPT ![i] = h[j], ![j] = h[i]]

(* The loops of heapify and heapRemove: n rounds, each of which maps a state to *)
(* the next; a round after the loop is left maps the state to itself.        *)
Iterated(step, x, n) ==
    LET after[k \in 0 .. n] == IF k = 0 THEN x ELSE step[after[k - 1]]
    IN after[n]

(* A heap and the index a loop has got to. *)
Positions(h) == [heap : Seq(Range(h)), at : Nat]

UpStep(s) ==
    LET parent == s.at \div 2
    IN IF s.at = 1 \/ s.heap[parent].score <= s.heap[s.at].score THEN s
       ELSE [heap |-> HeapSwap(s.heap, parent, s.at), at |-> parent]

HeapifyUp(h, i) ==
    Iterated([s \in Positions(h) |-> UpStep(s)], [heap |-> h, at |-> i], i).heap

Smaller(h, i) == {c \in {2 * i, 2 * i + 1} \cap DOMAIN h : h[c].score < h[i].score}

DownStep(s) ==
    LET smaller == Smaller(s.heap, s.at)
        least == Min({c \in smaller : \A d \in smaller : s.heap[c].score <= s.heap[d].score})
    IN IF smaller = {} THEN s
       ELSE [heap |-> HeapSwap(s.heap, s.at, least), at |-> least]

HeapifyDown(h, i) ==
    Iterated([s \in Positions(h) |-> DownStep(s)], [heap |-> h, at |-> i], Len(h)).heap

Heapify(h, i) == HeapifyDown(HeapifyUp(h, i), i)

HeapInsert(h, node) == HeapifyUp(Append(h, node), Len(h) + 1)

HeapExtractMax(h) ==
    IF Len(h) = 1 THEN <<>> ELSE HeapifyDown([Front(h) EXCEPT ![1] = Last(h)], 1)

HeapRemoveAt(h, i) ==
    IF i = Len(h) THEN Front(h) ELSE Heapify([Front(h) EXCEPT ![i] = Last(h)], i)

(* Walks the array backwards; a node that heapify moves behind is passed over. *)
ExpiredStep(s) ==
    [heap |-> IF Expired(s.heap[s.at].message) THEN HeapRemoveAt(s.heap, s.at) ELSE s.heap,
     at |-> s.at - 1]

RemoveExpired(h) ==
    Iterated([s \in Positions(h) |-> ExpiredStep(s)], [heap |-> h, at |-> Len(h)], Len(h)).heap

(***************************************************************************)
(* Limits                                                                  *)
(***************************************************************************)

(* Fault: blocks are evicted like the others. *)
EvictableCritical(h) == {i \in DOMAIN h : ~h[i].message.emergencyFlag}

(* Never emergencies, never CRITICAL messages. *)
Evictable(h) ==
    {i \in DOMAIN h : ~h[i].message.emergencyFlag /\ h[i].message.priority > CRITICAL}

(* The first of the least urgent ones. *)
EvictLowPriorityMessage(h) ==
    LET lowest == {i \in Evictable(h) :
                     \A j \in Evictable(h) : h[j].message.priority <= h[i].message.priority}
    IN HeapRemoveAt(h, Min(lowest))

EvictStep(h) == IF Evictable(h) = {} THEN h ELSE EvictLowPriorityMessage(h)

EvictUntil(h, n) ==
    IF n <= 0 THEN h ELSE Iterated([g \in Seq(Range(h)) |-> EvictStep(g)], h, n)

FreeMemorySpace(h, required) ==
    LET fresh == RemoveExpired(h)
    IN EvictUntil(fresh, required - (Len(h) - Len(fresh)))

(* checkCapacityLimits: whether there is room, and the queue it leaves. *)
CheckCapacityLimits(q, m) ==
    IF Len(q.heap) >= MaxTotalMessages
    THEN IF m.emergencyFlag /\ q.reserveUsed < EmergencyCapacityReserve
         THEN [room |-> TRUE, queue |-> [q EXCEPT !.reserveUsed = @ + 1]]
         ELSE IF Evictable(q.heap) # {}
         THEN [room |-> TRUE, queue |-> [q EXCEPT !.heap = EvictLowPriorityMessage(@)]]
         ELSE [room |-> FALSE, queue |-> q]
    ELSE [room |-> m.emergencyFlag \/ q.counters[m.priority] < CapacityByPriority[m.priority],
          queue |-> q]

(* The memory check: what it leaves of the heap, and whether it freed enough. *)
CheckMemory(q, m) ==
    IF q.memory + m.size <= MemoryLimit THEN [room |-> TRUE, queue |-> q]
    ELSE LET heap == FreeMemorySpace(q.heap, m.size)
         IN [room |-> Len(q.heap) - Len(heap) >= m.size, queue |-> [q EXCEPT !.heap = heap]]

Inserted(q, m) ==
    [q EXCEPT !.heap = HeapInsert(@, [message |-> m, score |-> PriorityScore(m)]),
              !.counters[m.priority] = @ + 1,
              !.memory = Min({@ + m.size, MemoryLimit})]

(* The queue after enqueue(m), whether m was taken or refused. *)
Enqueue(q, m) ==
    LET capacity == CheckCapacityLimits(q, m)
        memory == CheckMemory(capacity.queue, m)
    IN IF ~capacity.room THEN capacity.queue
       ELSE IF ~memory.room THEN memory.queue
       ELSE Inserted(memory.queue, m)

(* Removing what has expired or been evicted leaves counters and memory. *)
WithoutExpired(q) == [q EXCEPT !.heap = RemoveExpired(@)]

Peek(q) == q.heap[1].message

Dequeue(q) ==
    [q EXCEPT !.heap = HeapExtractMax(@), !.counters[Peek(q).priority] = Max({0, @ - 1})]

(* loadQueueState in a new queue: neither counters nor reserve are restored. *)
SavedState(q) == [heap |-> q.heap, memory |-> q.memory]

LoadQueueState(s) == [EmptyQueue EXCEPT !.heap = s.heap, !.memory = s.memory]

Queued(q) == {q.heap[i].message : i \in DOMAIN q.heap}

(* Every message grows older; scores stay what they were. *)
QueueAged(q) ==
    [q EXCEPT !.heap = [i \in DOMAIN q.heap |->
                           [message |-> Older(q.heap[i].message), score |-> q.heap[i].score]]]
=============================================================================
