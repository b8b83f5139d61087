--------------------------- MODULE PriorityBuffer ---------------------------
(* What UTXOPriorityQueue promises to UTXOPriorityMeshProtocol, whatever    *)
(* the heap, the counters and the memory estimate behind it do: the most    *)
(* urgent message leaves first, only messages that are overdue or of no     *)
(* importance are thrown away to make room, and emergency messages alone    *)
(* may use the room beyond the maximum.                                     *)
EXTENDS Integers, FiniteSets

CONSTANT MaxOrdinary

VARIABLES
    waiting,   \* the messages, with their scores
    overdue    \* an input: the ids of messages past their time to live

bufferVars == <<waiting, overdue>>

Ordinary(W) == {w \in W : w.ordinary}

Overdue == {w \in waiting : w.id \in overdue}

Forgettable == Overdue \cup {w \in waiting : w.expendable}

Entered == waiting' \ waiting

Left == waiting \ waiting'

BufferInit == waiting = {} /\ overdue = {}

TimePasses == UNCHANGED waiting

(* A message is added; to make room others may be lost. *)
Put ==
    /\ Cardinality(Entered) = 1
    /\ Left \subseteq Forgettable
    /\ Cardinality(Ordinary(waiting')) <= MaxOrdinary

(* A message is refused; what was lost in the attempt stays lost. *)
Refuse == Entered = {} /\ Left \subseteq Forgettable

(* Overdue messages are removed and the most urgent of the others leaves. *)
Take ==
    /\ Entered = {}
    /\ \E m \in Left :
          /\ Left \ {m} \subseteq Overdue
          /\ \A w \in waiting' : m.score <= w.score

Empty == waiting' = {}

BufferNext == TimePasses \/ Put \/ Refuse \/ Take \/ Empty

BufferSpec == BufferInit /\ [][BufferNext]_bufferVars
=============================================================================
