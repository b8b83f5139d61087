--------------------------- MODULE Fragmentation ---------------------------
(***************************************************************************)
(* MeshProtocol (packages/mesh-protocol/src/protocol.ts) with              *)
(* UTXOMessageFragmenter and UTXOFragmentReassembler (fragmentation.ts): a *)
(* sender cuts messages into fragments, a receiver puts them together in   *)
(* sessions that are limited in number and expire.                         *)
(*                                                                         *)
(* A fragment that was transmitted may arrive at any time, intact or       *)
(* damaged, any number of times, in any order, or never.  Time advances in *)
(* ticks; a radio receives at most PacketsPerTick packets in one of them.  *)
(* A payload is the interval of the message's bytes that it carries.       *)
(***************************************************************************)
EXTENDS Integers, Sequences, FiniteSets, FiniteSetsExt

CONSTANTS Messages,
          Kind,            \* "transaction", "block" or "proof"
          Length,          \* bytes of the serialized message
          Checksum,        \* crc32 of each payload, in order
          ChecksumBits,    \* 32
          MaxSessions,     \* maxSessions
          SessionTimeout,  \* sessionTimeout, in ticks
          CleanupInterval, \* of performCleanup, in ticks
          PacketsPerTick,  \* what the radio can receive in one tick
          Damaged          \* stands for bytes that were never sent

ASSUME FragmentationAssumption ==
    /\ IsFiniteSet(Messages) /\ Damaged \notin Messages
    /\ Kind \in [Messages -> {"transaction", "block", "proof"}]
    /\ Length \in [Messages -> Nat \ {0}]
    /\ Checksum \in [Messages -> Seq(0 .. 2 ^ ChecksumBits - 1)]
    /\ {MaxSessions, CleanupInterval, PacketsPerTick} \subseteq Nat \ {0}
    /\ SessionTimeout \in Nat /\ ChecksumBits \in Nat

VARIABLES connected,    \* isConnected of the sender
          transmitted,  \* fragments of each message sendFragments has passed
                        \*   to the radio, Unsent before the message is sent
          sessions,     \* open sessions of the receiver, by message id
          inbox,        \* what receiveMessage returned: type and bytes
          heard,        \* packets received in the current tick
          sinceCleanup  \* ticks since performCleanup ran

vars == <<connected, transmitted, sessions, inbox, heard, sinceCleanup>>
sender == <<connected, transmitted>>

Unsent == -1

-----------------------------------------------------------------------------
MaxFragmentSize == 197

OptimalFragmentSize(kind) ==
    CASE kind = "transaction" -> 180
      [] kind = "block"       -> MaxFragmentSize
      [] kind = "proof"       -> 150

(* A message that fits one fragment is not cut, whatever its optimal size. *)
FragmentSize(m) ==
    IF Length[m] <= MaxFragmentSize THEN Length[m] ELSE OptimalFragmentSize(Kind[m])

TotalFragments(m) == (Length[m] + FragmentSize(m) - 1) \div FragmentSize(m)

Payload(m, i) == [message |-> m, from |-> i * FragmentSize(m),
                  to |-> Min({(i + 1) * FragmentSize(m), Length[m]})]

(* The header has two bytes each for the numbers, and four for the         *)
(* checksum, which is unsigned when written and signed when read back.     *)
OnWire(n) == n % 65536

ReadChecksum(c) == IF 2 * c < 2 ^ ChecksumBits THEN c ELSE c - 2 ^ ChecksumBits

FragmentOf(m, i) ==
    [id |-> m, sequence |-> OnWire(i), total |-> OnWire(TotalFragments(m)),
     checksum |-> ReadChecksum(Checksum[m][i + 1]), payload |-> Payload(m, i)]

Deserializes(f) ==
    /\ f.total # 0 /\ f.sequence < f.total
    /\ f.payload.to - f.payload.from \in 1 .. 256

(* The same fragment with another payload than was sent.  (The checksum    *)
(* does not cover the header; damage there is left to the radio's own CRC.) *)
DamagedFragment(f) == [f EXCEPT !.payload.message = Damaged]

(* Fault: only the size is looked at. *)
ValidateFragmentSize(f) == f.payload.from < f.payload.to

(* validateFragment.  Damaged bytes have a checksum of their own.          *)
ValidateFragment(f) ==
    \E i \in 0 .. TotalFragments(f.id) - 1 :
        f.payload = Payload(f.id, i) /\ f.checksum = Checksum[f.id][i + 1]

-----------------------------------------------------------------------------
TypeOK ==
    /\ connected \in BOOLEAN
    /\ transmitted \in [Messages -> Nat \cup {Unsent}]
    /\ DOMAIN sessions \subseteq Messages
    /\ \A m \in DOMAIN sessions :
        /\ sessions[m].total \in Nat \ {0}
        /\ DOMAIN sessions[m].received \subseteq 0 .. sessions[m].total - 1
        /\ sessions[m].age \in 0 .. SessionTimeout + CleanupInterval
    /\ heard \in 0 .. PacketsPerTick
    /\ sinceCleanup \in 0 .. CleanupInterval

Init ==
    /\ connected = FALSE
    /\ transmitted = [m \in Messages |-> Unsent]
    /\ sessions = [m \in {} |-> {}]
    /\ inbox = {}
    /\ heard = 0
    /\ sinceCleanup = 0

-----------------------------------------------------------------------------
(* The sender.  sendFragments awaits each transmission and does not look   *)
(* at the connection again.                                                *)
Connect ==
    /\ ~connected
    /\ connected' = TRUE
    /\ UNCHANGED <<transmitted, sessions, inbox, heard, sinceCleanup>>

Disconnect ==
    /\ connected
    /\ connected' = FALSE
    /\ UNCHANGED <<transmitted, sessions, inbox, heard, sinceCleanup>>

Send(m) ==
    /\ connected
    /\ transmitted[m] = Unsent
    /\ transmitted' = [transmitted EXCEPT ![m] = 0]
    /\ UNCHANGED <<connected, sessions, inbox, heard, sinceCleanup>>

TransmitFragment(m) ==
    /\ transmitted[m] \in 0 .. TotalFragments(m) - 1
    /\ transmitted' = [transmitted EXCEPT ![m] = @ + 1]
    /\ UNCHANGED <<connected, sessions, inbox, heard, sinceCleanup>>

-----------------------------------------------------------------------------
(* The receiver, UTXOFragmentReassembler behind handleFragmentReceived.    *)
NewSession(f) == [total |-> f.total, received |-> [i \in {} |-> {}], age |-> 0]

(* Fault: the most recent of them goes. *)
OldestNewest ==
    {m \in DOMAIN sessions :
        /\ sessions[m].age > 0
        /\ \A n \in DOMAIN sessions :
            sessions[n].age > 0 => sessions[n].age >= sessions[m].age}

(* evictOldestSession considers sessions last active before this instant;  *)
(* among several as old as each other the one opened first goes, here any. *)
Oldest ==
    {m \in DOMAIN sessions :
        /\ sessions[m].age > 0
        /\ \A n \in DOMAIN sessions : sessions[n].age <= sessions[m].age}

(* Which sessions stay when one more is opened.                            *)
RoomMade ==
    IF Cardinality(DOMAIN sessions) >= MaxSessions /\ Oldest # {}
    THEN {DOMAIN sessions \ {m} : m \in Oldest}
    ELSE {DOMAIN sessions}

SessionFor(f) ==
    IF f.id \in DOMAIN sessions THEN sessions[f.id] ELSE NewSession(f)

WithFragment(s, f) ==
    [total    |-> s.total,
     received |-> [i \in DOMAIN s.received \cup {f.sequence} |->
                    IF i = f.sequence THEN f.payload ELSE s.received[i]],
     age      |-> 0]

Complete(s) == Cardinality(DOMAIN s.received) = s.total

ReassembleMessage(s) == [i \in 1 .. s.total |-> s.received[i - 1]]

(* getCompleteUTXOTransaction is tried first and succeeds on any JSON, so  *)
(* everything is handed up as a transaction.                               *)
Reassembled(s) == [type |-> "transaction", bytes |-> ReassembleMessage(s)]

Hear ==
    /\ heard < PacketsPerTick
    /\ heard' = heard + 1
    /\ UNCHANGED <<sender, sinceCleanup>>

(* What deserializeFragment or validateFragment refuses leaves no trace.   *)
RejectFragment(f) ==
    /\ Hear
    /\ ~(Deserializes(f) /\ ValidateFragment(f))
    /\ UNCHANGED <<sessions, inbox>>

(* Fault: a duplicate counts as activity. *)
DuplicateFragmentTouches(f) ==
    /\ Hear
    /\ Deserializes(f) /\ ValidateFragment(f)
    /\ f.id \in DOMAIN sessions
    /\ f.sequence \in DOMAIN sessions[f.id].received
    /\ sessions' = [sessions EXCEPT ![f.id].age = 0]
    /\ UNCHANGED inbox

DuplicateFragment(f) ==
    /\ Hear
    /\ Deserializes(f) /\ ValidateFragment(f)
    /\ f.id \in DOMAIN sessions
    /\ f.sequence \in DOMAIN sessions[f.id].received
    /\ UNCHANGED <<sessions, inbox>>

AddFragment(f) ==
    /\ Hear
    /\ Deserializes(f) /\ ValidateFragment(f)
    /\ f.sequence \notin DOMAIN SessionFor(f).received
    /\ LET s == WithFragment(SessionFor(f), f) IN
       \E kept \in IF f.id \in DOMAIN sessions THEN {DOMAIN sessions} ELSE RoomMade :
        \/ /\ Complete(s)
           /\ sessions' = [m \in kept \ {f.id} |-> sessions[m]]
           /\ inbox' = inbox \cup {Reassembled(s)}
        \/ /\ ~Complete(s)
           /\ sessions' = [m \in kept \cup {f.id} |-> IF m = f.id THEN s ELSE sessions[m]]
           /\ UNCHANGED inbox

Receive(f) == RejectFragment(f) \/ DuplicateFragment(f) \/ AddFragment(f)

(* cleanup, from the timer or from clearReassemblyBuffers.                 *)
ExpireSessions ==
    sessions' = [m \in {n \in DOMAIN sessions : sessions[n].age <= SessionTimeout}
                    |-> sessions[m]]

PerformCleanup ==
    /\ sinceCleanup = CleanupInterval
    /\ sinceCleanup' = 0
    /\ ExpireSessions
    /\ UNCHANGED <<sender, inbox, heard>>

ClearReassemblyBuffers ==
    /\ ExpireSessions
    /\ UNCHANGED <<sender, inbox, heard, sinceCleanup>>

Aged(s) == [total |-> s.total, received |-> s.received, age |-> s.age + 1]

(* Time passes; timers fire when they are due.                             *)
Tick ==
    /\ sinceCleanup < CleanupInterval
    /\ sinceCleanup' = sinceCleanup + 1
    /\ heard' = 0
    /\ sessions' = [m \in DOMAIN sessions |-> Aged(sessions[m])]
    /\ UNCHANGED <<sender, inbox>>

Next ==
    \/ Connect
    \/ Disconnect
    \/ \E m \in Messages :
        \/ Send(m)
        \/ TransmitFragment(m)
        \/ \E i \in 0 .. transmitted[m] - 1 :
            \/ Receive(FragmentOf(m, i))
            \/ Receive(DamagedFragment(FragmentOf(m, i)))
    \/ PerformCleanup
    \/ ClearReassemblyBuffers
    \/ Tick

Spec == Init /\ [][Next]_vars

(* setInterval fires and time passes.                                      *)
FairSpec == Spec /\ WF_vars(Tick) /\ WF_vars(PerformCleanup)

-----------------------------------------------------------------------------
(* What the receiver hands up is one message that was sent, all its bytes  *)
(* and in order, whichever payloads arrived damaged, twice, late or in     *)
(* between those of other messages (getCompleteUTXOTransaction).           *)
WholeMessage(bytes, m) ==
    /\ bytes # <<>>
    /\ \A i \in DOMAIN bytes : bytes[i].message = m
    /\ bytes[1].from = 0
    /\ \A i \in DOMAIN bytes \ {1} : bytes[i].from = bytes[i - 1].to
    /\ bytes[Len(bytes)].to = Length[m]

DeliveredWhole ==
    \A x \in inbox : \E m \in Messages : transmitted[m] # Unsent /\ WholeMessage(x.bytes, m)

(* The receiver never holds more sessions than maxSessions, or than the    *)
(* packets of one instant when these are more (evictOldestSession finds    *)
(* nothing to evict while every session was active in this instant).       *)
SessionsBounded ==
    Cardinality(DOMAIN sessions) <= Max({MaxSessions, PacketsPerTick})

(* A session that is given up before it is complete was silent for longer  *)
(* than sessionTimeout, or for so long that enough packets to fill all     *)
(* sessions can have arrived since: other traffic cannot push out a        *)
(* message whose fragments keep coming.                                    *)
ActiveNotEvicted ==
    [][\A m \in DOMAIN sessions \ DOMAIN sessions' :
        \/ /\ Cardinality(DOMAIN sessions[m].received) = sessions[m].total - 1
           /\ \E x \in inbox' : WholeMessage(x.bytes, m)
        \/ sessions[m].age > SessionTimeout
        \/ PacketsPerTick * (sessions[m].age + 1) > MaxSessions]_vars

(* Every session ends, complete or expired, also when a fragment is lost,  *)
(* when copies of the others keep arriving, or when the checksum of a      *)
(* fragment is refused each time (cleanup, protocol.ts:74).                *)
SessionsEnd ==
    \A m \in Messages : m \in DOMAIN sessions ~> m \notin DOMAIN sessions
=============================================================================
