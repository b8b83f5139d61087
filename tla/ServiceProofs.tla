---------------------------- MODULE ServiceProofs ----------------------------
(***************************************************************************)
(* Theorems about the services of a node that do not touch each other, for *)
(* every value of their constants: how it puts fragments together, how it  *)
(* asks for those that are missing, whom it bans and connects to, and the  *)
(* clients of its server.                                                  *)
(***************************************************************************)
EXTENDS PeerManager, Fragmentation, Retransmission, HttpServer,
        FiniteSetTheorems, WellFoundedInduction, TLAPS

-----------------------------------------------------------------------------
(* Fragmentation: the receiver's sessions are bounded, a session whose     *)
(* fragments keep coming is not evicted, and what is handed up is a whole  *)
(* message.                                                                *)

(* Sessions that received a fragment in the last k ticks.                  *)
Recent(k) == {m \in DOMAIN sessions : sessions[m].age <= k}

(* The radio receives PacketsPerTick packets per tick, and each of them    *)
(* makes one session recent.                                               *)
RateInv == \A k \in Nat : Cardinality(Recent(k)) <= PacketsPerTick * k + heard

AgeInv ==
    \A m \in DOMAIN sessions : sessions[m].age \in 0 .. SessionTimeout + sinceCleanup

CountersInv ==
    /\ heard \in 0 .. PacketsPerTick
    /\ sinceCleanup \in 0 .. CleanupInterval
    /\ DOMAIN sessions \subseteq Messages

ReceiverInv == CountersInv /\ AgeInv /\ RateInv /\ SessionsBounded

-----------------------------------------------------------------------------
LEMMA MaxOfTwo ==
    ASSUME NEW a \in Int, NEW b \in Int
    PROVE  /\ Max({a, b}) \in {a, b}
           /\ Max({a, b}) >= a /\ Max({a, b}) >= b
  <1>1. \E x \in {a, b} : \A y \in {a, b} : x >= y
    <2>1. CASE a >= b
      BY <2>1
    <2>2. CASE b >= a
      BY <2>2
    <2> QED
      BY <2>1, <2>2
  <1> QED
    BY <1>1 DEF Max

LEMMA MinOfTwo ==
    ASSUME NEW a \in Int, NEW b \in Int
    PROVE  Min({a, b}) = IF a <= b THEN a ELSE b
  <1>1. \E x \in {a, b} : \A y \in {a, b} : x <= y
    <2>1. CASE a <= b
      BY <2>1
    <2>2. CASE b <= a
      BY <2>2
    <2> QED
      BY <2>1, <2>2
  <1> QED
    BY <1>1 DEF Min

LEMMA LimitBounds ==
    /\ Max({MaxSessions, PacketsPerTick}) \in Nat
    /\ MaxSessions <= Max({MaxSessions, PacketsPerTick})
    /\ PacketsPerTick <= Max({MaxSessions, PacketsPerTick})
  <1>1. MaxSessions \in Nat /\ PacketsPerTick \in Nat
    BY FragmentationAssumption DEF FragmentationAssumption
  <1>2. MaxSessions \in Int /\ PacketsPerTick \in Int
    BY <1>1
  <1> QED
    BY <1>1, <1>2, MaxOfTwo

(* Finite subsets of the messages, and how many they are.                  *)
LEMMA SubsetCardinality ==
    ASSUME NEW S \in SUBSET Messages, NEW T \in SUBSET S
    PROVE  /\ IsFiniteSet(S) /\ Cardinality(S) \in Nat
           /\ Cardinality(T) \in Nat /\ Cardinality(T) <= Cardinality(S)
  BY FragmentationAssumption, FS_Subset, FS_CardinalityType DEF FragmentationAssumption

LEMMA OneMore ==
    ASSUME NEW S \in SUBSET Messages, NEW m \in Messages
    PROVE  Cardinality(S \cup {m}) <= Cardinality(S) + 1
  BY SubsetCardinality, FS_AddElement

(* Among sessions not all active now there is an oldest one.               *)
LEMMA OldestExists ==
    ASSUME CountersInv, AgeInv, NEW m \in DOMAIN sessions, sessions[m].age > 0
    PROVE  Oldest # {}
  <1> DEFINE S == DOMAIN sessions
             Older(n) == {k \in S : sessions[k].age >= sessions[n].age}
             T == {Older(n) : n \in S}
  <1>1. \A n \in S : sessions[n].age \in Int
    BY FragmentationAssumption DEF FragmentationAssumption, CountersInv, AgeInv
  <1>2. IsFiniteSet(S)
    BY SubsetCardinality DEF CountersInv
  <1>3. IsWellFoundedOn(StrictSubsetOrdering(S), SUBSET S)
    BY <1>2, FS_StrictSubsetOrderingWellFounded, FS_FiniteSubsetsOfFinite
  <1>4. T \subseteq SUBSET S /\ T # {}
    OBVIOUS
  <1>5. PICK t \in T : \A u \in T : ~(<<u, t>> \in StrictSubsetOrdering(S))
    BY <1>3, <1>4, WFMin
  <1>6. PICK n \in S : t = Older(n)
    BY <1>5
  <1>7. \A k \in S : sessions[k].age <= sessions[n].age
    <2> SUFFICES ASSUME NEW k \in S, sessions[k].age > sessions[n].age
                 PROVE  FALSE
      BY <1>1
    <2>1. Older(k) \subseteq Older(n) /\ n \in Older(n) /\ n \notin Older(k)
      BY <1>1
    <2>2. <<Older(k), Older(n)>> \in StrictSubsetOrdering(S)
      BY <2>1 DEF StrictSubsetOrdering
    <2> QED
      BY <2>2, <1>5, <1>6
  <1>8. sessions[n].age > 0
    BY <1>1, <1>7
  <1> QED
    BY <1>7, <1>8 DEF Oldest

-----------------------------------------------------------------------------
(* The steps of the receiver.                                              *)
LEMMA ExpireStep ==
    ASSUME ReceiverInv, ExpireSessions, heard' = heard,
           sinceCleanup' \in {0, sinceCleanup}
    PROVE  ReceiverInv'
  <1>1. /\ DOMAIN sessions' \subseteq DOMAIN sessions
        /\ \A m \in DOMAIN sessions' :
            sessions'[m] = sessions[m] /\ sessions[m].age <= SessionTimeout
    BY DEF ExpireSessions
  <1>2. CountersInv'
    BY <1>1, FragmentationAssumption
       DEF FragmentationAssumption, ReceiverInv, CountersInv
  <1>3. AgeInv'
    BY <1>1, FragmentationAssumption
       DEF FragmentationAssumption, ReceiverInv, CountersInv, AgeInv
  <1>4. RateInv'
    <2> SUFFICES ASSUME NEW k \in Nat
                 PROVE  Cardinality(Recent(k)') <= PacketsPerTick * k + heard'
      BY DEF RateInv
    <2>1. Recent(k)' \subseteq Recent(k) /\ Recent(k) \subseteq Messages
      BY <1>1 DEF Recent, ReceiverInv, CountersInv
    <2>2. Cardinality(Recent(k)') <= Cardinality(Recent(k))
      BY <2>1, SubsetCardinality
    <2>3. Cardinality(Recent(k)) <= PacketsPerTick * k + heard
      BY DEF ReceiverInv, RateInv
    <2>4. /\ Cardinality(Recent(k)') \in Nat /\ Cardinality(Recent(k)) \in Nat
          /\ PacketsPerTick * k + heard \in Int
      BY <2>1, SubsetCardinality, FragmentationAssumption
         DEF FragmentationAssumption, ReceiverInv, CountersInv
    <2> QED
      BY <2>2, <2>3, <2>4
  <1>5. SessionsBounded'
    <2>1. Cardinality(DOMAIN sessions') <= Cardinality(DOMAIN sessions)
      BY <1>1, SubsetCardinality DEF ReceiverInv, CountersInv
    <2>2. Cardinality(DOMAIN sessions') \in Nat /\ Cardinality(DOMAIN sessions) \in Nat
      BY <1>1, SubsetCardinality DEF ReceiverInv, CountersInv
    <2> QED
      BY <2>1, <2>2, LimitBounds DEF ReceiverInv, SessionsBounded
  <1> QED
    BY <1>2, <1>3, <1>4, <1>5 DEF ReceiverInv

LEMMA TickStep ==
    ASSUME ReceiverInv, Tick
    PROVE  ReceiverInv'
  <1>1. /\ DOMAIN sessions' = DOMAIN sessions
        /\ \A m \in DOMAIN sessions : sessions'[m].age = sessions[m].age + 1
    BY DEF Tick, Aged
  <1>2. CountersInv'
    BY <1>1, FragmentationAssumption
       DEF FragmentationAssumption, ReceiverInv, CountersInv, Tick
  <1>3. AgeInv'
    <2> SUFFICES ASSUME NEW m \in DOMAIN sessions
                 PROVE  sessions[m].age + 1 \in 0 .. SessionTimeout + sinceCleanup'
      BY <1>1 DEF AgeInv
    <2>1. sessions[m].age \in 0 .. SessionTimeout + sinceCleanup
      BY DEF ReceiverInv, AgeInv
    <2>2. /\ SessionTimeout \in Nat /\ sinceCleanup \in Int
          /\ sinceCleanup' = sinceCleanup + 1
      BY FragmentationAssumption
         DEF FragmentationAssumption, ReceiverInv, CountersInv, Tick
    <2> QED
      BY <2>1, <2>2
  <1>4. RateInv'
    <2> SUFFICES ASSUME NEW k \in Nat
                 PROVE  Cardinality(Recent(k)') <= PacketsPerTick * k + heard'
      BY DEF RateInv
    <2>1. \A m \in DOMAIN sessions : sessions[m].age \in Nat
      BY FragmentationAssumption
         DEF FragmentationAssumption, ReceiverInv, CountersInv, AgeInv
    <2>2. PacketsPerTick \in Nat /\ heard' = 0
      BY FragmentationAssumption DEF FragmentationAssumption, Tick
    <2>3. CASE k = 0
      <3>1. Recent(0)' = {}
        BY <1>1, <2>1 DEF Recent
      <3> QED
        BY <3>1, <2>2, <2>3, FS_EmptySet
    <2>4. CASE k # 0
      <3>1. k - 1 \in Nat
        BY <2>4
      <3>2. Recent(k)' = Recent(k - 1)
        BY <1>1, <2>1, <3>1 DEF Recent
      <3>3. Cardinality(Recent(k - 1)) <= PacketsPerTick * (k - 1) + heard
        BY <3>1 DEF ReceiverInv, RateInv
      <3>4. PacketsPerTick * (k - 1) + PacketsPerTick = PacketsPerTick * k
        BY <2>2, <3>1
      <3>5. /\ heard \in Nat /\ heard <= PacketsPerTick
            /\ PacketsPerTick * (k - 1) \in Nat /\ PacketsPerTick * k \in Nat
            /\ Cardinality(Recent(k - 1)) \in Nat
        <4>1. Recent(k - 1) \subseteq Messages
          BY DEF Recent, ReceiverInv, CountersInv
        <4> QED
          BY <4>1, <2>2, <3>1, SubsetCardinality DEF ReceiverInv, CountersInv
      <3> QED
        BY <3>2, <3>3, <3>4, <3>5, <2>2
    <2> QED
      BY <2>3, <2>4
  <1>5. SessionsBounded'
    BY <1>1 DEF ReceiverInv, SessionsBounded
  <1> QED
    BY <1>2, <1>3, <1>4, <1>5 DEF ReceiverInv

(* A packet that adds its fragment to a session.                           *)
LEMMA AddEffect ==
    ASSUME NEW f, AddFragment(f)
    PROVE  \E kept \in {DOMAIN sessions} \cup RoomMade :
            /\ f.id \in DOMAIN sessions => kept = DOMAIN sessions
            /\ f.id \notin DOMAIN sessions => kept \in RoomMade
            /\ DOMAIN sessions' \subseteq kept \cup {f.id}
            /\ \A m \in DOMAIN sessions' \ {f.id} : sessions'[m] = sessions[m]
            /\ f.id \in DOMAIN sessions' => sessions'[f.id].age = 0
  <1> DEFINE s == WithFragment(SessionFor(f), f)
  <1>1. s.age = 0
    BY DEF WithFragment
  <1>2. PICK kept \in IF f.id \in DOMAIN sessions THEN {DOMAIN sessions} ELSE RoomMade :
            \/ sessions' = [m \in kept \ {f.id} |-> sessions[m]]
            \/ sessions' = [m \in kept \cup {f.id} |-> IF m = f.id THEN s ELSE sessions[m]]
    BY DEF AddFragment
  <1> QED
    BY <1>1, <1>2

LEMMA RoomMadeKinds ==
    ASSUME CountersInv, NEW kept \in RoomMade
    PROVE  \/ /\ kept = DOMAIN sessions
              /\ Cardinality(DOMAIN sessions) < MaxSessions \/ Oldest = {}
           \/ /\ Cardinality(DOMAIN sessions) >= MaxSessions
              /\ \E m \in Oldest : kept = DOMAIN sessions \ {m}
  <1>1. Cardinality(DOMAIN sessions) \in Nat /\ MaxSessions \in Nat
    BY SubsetCardinality, FragmentationAssumption DEF FragmentationAssumption, CountersInv
  <1>2. CASE Cardinality(DOMAIN sessions) >= MaxSessions /\ Oldest # {}
    BY <1>2 DEF RoomMade
  <1>3. CASE ~(Cardinality(DOMAIN sessions) >= MaxSessions /\ Oldest # {})
    <2>1. kept = DOMAIN sessions
      BY <1>3 DEF RoomMade
    <2> QED
      BY <2>1, <1>1, <1>3
  <1> QED
    BY <1>2, <1>3

LEMMA AddStep ==
    ASSUME ReceiverInv, NEW f, f.id \in Messages, AddFragment(f)
    PROVE  ReceiverInv'
  <1>1. PICK kept \in {DOMAIN sessions} \cup RoomMade :
            /\ f.id \in DOMAIN sessions => kept = DOMAIN sessions
            /\ f.id \notin DOMAIN sessions => kept \in RoomMade
            /\ DOMAIN sessions' \subseteq kept \cup {f.id}
            /\ \A m \in DOMAIN sessions' \ {f.id} : sessions'[m] = sessions[m]
            /\ f.id \in DOMAIN sessions' => sessions'[f.id].age = 0
    BY AddEffect
  <1>2. heard < PacketsPerTick /\ heard' = heard + 1 /\ sinceCleanup' = sinceCleanup
    BY DEF AddFragment, Hear
  <1>3. kept \subseteq DOMAIN sessions /\ DOMAIN sessions \subseteq Messages
    BY <1>1, RoomMadeKinds DEF ReceiverInv, CountersInv, Oldest
  <1>4. CountersInv'
    BY <1>1, <1>2, <1>3, FragmentationAssumption
       DEF FragmentationAssumption, ReceiverInv, CountersInv
  <1>5. AgeInv'
    <2> SUFFICES ASSUME NEW m \in DOMAIN sessions'
                 PROVE  sessions'[m].age \in 0 .. SessionTimeout + sinceCleanup'
      BY DEF AgeInv
    <2>1. CASE m = f.id
      BY <2>1, <1>1, <1>2, FragmentationAssumption
         DEF FragmentationAssumption, ReceiverInv, CountersInv
    <2>2. CASE m # f.id
      BY <2>2, <1>1, <1>2, <1>3 DEF ReceiverInv, AgeInv
    <2> QED
      BY <2>1, <2>2
  <1>6. RateInv'
    <2> SUFFICES ASSUME NEW k \in Nat
                 PROVE  Cardinality(Recent(k)') <= PacketsPerTick * k + heard'
      BY DEF RateInv
    <2>1. Recent(k)' \subseteq Recent(k) \cup {f.id}
      BY <1>1, <1>3 DEF Recent
    <2>2. Recent(k) \subseteq Messages
      BY <1>3 DEF Recent
    <2>3. /\ Cardinality(Recent(k)') <= Cardinality(Recent(k) \cup {f.id})
          /\ Cardinality(Recent(k)') \in Nat
          /\ Cardinality(Recent(k) \cup {f.id}) \in Nat
      BY <2>1, <2>2, SubsetCardinality
    <2>4. Cardinality(Recent(k) \cup {f.id}) <= Cardinality(Recent(k)) + 1
      BY <2>2, OneMore
    <2>5. Cardinality(Recent(k)) <= PacketsPerTick * k + heard
      BY DEF ReceiverInv, RateInv
    <2>6. Cardinality(Recent(k)) \in Nat /\ PacketsPerTick * k \in Nat /\ heard \in Nat
      BY <2>2, SubsetCardinality, FragmentationAssumption
         DEF FragmentationAssumption, ReceiverInv, CountersInv
    <2> QED
      BY <2>3, <2>4, <2>5, <2>6, <1>2
  <1>7. SessionsBounded'
    <2> DEFINE old == DOMAIN sessions
               limit == Max({MaxSessions, PacketsPerTick})
    <2>1. /\ Cardinality(DOMAIN sessions') \in Nat
          /\ Cardinality(DOMAIN sessions') <= Cardinality(kept \cup {f.id})
          /\ Cardinality(kept \cup {f.id}) \in Nat
          /\ Cardinality(kept) \in Nat /\ Cardinality(old) \in Nat
      BY <1>1, <1>3, SubsetCardinality
    <2>2. Cardinality(kept \cup {f.id}) <= Cardinality(kept) + 1
      BY <1>3, OneMore
    <2>3. /\ limit \in Nat /\ MaxSessions <= limit /\ PacketsPerTick <= limit
          /\ MaxSessions \in Nat /\ PacketsPerTick \in Nat /\ heard \in Nat
      BY LimitBounds, FragmentationAssumption
         DEF FragmentationAssumption, ReceiverInv, CountersInv
    <2>4. CASE f.id \in old
      <3>1. kept \cup {f.id} = old
        BY <2>4, <1>1
      <3> QED
        BY <3>1, <2>1, <2>3 DEF ReceiverInv, SessionsBounded
    <2>5. CASE f.id \notin old /\ kept = old /\ Cardinality(old) < MaxSessions
      BY <2>1, <2>2, <2>3, <2>5 DEF SessionsBounded
    <2>6. CASE f.id \notin old /\ kept = old /\ Oldest = {}
      <3>1. \A m \in old : sessions[m].age \in Nat
        BY FragmentationAssumption
           DEF FragmentationAssumption, ReceiverInv, CountersInv, AgeInv
      <3>2. \A m \in old : sessions[m].age = 0
        BY <3>1, <2>6, OldestExists DEF ReceiverInv
      <3>3. Recent(0) = old
        BY <3>2 DEF Recent
      <3>4. Cardinality(old) <= heard
        <4>1. Cardinality(Recent(0)) <= PacketsPerTick * 0 + heard
          BY DEF ReceiverInv, RateInv
        <4> QED
          BY <4>1, <3>3, <2>3
      <3> QED
        BY <3>4, <2>1, <2>2, <2>3, <2>6, <1>2 DEF SessionsBounded
    <2>7. CASE f.id \notin old /\ \E m \in Oldest : kept = old \ {m}
      <3>1. PICK m \in old : kept = old \ {m}
        BY <2>7 DEF Oldest
      <3>2. Cardinality(kept) = Cardinality(old) - 1
        BY <3>1, <1>3, SubsetCardinality, FS_RemoveElement
      <3>3. Cardinality(old) <= limit
        BY DEF ReceiverInv, SessionsBounded
      <3>4. Cardinality(DOMAIN sessions') <= limit
        <4> HIDE DEF old, limit
        <4> QED
          BY <3>2, <3>3, <2>1, <2>2, <2>3
      <3> QED
        BY <3>4 DEF SessionsBounded
    <2> QED
      BY <2>4, <2>5, <2>6, <2>7, <1>1, RoomMadeKinds DEF ReceiverInv
  <1> QED
    BY <1>4, <1>5, <1>6, <1>7 DEF ReceiverInv

-----------------------------------------------------------------------------
LEMMA FragmentIds ==
    ASSUME NEW m \in Messages, NEW i
    PROVE  /\ FragmentOf(m, i).id = m
           /\ DamagedFragment(FragmentOf(m, i)).id = m
  BY DEF FragmentOf, DamagedFragment

LEMMA ReceiverInit ==
    ASSUME Init
    PROVE  ReceiverInv
  <1>1. DOMAIN sessions = {} /\ heard = 0 /\ sinceCleanup = 0
    BY DEF Init
  <1>2. \A k \in Nat : Recent(k) = {}
    BY <1>1 DEF Recent
  <1>3. Cardinality({}) = 0
    BY FS_EmptySet
  <1>4. RateInv
    <2> SUFFICES ASSUME NEW k \in Nat
                 PROVE  Cardinality(Recent(k)) <= PacketsPerTick * k + heard
      BY DEF RateInv
    <2>1. PacketsPerTick * k \in Nat
      BY FragmentationAssumption DEF FragmentationAssumption
    <2>2. Cardinality(Recent(k)) = 0
      BY <1>2, <1>3, Zenon
    <2> QED
      BY <1>1, <2>1, <2>2
  <1>5. SessionsBounded
    BY <1>1, <1>3, LimitBounds DEF SessionsBounded
  <1> QED
    BY <1>1, <1>4, <1>5, FragmentationAssumption
       DEF FragmentationAssumption, ReceiverInv, CountersInv, AgeInv

(* A packet that changes no session.                                       *)
LEMMA HearStep ==
    ASSUME ReceiverInv, Hear, sessions' = sessions
    PROVE  ReceiverInv'
  <1>1. /\ heard \in Nat /\ heard' = heard + 1 /\ heard' \in 0 .. PacketsPerTick
        /\ sinceCleanup' = sinceCleanup
    BY FragmentationAssumption
       DEF FragmentationAssumption, ReceiverInv, CountersInv, Hear
  <1>2. RateInv'
    <2> SUFFICES ASSUME NEW k \in Nat
                 PROVE  Cardinality(Recent(k)') <= PacketsPerTick * k + heard'
      BY DEF RateInv
    <2>1. Recent(k)' = Recent(k) /\ Recent(k) \subseteq Messages
      BY DEF Recent, ReceiverInv, CountersInv
    <2>2. Cardinality(Recent(k)) \in Nat /\ PacketsPerTick * k \in Nat
      BY <2>1, SubsetCardinality, FragmentationAssumption DEF FragmentationAssumption
    <2>3. Cardinality(Recent(k)) <= PacketsPerTick * k + heard
      BY DEF ReceiverInv, RateInv
    <2> QED
      BY <2>1, <2>2, <2>3, <1>1
  <1> QED
    BY <1>1, <1>2 DEF ReceiverInv, CountersInv, AgeInv, SessionsBounded

LEMMA ReceiveStep ==
    ASSUME ReceiverInv, NEW f, f.id \in Messages, Receive(f)
    PROVE  ReceiverInv'
  <1>1. CASE RejectFragment(f)
    BY <1>1, HearStep DEF RejectFragment
  <1>2. CASE DuplicateFragment(f)
    BY <1>2, HearStep DEF DuplicateFragment
  <1>3. CASE AddFragment(f)
    BY <1>3, AddStep
  <1> QED
    BY <1>1, <1>2, <1>3 DEF Receive

LEMMA SenderStep ==
    ASSUME ReceiverInv, UNCHANGED <<sessions, heard, sinceCleanup>>
    PROVE  ReceiverInv'
  <1>1. \A k : Recent(k)' = Recent(k)
    BY DEF Recent
  <1> QED
    BY <1>1 DEF ReceiverInv, CountersInv, AgeInv, RateInv, SessionsBounded

LEMMA ReceiverStep ==
    ASSUME ReceiverInv, [Next]_vars
    PROVE  ReceiverInv'
  <1>1. CASE Connect
    BY <1>1, SenderStep DEF Connect
  <1>2. CASE Disconnect
    BY <1>2, SenderStep DEF Disconnect
  <1>3. ASSUME NEW m \in Messages, Send(m)
        PROVE  ReceiverInv'
    BY <1>3, SenderStep DEF Send
  <1>4. ASSUME NEW m \in Messages, TransmitFragment(m)
        PROVE  ReceiverInv'
    BY <1>4, SenderStep DEF TransmitFragment
  <1>5. ASSUME NEW m \in Messages, NEW i,
               \/ Receive(FragmentOf(m, i))
               \/ Receive(DamagedFragment(FragmentOf(m, i)))
        PROVE  ReceiverInv'
    BY <1>5, FragmentIds, ReceiveStep
  <1>6. CASE PerformCleanup
    BY <1>6, ExpireStep DEF PerformCleanup
  <1>7. CASE ClearReassemblyBuffers
    BY <1>7, ExpireStep DEF ClearReassemblyBuffers
  <1>8. CASE Tick
    BY <1>8, TickStep
  <1>9. CASE UNCHANGED vars
    BY <1>9, SenderStep DEF vars
  <1> QED
    BY <1>1, <1>2, <1>3, <1>4, <1>5, <1>6, <1>7, <1>8, <1>9 DEF Next

(* The receiver never holds more sessions than it may, or than the packets *)
(* one instant can bring (addFragment, evictOldestSession).                *)
THEOREM SessionsBoundedTheorem == Spec => []SessionsBounded
  <1>1. ReceiverInv => SessionsBounded
    BY DEF ReceiverInv
  <1> QED
    BY <1>1, ReceiverInit, ReceiverStep, PTL DEF Spec

-----------------------------------------------------------------------------
(* Fewer fragments than the two bytes of the header can count.             *)
ShortMessages == \A m \in Messages : TotalFragments(m) < 65536

(* What a session has received is what was sent, in its place, and not yet *)
(* everything.                                                             *)
AssemblesMessage(s, m) ==
    /\ s.total = TotalFragments(m)
    /\ DOMAIN s.received \subseteq 0 .. s.total - 1
    /\ \A i \in DOMAIN s.received : s.received[i] = Payload(m, i)

SenderInv == \A m \in Messages : transmitted[m] \in Unsent .. TotalFragments(m)

DataInv ==
    /\ transmitted \in [Messages -> Int]
    /\ SenderInv
    /\ \A m \in DOMAIN sessions : transmitted[m] # Unsent /\ AssemblesMessage(sessions[m], m)
    /\ DeliveredWhole

LEMMA FragmentCount ==
    ASSUME NEW m \in Messages
    PROVE  /\ FragmentSize(m) \in Nat \ {0}
           /\ TotalFragments(m) \in Nat \ {0}
           /\ Length[m] \in Nat
           /\ Length[m] <= TotalFragments(m) * FragmentSize(m)
           /\ (TotalFragments(m) - 1) * FragmentSize(m) < Length[m]
  <1>1. Length[m] \in Nat \ {0} /\ Kind[m] \in {"transaction", "block", "proof"}
    BY FragmentationAssumption DEF FragmentationAssumption
  <1>2. FragmentSize(m) \in Nat \ {0}
    BY <1>1 DEF FragmentSize, OptimalFragmentSize, MaxFragmentSize
  <1> DEFINE size == FragmentSize(m)
             p == Length[m] + size - 1
             q == p \div size
  <1>3. /\ q \in Int /\ q * size <= p /\ p < q * size + size
    <2>1. p \in Int
      BY <1>1, <1>2
    <2> HIDE DEF p, size
    <2> QED
      BY <2>1, <1>2 DEF size
  <1>4. TotalFragments(m) = q
    BY DEF TotalFragments
  <1>5. (q - 1) * size = q * size - size /\ q * size \in Int
    BY <1>2, <1>3
  <1>6. q >= 1
    <2> SUFFICES ASSUME q <= 0
                 PROVE  FALSE
      BY <1>3
    <2>1. q * size <= 0
      BY <1>2, <1>3
    <2>2. p < size
      <3>1. p \in Int
        BY <1>1, <1>2
      <3> HIDE DEF p, q, size
      <3> QED
        BY <3>1, <2>1, <1>2, <1>3, <1>5 DEF size
    <2> QED
      BY <2>2, <1>1, <1>2
  <1> QED
    BY <1>1, <1>2, <1>3, <1>4, <1>5, <1>6

LEMMA ScaleMonotone ==
    ASSUME NEW a \in Int, NEW b \in Int, a <= b, NEW d \in Nat
    PROVE  a * d <= b * d
  <1>1. b - a \in Nat /\ (b - a) * d \in Nat
    OBVIOUS
  <1>2. (b - a) * d = b * d - a * d /\ a * d \in Int /\ b * d \in Int
    OBVIOUS
  <1> QED
    BY <1>1, <1>2

LEMMA TupleLength ==
    ASSUME NEW n \in Nat, NEW r, NEW b, b = [i \in 1 .. n |-> r[i - 1]]
    PROVE  DOMAIN b = 1 .. n /\ Len(b) = n
  OBVIOUS

(* The pieces of a message in their order are the message.                 *)
LEMMA PiecesMakeWhole ==
    ASSUME NEW m \in Messages, NEW r, NEW bytes,
           \A i \in 0 .. TotalFragments(m) - 1 : r[i] = Payload(m, i),
           bytes = [i \in 1 .. TotalFragments(m) |-> r[i - 1]]
    PROVE  WholeMessage(bytes, m)
  <1> DEFINE n == TotalFragments(m)
             d == FragmentSize(m)
             L == Length[m]
  <1>1. /\ n \in Nat \ {0} /\ d \in Nat \ {0} /\ L \in Nat
        /\ L <= n * d /\ (n - 1) * d < L
    BY FragmentCount
  <1>2. DOMAIN bytes = 1 .. n /\ Len(bytes) = n
    BY <1>1, TupleLength
  <1>3. \A i \in 1 .. n : bytes[i] = Payload(m, i - 1)
    BY <1>1
  <1> HIDE DEF n, d, L
  <1>4. \A i \in 1 .. n : /\ bytes[i].message = m
                          /\ bytes[i].from = (i - 1) * d
                          /\ bytes[i].to = Min({i * d, L})
    <2> SUFFICES ASSUME NEW i \in 1 .. n
                 PROVE  /\ bytes[i].message = m
                        /\ bytes[i].from = (i - 1) * d
                        /\ bytes[i].to = Min({i * d, L})
      OBVIOUS
    <2>1. bytes[i] = [message |-> m, from |-> (i - 1) * d,
                      to |-> Min({((i - 1) + 1) * d, L})]
      BY <1>3 DEF Payload, d, L
    <2>2. (i - 1) + 1 = i
      BY <1>1
    <2>3. {((i - 1) + 1) * d, L} = {i * d, L}
      BY <2>2
    <2>4. Min({((i - 1) + 1) * d, L}) = Min({i * d, L})
      BY <2>3, Zenon
    <2> DEFINE end == Min({i * d, L})
    <2>5. bytes[i] = [message |-> m, from |-> (i - 1) * d, to |-> end]
      BY <2>1, <2>4, Zenon
    <2>6. bytes[i].message = m /\ bytes[i].from = (i - 1) * d /\ bytes[i].to = end
      <3> HIDE DEF end
      <3> QED
        BY <2>5
    <2> QED
      BY <2>6, Zenon
  <1>5. \A i \in 1 .. n : i * d \in Int /\ (i < n => i * d < L)
    <2> SUFFICES ASSUME NEW i \in 1 .. n
                 PROVE  i * d \in Int /\ (i < n => i * d < L)
      OBVIOUS
    <2>1. i * d \in Int /\ (n - 1) * d \in Int
      BY <1>1
    <2>2. i < n => i * d <= (n - 1) * d
      BY <1>1, ScaleMonotone
    <2> QED
      BY <2>1, <2>2, <1>1
  <1>6. ASSUME NEW i \in 1 .. n, i < n
        PROVE  bytes[i].to = i * d
    <2>1. i * d \in Int /\ L \in Int /\ i * d < L
      BY <1>1, <1>5, <1>6
    <2>2. Min({i * d, L}) = i * d
      BY <2>1, MinOfTwo
    <2> QED
      BY <2>2, <1>4
  <1>7. bytes[n].to = L
    <2>1. n \in 1 .. n /\ n * d \in Int /\ L \in Int /\ L <= n * d
      BY <1>1
    <2>2. Min({n * d, L}) = L
      BY <2>1, MinOfTwo
    <2> QED
      BY <2>1, <2>2, <1>4
  <1>8. bytes[1].from = 0
    <2>1. 1 \in 1 .. n /\ (1 - 1) * d = 0
      BY <1>1
    <2> QED
      BY <2>1, <1>4
  <1>9. ASSUME NEW i \in 1 .. n, i # 1
        PROVE  bytes[i].from = bytes[i - 1].to
    <2>1. i - 1 \in 1 .. n /\ i - 1 < n
      BY <1>1, <1>9
    <2> QED
      BY <2>1, <1>4, <1>6
  <1>10. bytes # <<>>
    BY <1>1, <1>2
  <1> QED
    BY <1>2, <1>4, <1>7, <1>8, <1>9, <1>10 DEF WholeMessage, L

(* A complete session holds every piece.                                   *)
LEMMA CompleteIsWhole ==
    ASSUME NEW m \in Messages, NEW s, AssemblesMessage(s, m), Complete(s)
    PROVE  WholeMessage(ReassembleMessage(s), m)
  <1> DEFINE n == TotalFragments(m)
  <1>1. n \in Nat \ {0} /\ s.total = n
    BY FragmentCount DEF AssemblesMessage
  <1>2. DOMAIN s.received \subseteq 0 .. n - 1 /\ Cardinality(DOMAIN s.received) = n
    BY <1>1 DEF AssemblesMessage, Complete
  <1>3. DOMAIN s.received = 0 .. n - 1
    <2> HIDE DEF n
    <2>1. IsFiniteSet(0 .. n - 1) /\ Cardinality(0 .. n - 1) = n
      BY <1>1, FS_Interval
    <2> QED
      BY <1>2, <2>1, FS_Subset
  <1>4. \A i \in 0 .. n - 1 : s.received[i] = Payload(m, i)
    BY <1>3 DEF AssemblesMessage
  <1>5. ReassembleMessage(s) = [i \in 1 .. n |-> s.received[i - 1]]
    BY <1>1 DEF ReassembleMessage
  <1> QED
    BY <1>4, <1>5, PiecesMakeWhole

(* What the header says of a fragment of a short message is true.          *)
LEMMA HeaderTrue ==
    ASSUME ShortMessages, NEW m \in Messages, NEW i \in 0 .. TotalFragments(m) - 1
    PROVE  /\ FragmentOf(m, i).id = m
           /\ FragmentOf(m, i).sequence = i
           /\ FragmentOf(m, i).total = TotalFragments(m)
           /\ FragmentOf(m, i).payload = Payload(m, i)
  <1>1. OnWire(TotalFragments(m)) = TotalFragments(m) /\ OnWire(i) = i
    BY FragmentCount DEF ShortMessages, OnWire
  <1> QED
    BY <1>1 DEF FragmentOf

LEMMA DamageFound ==
    ASSUME NEW m \in Messages, NEW i
    PROVE  ~ValidateFragment(DamagedFragment(FragmentOf(m, i)))
  <1>1. DamagedFragment(FragmentOf(m, i)).payload.message = Damaged
    BY DEF DamagedFragment, FragmentOf, Payload
  <1>2. \A j : Payload(m, j).message = m
    BY DEF Payload
  <1> QED
    BY <1>1, <1>2, FragmentIds, FragmentationAssumption
       DEF ValidateFragment, FragmentationAssumption

LEMMA StillAssembles ==
    ASSUME ShortMessages, NEW m \in Messages, NEW i \in 0 .. TotalFragments(m) - 1,
           m \in DOMAIN sessions => AssemblesMessage(sessions[m], m)
    PROVE  AssemblesMessage(WithFragment(SessionFor(FragmentOf(m, i)), FragmentOf(m, i)), m)
  <1> DEFINE f == FragmentOf(m, i)
             s == SessionFor(f)
  <1>1. f.id = m /\ f.sequence = i /\ f.total = TotalFragments(m) /\ f.payload = Payload(m, i)
    BY HeaderTrue
  <1>2. AssemblesMessage(s, m)
    <2>1. CASE m \in DOMAIN sessions
      BY <1>1, <2>1 DEF SessionFor
    <2>2. CASE m \notin DOMAIN sessions
      <3>1. s.total = TotalFragments(m) /\ DOMAIN s.received = {}
        BY <1>1, <2>2 DEF SessionFor, NewSession
      <3> QED
        BY <3>1 DEF AssemblesMessage
    <2> QED
      BY <2>1, <2>2
  <1> HIDE DEF f, s
  <1> DEFINE r == [j \in DOMAIN s.received \cup {f.sequence} |->
                     IF j = f.sequence THEN f.payload ELSE s.received[j]]
  <1>3. /\ DOMAIN r = {i} \cup DOMAIN s.received
        /\ \A j \in DOMAIN r : r[j] = IF j = i THEN Payload(m, i) ELSE s.received[j]
    BY <1>1
  <1>4. /\ WithFragment(s, f).total = TotalFragments(m)
        /\ WithFragment(s, f).received = r
    BY <1>2 DEF WithFragment, AssemblesMessage
  <1> HIDE DEF r
  <1> QED
    BY <1>2, <1>3, <1>4 DEF AssemblesMessage, f, s

(* What AddFragment does to the sessions and the inbox.                     *)
LEMMA AddOutcome ==
    ASSUME NEW f, AddFragment(f)
    PROVE  LET s == WithFragment(SessionFor(f), f) IN
           /\ \A n \in DOMAIN sessions' :
                \/ n = f.id /\ sessions'[n] = s
                \/ n \in DOMAIN sessions /\ sessions'[n] = sessions[n]
           /\ \/ Complete(s) /\ inbox' = inbox \cup {Reassembled(s)}
              \/ inbox' = inbox
  <1> DEFINE s == WithFragment(SessionFor(f), f)
  <1>1. PICK kept \in IF f.id \in DOMAIN sessions THEN {DOMAIN sessions} ELSE RoomMade :
            \/ /\ Complete(s)
               /\ sessions' = [m \in kept \ {f.id} |-> sessions[m]]
               /\ inbox' = inbox \cup {Reassembled(s)}
            \/ /\ sessions' = [m \in kept \cup {f.id} |-> IF m = f.id THEN s ELSE sessions[m]]
               /\ inbox' = inbox
    BY DEF AddFragment
  <1>2. kept \subseteq DOMAIN sessions
    BY <1>1 DEF RoomMade
  <1> HIDE DEF s
  <1>3. \/ Complete(s) /\ inbox' = inbox \cup {Reassembled(s)}
        \/ inbox' = inbox
    BY <1>1
  <1>4. ASSUME NEW n \in DOMAIN sessions'
        PROVE  \/ n = f.id /\ sessions'[n] = s
               \/ n \in DOMAIN sessions /\ sessions'[n] = sessions[n]
    BY <1>1, <1>2
  <1> QED
    BY <1>3, <1>4 DEF s

(* A packet of a message that was sent.                                    *)
LEMMA AddKeepsData ==
    ASSUME ShortMessages, DataInv, NEW m \in Messages, transmitted[m] # Unsent,
           NEW i \in 0 .. TotalFragments(m) - 1, AddFragment(FragmentOf(m, i))
    PROVE  DataInv'
  <1> DEFINE f == FragmentOf(m, i)
             s == WithFragment(SessionFor(f), f)
  <1>1. f.id = m
    BY HeaderTrue
  <1>2. AssemblesMessage(s, m)
    BY StillAssembles DEF DataInv
  <1>3. transmitted' = transmitted
    BY DEF AddFragment, Hear, sender
  <1>4. \A n \in DOMAIN sessions' :
            \/ n = f.id /\ sessions'[n] = s
            \/ n \in DOMAIN sessions /\ sessions'[n] = sessions[n]
    BY AddOutcome
  <1>5. \/ Complete(s) /\ inbox' = inbox \cup {Reassembled(s)}
        \/ inbox' = inbox
    BY AddOutcome
  <1> HIDE DEF f, s
  <1>6. \A n \in DOMAIN sessions' :
            transmitted'[n] # Unsent /\ AssemblesMessage(sessions'[n], n)
    <2> SUFFICES ASSUME NEW n \in DOMAIN sessions'
                 PROVE  transmitted'[n] # Unsent /\ AssemblesMessage(sessions'[n], n)
      OBVIOUS
    <2>1. \/ n = m /\ sessions'[n] = s
          \/ n \in DOMAIN sessions /\ sessions'[n] = sessions[n]
      BY <1>1, <1>4
    <2> QED
      BY <2>1, <1>2, <1>3 DEF DataInv
  <1>7. DeliveredWhole'
    <2> SUFFICES ASSUME NEW x \in inbox'
                 PROVE  \E n \in Messages : transmitted'[n] # Unsent /\ WholeMessage(x.bytes, n)
      BY DEF DeliveredWhole
    <2>1. CASE x \in inbox
      BY <2>1, <1>3 DEF DataInv, DeliveredWhole
    <2>2. CASE Complete(s) /\ x = Reassembled(s)
      <3>1. x.bytes = ReassembleMessage(s)
        BY <2>2 DEF Reassembled
      <3> QED
        BY <3>1, <2>2, <1>2, <1>3, CompleteIsWhole
    <2> QED
      BY <2>1, <2>2, <1>5
  <1> QED
    BY <1>3, <1>6, <1>7 DEF DataInv, SenderInv

LEMMA ReceiveKeepsData ==
    ASSUME ShortMessages, DataInv, NEW m \in Messages,
           NEW i \in 0 .. transmitted[m] - 1,
           \/ Receive(FragmentOf(m, i))
           \/ Receive(DamagedFragment(FragmentOf(m, i)))
    PROVE  DataInv'
  <1>1. transmitted[m] \in -1 .. TotalFragments(m) /\ TotalFragments(m) \in Nat
    BY FragmentCount DEF DataInv, SenderInv, Unsent
  <1>2. transmitted[m] # Unsent /\ i \in 0 .. TotalFragments(m) - 1
    BY <1>1 DEF Unsent
  <1>3. \/ AddFragment(FragmentOf(m, i))
        \/ UNCHANGED <<transmitted, sessions, inbox>>
    BY DamageFound DEF Receive, AddFragment, RejectFragment, DuplicateFragment, Hear, sender
  <1>4. CASE UNCHANGED <<transmitted, sessions, inbox>>
    BY <1>4 DEF DataInv, SenderInv, DeliveredWhole
  <1> QED
    BY <1>2, <1>3, <1>4, AddKeepsData

LEMMA TransmitKeepsData ==
    ASSUME DataInv, DOMAIN sessions \subseteq Messages, NEW m \in Messages, NEW k,
           k \in 0 .. TotalFragments(m),
           transmitted' = [transmitted EXCEPT ![m] = k],
           UNCHANGED <<sessions, inbox>>
    PROVE  DataInv'
  <1>1. /\ transmitted' \in [Messages -> Int]
        /\ \A n \in Messages : transmitted'[n] = IF n = m THEN k ELSE transmitted[n]
    BY DEF DataInv
  <1>2. SenderInv'
    BY <1>1, FragmentCount DEF DataInv, SenderInv, Unsent
  <1>3. k # Unsent
    BY FragmentCount DEF Unsent
  <1>4. \A n \in Messages : transmitted[n] # Unsent => transmitted'[n] # Unsent
    BY <1>1, <1>3
  <1>5. \A n \in DOMAIN sessions : transmitted'[n] # Unsent
    BY <1>4 DEF DataInv
  <1>6. DeliveredWhole'
    BY <1>4 DEF DataInv, DeliveredWhole
  <1> QED
    BY <1>1, <1>2, <1>5, <1>6 DEF DataInv

LEMMA DataInit ==
    ASSUME Init
    PROVE  DataInv
  <1>1. \A m \in Messages : transmitted[m] = Unsent /\ TotalFragments(m) \in Nat
    BY FragmentCount DEF Init
  <1> QED
    BY <1>1 DEF Init, DataInv, SenderInv, DeliveredWhole, Unsent

LEMMA DataStep ==
    ASSUME ShortMessages, ReceiverInv, DataInv, [Next]_vars
    PROVE  DataInv'
  <1>1. CASE UNCHANGED <<transmitted, sessions, inbox>>
    BY <1>1 DEF DataInv, SenderInv, DeliveredWhole
  <1>2. ASSUME NEW m \in Messages, Send(m)
        PROVE  DataInv'
    <2>1. 0 \in 0 .. TotalFragments(m)
      BY FragmentCount
    <2> QED
      BY <1>2, <2>1, TransmitKeepsData DEF Send, ReceiverInv, CountersInv
  <1>3. ASSUME NEW m \in Messages, TransmitFragment(m)
        PROVE  DataInv'
    <2>1. transmitted[m] + 1 \in 0 .. TotalFragments(m)
      BY <1>3, FragmentCount DEF TransmitFragment
    <2> QED
      BY <1>3, <2>1, TransmitKeepsData DEF TransmitFragment, ReceiverInv, CountersInv
  <1>4. ASSUME NEW m \in Messages, NEW i \in 0 .. transmitted[m] - 1,
               \/ Receive(FragmentOf(m, i))
               \/ Receive(DamagedFragment(FragmentOf(m, i)))
        PROVE  DataInv'
    BY <1>4, ReceiveKeepsData
  <1>5. CASE ExpireSessions /\ UNCHANGED <<transmitted, inbox>>
    BY <1>5 DEF ExpireSessions, DataInv, SenderInv, DeliveredWhole
  <1>6. CASE Tick
    <2>1. /\ DOMAIN sessions' = DOMAIN sessions
          /\ \A m \in DOMAIN sessions :
                sessions'[m].total = sessions[m].total
                /\ sessions'[m].received = sessions[m].received
      BY <1>6 DEF Tick, Aged
    <2> QED
      BY <1>6, <2>1
         DEF Tick, sender, DataInv, SenderInv, DeliveredWhole, AssemblesMessage
  <1>7. \/ UNCHANGED <<transmitted, sessions, inbox>>
        \/ \E m \in Messages : Send(m) \/ TransmitFragment(m)
        \/ \E m \in Messages : \E i \in 0 .. transmitted[m] - 1 :
            Receive(FragmentOf(m, i)) \/ Receive(DamagedFragment(FragmentOf(m, i)))
        \/ ExpireSessions /\ UNCHANGED <<transmitted, inbox>>
        \/ Tick
    BY DEF Next, vars, Connect, Disconnect, PerformCleanup, ClearReassemblyBuffers, sender
  <1> QED
    BY <1>1, <1>2, <1>3, <1>4, <1>5, <1>6, <1>7

(* Whatever arrives damaged, twice, late, mixed or never, the receiver     *)
(* hands up whole messages that were sent.  Beyond 65535 fragments the     *)
(* header's numbers wrap around, and the theorem says nothing.             *)
THEOREM DeliveredWholeTheorem ==
    ASSUME ShortMessages
    PROVE  Spec => []DeliveredWhole
  <1>1. Init => ReceiverInv /\ DataInv
    BY ReceiverInit, DataInit
  <1>2. ReceiverInv /\ DataInv /\ [Next]_vars => (ReceiverInv /\ DataInv)'
    BY ReceiverStep, DataStep
  <1>3. ReceiverInv /\ DataInv => DeliveredWhole
    BY DEF DataInv
  <1> QED
    BY <1>1, <1>2, <1>3, PTL DEF Spec

-----------------------------------------------------------------------------
(* The session evicted was silent while the others filled up.              *)
LEMMA EvictedIsSilent ==
    ASSUME ReceiverInv, heard < PacketsPerTick,
           Cardinality(DOMAIN sessions) >= MaxSessions, NEW m \in Oldest
    PROVE  PacketsPerTick * (sessions[m].age + 1) > MaxSessions
  <1> DEFINE a == sessions[m].age
  <1>1. m \in DOMAIN sessions /\ \A n \in DOMAIN sessions : sessions[n].age <= a
    BY DEF Oldest
  <1>2. a \in Nat /\ PacketsPerTick \in Nat /\ MaxSessions \in Nat /\ heard \in Nat
    BY <1>1, FragmentationAssumption
       DEF FragmentationAssumption, ReceiverInv, CountersInv, AgeInv
  <1>3. Recent(a) = DOMAIN sessions
    BY <1>1 DEF Recent
  <1>4. Cardinality(DOMAIN sessions) <= PacketsPerTick * a + heard
    BY <1>2, <1>3 DEF ReceiverInv, RateInv
  <1>5. Cardinality(DOMAIN sessions) \in Nat
    BY SubsetCardinality DEF ReceiverInv, CountersInv
  <1> HIDE DEF a
  <1>6. PacketsPerTick * a \in Nat
        /\ PacketsPerTick * (a + 1) = PacketsPerTick * a + PacketsPerTick
    BY <1>2
  <1>7. PacketsPerTick * (a + 1) > MaxSessions
    BY <1>2, <1>4, <1>5, <1>6
  <1> QED
    BY <1>7 DEF a

LEMMA AddCases ==
    ASSUME NEW f, AddFragment(f)
    PROVE  \E kept \in IF f.id \in DOMAIN sessions THEN {DOMAIN sessions} ELSE RoomMade :
            LET s == WithFragment(SessionFor(f), f) IN
            \/ /\ Complete(s)
               /\ sessions' = [n \in kept \ {f.id} |-> sessions[n]]
               /\ inbox' = inbox \cup {Reassembled(s)}
            \/ /\ ~Complete(s)
               /\ sessions' = [n \in kept \cup {f.id} |-> IF n = f.id THEN s ELSE sessions[n]]
               /\ inbox' = inbox
  BY DEF AddFragment

LEMMA AddEvictsSilent ==
    ASSUME ShortMessages, ReceiverInv, DataInv, NEW m \in Messages,
           NEW i \in 0 .. TotalFragments(m) - 1, AddFragment(FragmentOf(m, i)),
           NEW n \in DOMAIN sessions \ DOMAIN sessions'
    PROVE  \/ /\ Cardinality(DOMAIN sessions[n].received) = sessions[n].total - 1
              /\ \E x \in inbox' : WholeMessage(x.bytes, n)
           \/ PacketsPerTick * (sessions[n].age + 1) > MaxSessions
  <1> DEFINE f == FragmentOf(m, i)
             s == WithFragment(SessionFor(f), f)
  <1>1. f.id = m
    BY HeaderTrue
  <1>8. f.sequence = i
    BY HeaderTrue
  <1>2. AssemblesMessage(s, m)
    BY StillAssembles DEF DataInv
  <1>3. /\ i \notin DOMAIN SessionFor(f).received
        /\ DOMAIN s.received = DOMAIN SessionFor(f).received \cup {i}
        /\ s.total = SessionFor(f).total
    BY <1>8 DEF AddFragment, WithFragment
  <1>4. PICK kept \in IF f.id \in DOMAIN sessions THEN {DOMAIN sessions} ELSE RoomMade :
            \/ /\ Complete(s)
               /\ sessions' = [k \in kept \ {f.id} |-> sessions[k]]
               /\ inbox' = inbox \cup {Reassembled(s)}
            \/ /\ ~Complete(s)
               /\ sessions' = [k \in kept \cup {f.id} |-> IF k = f.id THEN s ELSE sessions[k]]
               /\ inbox' = inbox
    <2> HIDE DEF f
    <2> QED
      BY AddCases, Zenon DEF f
  <1>5. m \in DOMAIN sessions => SessionFor(f) = sessions[m]
    BY <1>1 DEF SessionFor
  <1> HIDE DEF f, s
  <1>6. CASE n = m
    <2>1. Complete(s) /\ Reassembled(s) \in inbox'
      BY <1>1, <1>4, <1>6
    <2>2. WholeMessage(Reassembled(s).bytes, m)
      BY <2>1, <1>2, CompleteIsWhole DEF Reassembled
    <2>3. /\ DOMAIN s.received = DOMAIN sessions[m].received \cup {i}
          /\ i \notin DOMAIN sessions[m].received
          /\ s.total = sessions[m].total
      BY <1>3, <1>5, <1>6
    <2>4. /\ s.total \in Nat
          /\ DOMAIN sessions[m].received \subseteq 0 .. s.total - 1
      BY <1>2, <2>3, FragmentCount DEF AssemblesMessage
    <2>5. IsFiniteSet(DOMAIN sessions[m].received)
      <3>1. s.total - 1 \in Int
        BY <2>4
      <3>2. IsFiniteSet(0 .. s.total - 1)
        BY <3>1, FS_Interval
      <3> QED
        BY <2>4, <3>2, FS_Subset
    <2>6. /\ Cardinality(DOMAIN sessions[m].received) \in Nat
          /\ Cardinality(DOMAIN s.received) = Cardinality(DOMAIN sessions[m].received) + 1
      BY <2>3, <2>5, FS_AddElement, FS_CardinalityType
    <2>7. Cardinality(DOMAIN sessions[m].received) = sessions[m].total - 1
      BY <2>1, <2>3, <2>4, <2>6 DEF Complete
    <2> QED
      BY <2>1, <2>2, <2>7, <1>6
  <1>7. CASE n # m
    <2>1. n \notin kept
      BY <1>1, <1>4, <1>7
    <2>2. kept \in RoomMade /\ kept # DOMAIN sessions
      BY <1>1, <1>4, <2>1
    <2>3. /\ Cardinality(DOMAIN sessions) >= MaxSessions
          /\ \E k \in Oldest : kept = DOMAIN sessions \ {k}
      BY <2>2, RoomMadeKinds DEF ReceiverInv
    <2>4. n \in Oldest
      BY <2>1, <2>3
    <2>5. heard < PacketsPerTick
      BY DEF AddFragment, Hear
    <2> QED
      BY <2>3, <2>4, <2>5, EvictedIsSilent
  <1> QED
    BY <1>6, <1>7

LEMMA ReceiveKinds ==
    ASSUME NEW f, Receive(f)
    PROVE  sessions' = sessions \/ AddFragment(f)
  BY DEF Receive, RejectFragment, DuplicateFragment

LEMMA StepEvictsSilent ==
    ASSUME ShortMessages, ReceiverInv, DataInv, Next,
           NEW n \in DOMAIN sessions \ DOMAIN sessions'
    PROVE  \/ /\ Cardinality(DOMAIN sessions[n].received) = sessions[n].total - 1
              /\ \E x \in inbox' : WholeMessage(x.bytes, n)
           \/ sessions[n].age > SessionTimeout
           \/ PacketsPerTick * (sessions[n].age + 1) > MaxSessions
  <1>1. \/ sessions' = sessions
        \/ DOMAIN sessions' = DOMAIN sessions
        \/ ExpireSessions
        \/ \E m \in Messages : \E i \in 0 .. transmitted[m] - 1 :
            AddFragment(FragmentOf(m, i))
    <2>1. CASE Connect \/ Disconnect
      BY <2>1 DEF Connect, Disconnect
    <2>2. ASSUME NEW m \in Messages, Send(m) \/ TransmitFragment(m)
          PROVE  sessions' = sessions
      BY <2>2 DEF Send, TransmitFragment
    <2>3. ASSUME NEW m \in Messages, NEW i \in 0 .. transmitted[m] - 1,
                 \/ Receive(FragmentOf(m, i))
                 \/ Receive(DamagedFragment(FragmentOf(m, i)))
          PROVE  sessions' = sessions \/ AddFragment(FragmentOf(m, i))
      <3>1. ~AddFragment(DamagedFragment(FragmentOf(m, i)))
        BY DamageFound DEF AddFragment
      <3> QED
        BY <2>3, <3>1, ReceiveKinds
    <2>4. CASE PerformCleanup \/ ClearReassemblyBuffers
      BY <2>4 DEF PerformCleanup, ClearReassemblyBuffers
    <2>5. CASE Tick
      BY <2>5 DEF Tick
    <2> QED
      BY <2>1, <2>2, <2>3, <2>4, <2>5 DEF Next
  <1>2. CASE ExpireSessions
    <2>1. sessions[n].age \in Int /\ SessionTimeout \in Int
      BY FragmentationAssumption
         DEF FragmentationAssumption, ReceiverInv, CountersInv, AgeInv
    <2>2. ~(sessions[n].age <= SessionTimeout)
      BY <1>2 DEF ExpireSessions
    <2> QED
      BY <2>1, <2>2
  <1>3. ASSUME NEW m \in Messages, NEW i \in 0 .. transmitted[m] - 1,
               AddFragment(FragmentOf(m, i))
        PROVE  \/ /\ Cardinality(DOMAIN sessions[n].received) = sessions[n].total - 1
                  /\ \E x \in inbox' : WholeMessage(x.bytes, n)
               \/ PacketsPerTick * (sessions[n].age + 1) > MaxSessions
    <2>1. i \in 0 .. TotalFragments(m) - 1
      BY FragmentCount DEF DataInv, SenderInv, Unsent
    <2> QED
      BY <1>3, <2>1, AddEvictsSilent
  <1> QED
    BY <1>1, <1>2, <1>3

(* A session is given up only when it was silent for longer than the       *)
(* timeout, or for as long as it takes to fill all sessions.               *)
THEOREM ActiveNotEvictedTheorem ==
    ASSUME ShortMessages
    PROVE  Spec => ActiveNotEvicted
  <1> DEFINE Silent ==
        \A m \in DOMAIN sessions \ DOMAIN sessions' :
            \/ /\ Cardinality(DOMAIN sessions[m].received) = sessions[m].total - 1
               /\ \E x \in inbox' : WholeMessage(x.bytes, m)
            \/ sessions[m].age > SessionTimeout
            \/ PacketsPerTick * (sessions[m].age + 1) > MaxSessions
  <1>1. Init => ReceiverInv /\ DataInv
    BY ReceiverInit, DataInit
  <1>2. ReceiverInv /\ DataInv /\ [Next]_vars => (ReceiverInv /\ DataInv)'
    BY ReceiverStep, DataStep
  <1>3. ReceiverInv /\ DataInv /\ [Next]_vars => [Silent]_vars
    BY StepEvictsSilent
  <1>4. ActiveNotEvicted <=> [][Silent]_vars
    BY DEF ActiveNotEvicted
  <1> HIDE DEF Silent
  <1> QED
    BY <1>1, <1>2, <1>3, <1>4, PTL DEF Spec

(* Every variable keeps its type; a session's age is limited because the   *)
(* cleanup runs when it is due.                                            *)
THEOREM TypeOKTheorem ==
    ASSUME ShortMessages
    PROVE  Spec => []TypeOK
  <1> DEFINE Inv == ReceiverInv /\ DataInv /\ connected \in BOOLEAN
  <1>1. Init => Inv
    BY ReceiverInit, DataInit DEF Init
  <1>2. Inv /\ [Next]_vars => Inv'
    <2>1. ASSUME [Next]_vars
          PROVE  Connect \/ Disconnect \/ connected' = connected
      BY <2>1 DEF Next, vars, Send, TransmitFragment, PerformCleanup,
                  ClearReassemblyBuffers, Tick, Receive, RejectFragment,
                  DuplicateFragment, AddFragment, Hear, sender
    <2>2. ASSUME Connect \/ Disconnect
          PROVE  connected' \in BOOLEAN
      BY <2>2, Zenon DEF Connect, Disconnect
    <2> QED
      BY <2>1, <2>2, ReceiverStep, DataStep
  <1>3. Inv => TypeOK
    <2> SUFFICES ASSUME Inv
                 PROVE  TypeOK
      OBVIOUS
    <2>1. transmitted \in [Messages -> Nat \cup {Unsent}]
      <3>1. \A m \in Messages : transmitted[m] \in Nat \cup {Unsent}
        BY FragmentCount DEF DataInv, SenderInv, Unsent
      <3> QED
        BY <3>1 DEF DataInv
    <2>2. ASSUME NEW m \in DOMAIN sessions
          PROVE  /\ sessions[m].total \in Nat \ {0}
                 /\ DOMAIN sessions[m].received \subseteq 0 .. sessions[m].total - 1
                 /\ sessions[m].age \in 0 .. SessionTimeout + CleanupInterval
      <3>1. m \in Messages
        BY DEF ReceiverInv, CountersInv
      <3>2. AssemblesMessage(sessions[m], m)
        BY DEF DataInv
      <3>3. sessions[m].age \in 0 .. SessionTimeout + CleanupInterval
        BY FragmentationAssumption
           DEF FragmentationAssumption, ReceiverInv, CountersInv, AgeInv
      <3> QED
        BY <3>1, <3>2, <3>3, FragmentCount DEF AssemblesMessage
    <2> QED
      BY <2>1, <2>2 DEF TypeOK, ReceiverInv, CountersInv
  <1> HIDE DEF Inv
  <1> QED
    BY <1>1, <1>2, <1>3, PTL DEF Spec

-----------------------------------------------------------------------------
(* HttpServer: the consistency of its tables, for every set of clients,    *)
(* sockets, addresses and challenges and both expirations.                 *)

Tokens == [challenge : ChallengeIds, age : Int]

Clients ==
    [user : ClientIds \cup {NoUser},
     subscription : (SUBSET UTXOAddresses) \cup {NoSubscription},
     rooms : SUBSET (UTXOAddresses \cup {AllUTXOs})]

(* The tables are functions with these values.                                *)
Tables ==
    /\ issued \in [DOMAIN issued -> Tokens]
    /\ sockets \in [DOMAIN sockets -> Clients]

(* A challenge that opened a session was issued and is not open any more, so  *)
(* that it cannot open another one.                                           *)
ChallengesUsedUp ==
    /\ DOMAIN authChallenges \subseteq challengesIssued
    /\ \A k \in DOMAIN issued :
           issued[k].challenge \in challengesIssued \ DOMAIN authChallenges

(* What SubscribersHear says of one socket.                                   *)
RoomsFit(socket) ==
    /\ AllUTXOs \in socket.rooms <=> socket.subscription # NoSubscription
    /\ socket.rooms # {} => socket.user # NoUser

ServerInv ==
    /\ Tables
    /\ ChallengesUsedUp
    /\ OneSessionPerChallenge
    /\ \A s \in DOMAIN sockets : RoomsFit(sockets[s])

-----------------------------------------------------------------------------
(* The challenges and sessions, which the sockets do not touch.               *)
SessionInv == issued \in [DOMAIN issued -> Tokens] /\ ChallengesUsedUp /\ OneSessionPerChallenge

(* The sockets, which the sessions do not touch.                              *)
SocketInv ==
    sockets \in [DOMAIN sockets -> Clients] /\ \A s \in DOMAIN sockets : RoomsFit(sockets[s])

LEMMA ServerInvParts == ServerInv <=> SessionInv /\ SocketInv
  BY DEF ServerInv, SessionInv, SocketInv, Tables

LEMMA IssueChallengeSessions ==
    ASSUME SessionInv, NEW c \in ChallengeIds, IssueChallenge(c)
    PROVE  SessionInv'
  <1>1. DOMAIN authChallenges' \subseteq DOMAIN authChallenges \cup {c}
    BY DEF IssueChallenge, Forgotten, Entered
  <1> QED
    BY <1>1 DEF IssueChallenge, SessionInv, ChallengesUsedUp, OneSessionPerChallenge

LEMMA VerifySessions ==
    ASSUME SessionInv, NEW c \in ChallengeIds, NEW client \in ClientIds, NEW complete \in BOOLEAN,
           Verify(c, client, complete)
    PROVE  SessionInv'
  <1>1. DOMAIN authChallenges' = DOMAIN authChallenges \ {c}
    BY DEF Verify, OpenSession, Forgotten
  <1>2. CASE OpenSession(c, client)
    <2>1. /\ DOMAIN issued' = DOMAIN issued \cup {client}
          /\ issued'[client] = [challenge |-> c, age |-> 0]
          /\ \A k \in DOMAIN issued : issued'[k] = issued[k]
      BY <1>2 DEF Verify, OpenSession, Entered
    <2>2. issued' \in [DOMAIN issued' -> Tokens]
      <3>1. issued' = [k \in DOMAIN issued \cup {client} |-> issued'[k]]
        BY <1>2 DEF OpenSession, Entered
      <3> QED
        BY <2>1, <3>1 DEF SessionInv, Tokens
    <2>3. ChallengesUsedUp'
      BY <1>1, <2>1 DEF Verify, SessionInv, ChallengesUsedUp
    <2>4. OneSessionPerChallenge'
      <3>1. \A k \in DOMAIN issued : issued[k].challenge # c
        BY DEF Verify, SessionInv, ChallengesUsedUp
      <3>2. authenticatedClients' = authenticatedClients \cup {client}
        BY <1>2 DEF OpenSession
      <3> QED
        BY <2>1, <3>1, <3>2 DEF SessionInv, OneSessionPerChallenge
    <2> QED
      BY <2>2, <2>3, <2>4 DEF SessionInv
  <1>3. CASE UNCHANGED <<authenticatedClients, issued>>
    BY <1>1, <1>3 DEF Verify, SessionInv, ChallengesUsedUp, OneSessionPerChallenge
  <1> QED
    BY <1>2, <1>3 DEF Verify

(* Refresh and the clock change the age of tokens only.                       *)
LEMMA AgesSessions ==
    ASSUME SessionInv,
           DOMAIN issued' = DOMAIN issued,
           issued' \in [DOMAIN issued -> Tokens],
           \A k \in DOMAIN issued : issued'[k].challenge = issued[k].challenge,
           DOMAIN authChallenges' = DOMAIN authChallenges,
           UNCHANGED <<challengesIssued, authenticatedClients>>
    PROVE  SessionInv'
  BY DEF SessionInv, ChallengesUsedUp, OneSessionPerChallenge

LEMMA RefreshSessions ==
    ASSUME SessionInv, NEW client \in ClientIds, Refresh(client)
    PROVE  SessionInv'
  <1>1. issued[client] \in Tokens
    BY DEF Refresh, Request, SessionInv
  <1>2. issued' = [issued EXCEPT ![client] = [issued[client] EXCEPT !.age = 0]]
    BY DEF Refresh
  <1>3. [issued[client] EXCEPT !.age = 0] = [challenge |-> issued[client].challenge, age |-> 0]
    BY <1>1 DEF Tokens
  <1>4. PICK token : token = [issued[client] EXCEPT !.age = 0]
    OBVIOUS
  <1>5. token \in Tokens /\ token.challenge = issued[client].challenge
    BY <1>1, <1>3, <1>4 DEF Tokens
  <1>6. issued \in [DOMAIN issued -> Tokens] /\ issued' = [issued EXCEPT ![client] = token]
    BY <1>2, <1>4 DEF SessionInv
  <1>7. /\ DOMAIN issued' = DOMAIN issued
        /\ issued' \in [DOMAIN issued -> Tokens]
        /\ \A k \in DOMAIN issued : issued'[k].challenge = issued[k].challenge
    BY <1>5, <1>6
  <1> QED
    BY <1>7, AgesSessions DEF Refresh

LEMMA TickSessions ==
    ASSUME SessionInv, ServerTick
    PROVE  SessionInv'
  <1>1. ASSUME NEW k \in DOMAIN issued
        PROVE  /\ issued'[k] \in Tokens
               /\ issued'[k].challenge = issued[k].challenge
    <2>1. issued[k] \in Tokens
      BY DEF SessionInv
    <2>2. PICK age : age = AgedTo(issued[k].age, JwtExpiration)
      OBVIOUS
    <2>3. age \in Int
      BY <2>1, <2>2 DEF AgedTo, Tokens
    <2>4. issued'[k] = [challenge |-> issued[k].challenge, age |-> age]
      BY <2>1, <2>2 DEF ServerTick, Tokens
    <2> QED
      BY <2>1, <2>3, <2>4 DEF Tokens
  <1>2. DOMAIN issued' = DOMAIN issued /\ issued' \in [DOMAIN issued -> Tokens]
    BY <1>1 DEF ServerTick
  <1>3. DOMAIN authChallenges' = DOMAIN authChallenges
    BY DEF ServerTick
  <1> QED
    BY <1>1, <1>2, <1>3, AgesSessions DEF ServerTick

(* A stopped server forgets its challenges and sessions, a disconnected       *)
(* socket at most a session.                                                  *)
LEMMA FewerSessions ==
    ASSUME SessionInv,
           DOMAIN authChallenges' \subseteq DOMAIN authChallenges,
           authenticatedClients' \subseteq authenticatedClients,
           UNCHANGED <<challengesIssued, issued>>
    PROVE  SessionInv'
  BY DEF SessionInv, ChallengesUsedUp, OneSessionPerChallenge

-----------------------------------------------------------------------------
LEMMA ConnectSockets ==
    ASSUME SocketInv, NEW s, ConnectSocket(s)
    PROVE  SocketInv'
  <1>1. PICK new : new = [user |-> NoUser, subscription |-> NoSubscription, rooms |-> {}]
    OBVIOUS
  <1>2. new \in Clients /\ RoomsFit(new)
    BY <1>1 DEF Clients, RoomsFit
  <1>3. sockets' = [t \in DOMAIN sockets \cup {s} |-> IF t = s THEN new ELSE sockets[t]]
    BY <1>1 DEF ConnectSocket, Entered
  <1> QED
    BY <1>2, <1>3 DEF SocketInv

LEMMA DisconnectSockets ==
    ASSUME SocketInv, NEW s, HandleClientDisconnect(s)
    PROVE  SocketInv'
  BY DEF SocketInv, HandleClientDisconnect, Forgotten

(* The other steps replace one socket.                                        *)
LEMMA ReplacedSocket ==
    ASSUME SocketInv, NEW s \in DOMAIN sockets, NEW new \in Clients, RoomsFit(new),
           sockets' = [sockets EXCEPT ![s] = new]
    PROVE  SocketInv'
  BY DEF SocketInv

LEMMA AuthSockets ==
    ASSUME SocketInv, NEW s, NEW client \in ClientIds, HandleWebSocketAuth(s, client)
    PROVE  SocketInv'
  <1>1. s \in DOMAIN sockets /\ sockets[s] \in Clients /\ RoomsFit(sockets[s])
    BY DEF HandleWebSocketAuth, SocketInv
  <1>2. PICK new : new = [sockets[s] EXCEPT !.user = client]
    OBVIOUS
  <1>3. new \in Clients /\ RoomsFit(new)
    BY <1>1, <1>2, ServerAssumption DEF Clients, RoomsFit
  <1>4. sockets' = [sockets EXCEPT ![s] = new]
    BY <1>2 DEF HandleWebSocketAuth
  <1> QED
    BY <1>1, <1>3, <1>4, ReplacedSocket

LEMMA SubscribesSockets ==
    ASSUME SocketInv, NEW s, Subscribes(s)
    PROVE  SocketInv'
  <1>1. /\ s \in DOMAIN sockets /\ sockets[s].user # NoUser
        /\ sockets[s] \in Clients /\ RoomsFit(sockets[s])
    BY DEF Subscribes, HandleUTXOSubscription, SocketInv
  <1>2. ASSUME NEW filters \in SUBSET UTXOAddresses,
               HandleUTXOSubscription(s, Subscribed(sockets[s], filters))
        PROVE  SocketInv'
    <2>1. PICK new : new = Subscribed(sockets[s], filters)
      OBVIOUS
    <2>2. new \in Clients /\ RoomsFit(new)
      BY <1>1, <2>1, ServerAssumption DEF Subscribed, Clients, RoomsFit
    <2> QED
      BY <1>1, <1>2, <2>1, <2>2, ReplacedSocket DEF HandleUTXOSubscription
  <1>3. ASSUME HandleUTXOSubscription(s, Unsubscribed(sockets[s]))
        PROVE  SocketInv'
    <2>1. PICK new : new = Unsubscribed(sockets[s])
      OBVIOUS
    <2>2. new \in Clients /\ RoomsFit(new)
      BY <1>1, <2>1 DEF Unsubscribed, Clients, RoomsFit
    <2> QED
      BY <1>1, <1>3, <2>1, <2>2, ReplacedSocket DEF HandleUTXOSubscription
  <1> QED
    BY <1>2, <1>3 DEF Subscribes

-----------------------------------------------------------------------------
LEMMA ServerInvInit ==
    ASSUME ServerInit
    PROVE  ServerInv
  BY DEF ServerInit, ServerInv, Tables, ChallengesUsedUp, OneSessionPerChallenge

LEMMA SessionInvStep ==
    ASSUME SessionInv, [ServerNext]_serverVars
    PROVE  SessionInv'
  <1>1. ASSUME UNCHANGED <<authChallenges, challengesIssued, authenticatedClients, issued>>
        PROVE  SessionInv'
    BY <1>1 DEF SessionInv, ChallengesUsedUp, OneSessionPerChallenge
  <1>2. ASSUME NEW c \in ChallengeIds, IssueChallenge(c)
        PROVE  SessionInv'
    BY <1>2, IssueChallengeSessions
  <1>3. ASSUME NEW c \in ChallengeIds, NEW k \in ClientIds, NEW complete \in BOOLEAN,
               Verify(c, k, complete)
        PROVE  SessionInv'
    BY <1>3, VerifySessions
  <1>4. ASSUME NEW k \in ClientIds, Refresh(k) \/ Logout(k)
        PROVE  SessionInv'
    BY <1>4, RefreshSessions, FewerSessions DEF Logout
  <1>5. ASSUME NEW s \in Sockets, HandleClientDisconnect(s)
        PROVE  SessionInv'
    BY <1>5, FewerSessions DEF HandleClientDisconnect
  <1>6. ASSUME NEW s \in Sockets,
               ConnectSocket(s) \/ Subscribes(s) \/ \E k \in ClientIds : HandleWebSocketAuth(s, k)
        PROVE  SessionInv'
    BY <1>1, <1>6 DEF ConnectSocket, Subscribes, HandleUTXOSubscription, HandleWebSocketAuth
  <1>7. ASSUME Closed
        PROVE  SessionInv'
    <2>1. DOMAIN authChallenges' = {}
      BY <1>7 DEF Closed
    <2> QED
      BY <1>7, <2>1, FewerSessions DEF Closed
  <1> QED
    BY <1>1, <1>2, <1>3, <1>4, <1>5, <1>6, <1>7, TickSessions
       DEF ServerNext, serverVars, Start, Stop

LEMMA SocketInvStep ==
    ASSUME SocketInv, [ServerNext]_serverVars
    PROVE  SocketInv'
  <1>1. ASSUME UNCHANGED sockets
        PROVE  SocketInv'
    BY <1>1 DEF SocketInv
  <1>2. ASSUME NEW c \in ChallengeIds,
               IssueChallenge(c) \/ \E k \in ClientIds, complete \in BOOLEAN : Verify(c, k, complete)
        PROVE  SocketInv'
    BY <1>1, <1>2 DEF IssueChallenge, Verify
  <1>3. ASSUME NEW k \in ClientIds, Refresh(k) \/ Logout(k)
        PROVE  SocketInv'
    BY <1>1, <1>3 DEF Refresh, Logout
  <1>4. ASSUME NEW s \in Sockets, ConnectSocket(s) \/ HandleClientDisconnect(s) \/ Subscribes(s)
        PROVE  SocketInv'
    BY <1>4, ConnectSockets, DisconnectSockets, SubscribesSockets
  <1>5. ASSUME NEW s \in Sockets, NEW k \in ClientIds, HandleWebSocketAuth(s, k)
        PROVE  SocketInv'
    BY <1>5, AuthSockets
  <1>6. ASSUME Start \/ Stop \/ Closed \/ ServerTick
        PROVE  SocketInv'
    BY <1>1, <1>6 DEF Start, Stop, Closed, ServerTick
  <1> QED
    BY <1>1, <1>2, <1>3, <1>4, <1>5, <1>6 DEF ServerNext, serverVars

LEMMA ServerInvSound ==
    ASSUME ServerInv
    PROVE  ServerSound
  <1>1. \A paid \in SUBSET UTXOAddresses, s \in DOMAIN sockets :
            sockets[s].subscription # NoSubscription => s \in BroadcastTransactionUpdate(paid)
    BY DEF ServerInv, RoomsFit, BroadcastTransactionUpdate
  <1> QED
    BY <1>1 DEF ServerInv, RoomsFit, ServerSound, SubscribersHear

(* No challenge opens two sessions, and who is subscribed hears of every      *)
(* submission, over late and repeated answers, ended sessions, replaced       *)
(* subscriptions, stops and starts (createAuthRouter, handleWebSocketAuth,    *)
(* handleUTXOSubscription, stop).                                             *)
THEOREM ServerSoundTheorem == ServerSpec => []ServerSound
  <1>1. ServerInv /\ [ServerNext]_serverVars => ServerInv'
    <2>1. ServerInv' <=> SessionInv' /\ SocketInv'
      BY DEF ServerInv, SessionInv, SocketInv, Tables
    <2> QED
      BY <2>1, ServerInvParts, SessionInvStep, SocketInvStep
  <1> QED
    BY <1>1, ServerInvInit, ServerInvSound, PTL DEF ServerSpec

-----------------------------------------------------------------------------
(* Retransmission: the two sessions of a message agree.  The session that  *)
(* puts the message together is the younger of the two only when it has    *)
(* expired already, so that no cleanup takes the other one before it.      *)

SessionFields == {"bitmap", "missing", "retries", "wait", "age", "state"}

IsSession(s) ==
    /\ s = [f \in SessionFields |-> s[f]]
    /\ s.age \in Nat
    /\ s.state # "expired"

BaseSession(m) == [received : SUBSET FragmentsFrom(m), age : Nat]

(* What b, the base session of m, and s, the enhanced one, have in common. *)
Agrees(b, s, m) ==
    /\ b \in BaseSession(m)
    /\ b.received \subseteq s.bitmap
    /\ s.state = "complete" => b.received = FragmentsFrom(m)
    /\ s.age <= b.age \/ b.age > BaseTimeout

SessionPairs ==
    /\ DOMAIN base \subseteq DOMAIN enhanced \cap Transfers
    /\ \A m \in DOMAIN enhanced : IsSession(enhanced[m])
    /\ \A m \in DOMAIN base : Agrees(base[m], enhanced[m], m)

AgreeInv ==
    /\ config \in NetworkConfigs
    /\ ~persistence => cleaning = NotCleaning /\ SessionPairs

(* The bitmap has room for every fragment.                                 *)
LEMMA BitmapHasRoom ==
    ASSUME NEW m \in Transfers, NEW i \in FragmentsFrom(m)
    PROVE  i < BitmapSize(m)
  <1>1. PICK n \in Nat \ {0} : n = FragmentsOf[m]
    BY RetransmissionAssumption
  <1>2. 8 * ((n + 7) \div 8) >= n
    OBVIOUS
  <1> QED
    BY <1>1, <1>2 DEF FragmentsFrom, BitmapSize

(* What scheduling and noting do to a session.                             *)
LEMMA ScheduledSession ==
    ASSUME NEW s, IsSession(s), NEW m
    PROVE  /\ IsSession(Scheduled(s, m).session)
           /\ Scheduled(s, m).session.bitmap = s.bitmap
           /\ Scheduled(s, m).session.age = s.age
           /\ Scheduled(s, m).session.state = "complete" => s.state = "complete"
  <1>1. CASE ~MayAsk(s)
    BY <1>1 DEF Scheduled
  <1>2. CASE MayAsk(s) /\ s.retries >= config.maxAttempts
    <2>1. Scheduled(s, m).session = [s EXCEPT !.state = "failed"]
      BY <1>2 DEF Scheduled
    <2> QED
      BY <2>1 DEF IsSession, SessionFields
  <1>3. CASE MayAsk(s) /\ ~(s.retries >= config.maxAttempts)
    <2>1. PICK due : due = Backoff(s.retries)
      OBVIOUS
    <2>2. Scheduled(s, m).session =
              [s EXCEPT !.wait = due, !.retries = @ + 1, !.state = "waiting_retransmission"]
      BY <1>3, <2>1 DEF Scheduled
    <2> QED
      BY <2>2 DEF IsSession, SessionFields
  <1> QED
    BY <1>1, <1>2, <1>3

LEMMA NewSessionTyped ==
    ASSUME NEW m, NEW i
    PROVE  IsSession(NewEnhanced(m, i)) /\ NewEnhanced(m, i).bitmap = {}
  BY DEF NewEnhanced, IsSession, SessionFields

LEMMA WithBitsSession ==
    ASSUME NEW s, IsSession(s), NEW m, NEW bits
    PROVE  /\ IsSession(WithBits(s, m, bits))
           /\ WithBits(s, m, bits).bitmap = s.bitmap \cup {i \in bits : i < BitmapSize(m)}
           /\ WithBits(s, m, bits).age = s.age
           /\ WithBits(s, m, bits).state = s.state
  BY DEF WithBits, IsSession, SessionFields

LEMMA WithMissingSession ==
    ASSUME NEW s, IsSession(s), NEW m
    PROVE  /\ IsSession(WithMissing(s, m))
           /\ WithMissing(s, m).bitmap = s.bitmap
  BY DEF WithMissing, IsSession, SessionFields

(* A session in which a fragment is noted has it, and has what it had.     *)
LEMMA NotedSession ==
    ASSUME SessionPairs, NEW m \in Transfers, NEW i \in FragmentsFrom(m)
    PROVE  /\ IsSession(Noted(m, i))
           /\ i \in Noted(m, i).bitmap
           /\ m \in DOMAIN base => base[m].received \subseteq Noted(m, i).bitmap
  <1>1. PICK s : s = IF m \in DOMAIN enhanced THEN enhanced[m] ELSE NewEnhanced(m, i)
    OBVIOUS
  <1>2. IsSession(s)
    BY <1>1, NewSessionTyped DEF SessionPairs
  <1>3. PICK w : w = WithBits(s, m, {i})
    OBVIOUS
  <1>4. IsSession(w) /\ w.bitmap = s.bitmap \cup {j \in {i} : j < BitmapSize(m)}
    BY <1>2, <1>3, WithBitsSession
  <1>5. Noted(m, i) = WithMissing(w, m)
    BY <1>1, <1>3 DEF Noted
  <1>6. IsSession(Noted(m, i)) /\ Noted(m, i).bitmap = w.bitmap
    BY <1>4, <1>5, WithMissingSession
  <1>7. m \in DOMAIN base => base[m].received \subseteq s.bitmap
    BY <1>1 DEF SessionPairs, Agrees
  <1> QED
    BY <1>4, <1>6, <1>7, BitmapHasRoom

LEMMA AddFragmentAgrees ==
    ASSUME SessionPairs, NEW m \in Transfers, NEW i \in FragmentsFrom(m),
           AddFragmentOf(m, i)
    PROVE  SessionPairs'
  <1>1. PICK room \in IF m \in DOMAIN base THEN {base} ELSE BaseRooms :
            LET received == (IF m \in DOMAIN base THEN base[m].received ELSE {}) \cup {i}
                scheduled == Scheduled(Noted(m, i), m)
            IN /\ base' = Put(room, m, [received |-> received, age |-> 0])
               /\ enhanced' = Put(enhanced, m,
                      [scheduled.session EXCEPT !.age = 0,
                          !.state = IF received = FragmentsFrom(m) THEN "complete" ELSE "receiving"])
    BY DEF AddFragmentOf, AddNewFragment
  <1>2. PICK received : received = (IF m \in DOMAIN base THEN base[m].received ELSE {}) \cup {i}
    OBVIOUS
  <1>3. PICK s : s = Scheduled(Noted(m, i), m).session
    OBVIOUS
  <1>4. PICK state : state = IF received = FragmentsFrom(m) THEN "complete" ELSE "receiving"
    OBVIOUS
  <1>5. PICK b : b = [received |-> received, age |-> 0]
    OBVIOUS
  <1>6. PICK e : e = [s EXCEPT !.age = 0, !.state = state]
    OBVIOUS
  <1>7. base' = Put(room, m, b) /\ enhanced' = Put(enhanced, m, e)
    BY <1>1, <1>2, <1>3, <1>4, <1>5, <1>6
  <1>8. DOMAIN room \subseteq DOMAIN base /\ \A x \in DOMAIN room : room[x] = base[x]
    BY <1>1 DEF BaseRooms, Removed
  <1>9. IsSession(s) /\ received \subseteq s.bitmap
    BY <1>2, <1>3, NotedSession, ScheduledSession
  <1>10. received \subseteq FragmentsFrom(m)
    BY <1>2 DEF SessionPairs, Agrees, BaseSession
  <1>11. IsSession(e) /\ e.bitmap = s.bitmap /\ e.age = 0 /\ e.state = state
    BY <1>4, <1>6, <1>9 DEF IsSession, SessionFields
  <1>12. Agrees(b, e, m)
    <2>1. b \in BaseSession(m) /\ b.received = received /\ b.age = 0
      BY <1>5, <1>10 DEF BaseSession
    <2> QED
      BY <1>4, <1>9, <1>11, <2>1 DEF Agrees
  <1>13. /\ DOMAIN base' = DOMAIN room \cup {m}
         /\ DOMAIN enhanced' = DOMAIN enhanced \cup {m}
         /\ base'[m] = b /\ enhanced'[m] = e
         /\ \A x \in DOMAIN room \ {m} : base'[x] = room[x]
         /\ \A x \in DOMAIN enhanced \ {m} : enhanced'[x] = enhanced[x]
    BY <1>7 DEF Put
  <1>14. ASSUME NEW x \in DOMAIN base'
         PROVE  Agrees(base'[x], enhanced'[x], x)
    <2>1. CASE x = m
      BY <1>12, <1>13, <2>1
    <2>2. CASE x # m
      <3>1. x \in DOMAIN base /\ base'[x] = base[x] /\ enhanced'[x] = enhanced[x]
        BY <1>8, <1>13, <2>2 DEF SessionPairs
      <3> QED
        BY <3>1 DEF SessionPairs
    <2> QED
      BY <2>1, <2>2
  <1>15. \A x \in DOMAIN enhanced' : IsSession(enhanced'[x])
    BY <1>11, <1>13 DEF SessionPairs
  <1>16. DOMAIN base' \subseteq DOMAIN enhanced' \cap Transfers
    BY <1>8, <1>13 DEF SessionPairs
  <1> QED
    BY <1>14, <1>15, <1>16 DEF SessionPairs

(* One enhanced session is touched: it keeps its bits, and is not complete *)
(* unless it was.                                                          *)
LEMMA TouchedAgrees ==
    ASSUME SessionPairs, NEW m \in DOMAIN enhanced, NEW e, IsSession(e),
           enhanced[m].bitmap \subseteq e.bitmap, e.age = 0,
           e.state = "complete" => enhanced[m].state = "complete",
           base' = base, enhanced' = [enhanced EXCEPT ![m] = e]
    PROVE  SessionPairs'
  <1>1. /\ DOMAIN enhanced' = DOMAIN enhanced
        /\ enhanced'[m] = e
        /\ \A x \in DOMAIN enhanced \ {m} : enhanced'[x] = enhanced[x]
    OBVIOUS
  <1>2. ASSUME NEW x \in DOMAIN base
        PROVE  Agrees(base[x], enhanced'[x], x)
    <2>1. Agrees(base[x], enhanced[x], x) /\ x \in DOMAIN enhanced
      BY DEF SessionPairs
    <2>2. CASE x = m
      BY <1>1, <2>1, <2>2 DEF Agrees, BaseSession
    <2>3. CASE x # m
      BY <1>1, <2>1, <2>3
    <2> QED
      BY <2>2, <2>3
  <1> QED
    BY <1>1, <1>2 DEF SessionPairs

LEMMA AcknowledgmentAgrees ==
    ASSUME SessionPairs, NEW m, NEW acknowledged,
           ProcessAcknowledgment(m, acknowledged)
    PROVE  SessionPairs'
  <1>1. m \in DOMAIN enhanced /\ base' = base
    BY DEF ProcessAcknowledgment
  <1>2. PICK w : w = WithBits(enhanced[m], m, acknowledged)
    OBVIOUS
  <1>3. /\ IsSession(w)
        /\ enhanced[m].bitmap \subseteq w.bitmap
        /\ w.state = enhanced[m].state
    <2>1. IsSession(enhanced[m])
      BY <1>1 DEF SessionPairs
    <2> QED
      BY <1>2, <2>1, WithBitsSession
  <1>4. PICK e : e = [w EXCEPT !.missing = @ \ acknowledged, !.age = 0]
    OBVIOUS
  <1>5. IsSession(e) /\ e.bitmap = w.bitmap /\ e.age = 0 /\ e.state = w.state
    BY <1>3, <1>4 DEF IsSession, SessionFields
  <1>6. enhanced' = [enhanced EXCEPT ![m] = e]
    BY <1>2, <1>4 DEF ProcessAcknowledgment
  <1> QED
    BY <1>1, <1>3, <1>5, <1>6, TouchedAgrees

LEMMA NackAgrees ==
    ASSUME SessionPairs, NEW m, NEW lacking, ProcessNack(m, lacking)
    PROVE  SessionPairs'
  <1>1. m \in DOMAIN enhanced /\ base' = base
    BY DEF ProcessNack
  <1>2. IsSession(enhanced[m])
    BY <1>1 DEF SessionPairs
  <1>3. PICK asked : asked = [enhanced[m] EXCEPT !.missing = @ \cup lacking, !.wait = 0]
    OBVIOUS
  <1>4. /\ IsSession(asked)
        /\ asked.bitmap = enhanced[m].bitmap
        /\ asked.state = enhanced[m].state
    BY <1>2, <1>3 DEF IsSession, SessionFields
  <1>5. PICK s : s = Scheduled(asked, m).session
    OBVIOUS
  <1>6. /\ IsSession(s)
        /\ s.bitmap = asked.bitmap
        /\ s.state = "complete" => asked.state = "complete"
    BY <1>4, <1>5, ScheduledSession
  <1>7. PICK e : e = [s EXCEPT !.age = 0]
    OBVIOUS
  <1>8. IsSession(e) /\ e.bitmap = s.bitmap /\ e.age = 0 /\ e.state = s.state
    BY <1>6, <1>7 DEF IsSession, SessionFields
  <1>9. enhanced' = [enhanced EXCEPT ![m] = e]
    BY <1>3, <1>5, <1>7 DEF ProcessNack
  <1> QED
    BY <1>1, <1>4, <1>6, <1>8, <1>9, TouchedAgrees

(* A session that a cleanup takes has left no base session behind.         *)
LEMMA CleanupAgrees ==
    ASSUME SessionPairs, config \in NetworkConfigs, ~persistence,
           PerformEnhancedCleanup
    PROVE  SessionPairs'
  <1>1. /\ base' = Removed(base, {m \in DOMAIN base : base[m].age > BaseTimeout})
        /\ enhanced' = Removed(enhanced, ExpiredEnhanced)
    BY DEF PerformEnhancedCleanup
  <1>2. /\ DOMAIN base' = {m \in DOMAIN base : ~(base[m].age > BaseTimeout)}
        /\ \A m \in DOMAIN base' : base'[m] = base[m]
        /\ DOMAIN enhanced' = DOMAIN enhanced \ ExpiredEnhanced
        /\ \A m \in DOMAIN enhanced' : enhanced'[m] = enhanced[m]
    BY <1>1 DEF Removed
  <1>3. ASSUME NEW m \in DOMAIN base'
        PROVE  m \in DOMAIN enhanced'
    <2>1. m \in DOMAIN base /\ ~(base[m].age > BaseTimeout)
      BY <1>2
    <2>2. m \in DOMAIN enhanced /\ IsSession(enhanced[m]) /\ Agrees(base[m], enhanced[m], m)
      BY <2>1 DEF SessionPairs
    <2>3. /\ enhanced[m].age \in Nat /\ base[m].age \in Nat
          /\ enhanced[m].age <= base[m].age
      BY <2>1, <2>2 DEF IsSession, Agrees, BaseSession
    <2>4. config.timeout \in Nat /\ BaseTimeout \in Nat /\ config.timeout >= BaseTimeout
      BY RetransmissionAssumption
    <2>5. ~(enhanced[m].age > config.timeout)
      BY <2>1, <2>3, <2>4
    <2> QED
      BY <1>2, <2>2, <2>5 DEF ExpiredEnhanced, IsSession
  <1> QED
    BY <1>2, <1>3 DEF SessionPairs

LEMMA RetransmissionTickAgrees ==
    ASSUME SessionPairs, RetransmissionTick
    PROVE  SessionPairs'
  <1>1. /\ base' = [m \in DOMAIN base |-> [base[m] EXCEPT !.age = OlderTo(@, BaseTimeout)]]
        /\ enhanced' = [m \in DOMAIN enhanced |->
                           [enhanced[m] EXCEPT !.age = OlderTo(@, LongestTimeout), !.wait = Sooner(@)]]
    BY DEF RetransmissionTick
  <1>2. ASSUME NEW m \in DOMAIN enhanced
        PROVE  /\ IsSession(enhanced'[m])
               /\ enhanced'[m].bitmap = enhanced[m].bitmap
               /\ enhanced'[m].state = enhanced[m].state
               /\ enhanced'[m].age <= enhanced[m].age + 1
    <2>1. PICK s : s = enhanced[m]
      OBVIOUS
    <2>2. IsSession(s)
      BY <2>1 DEF SessionPairs
    <2>3. PICK age : age = OlderTo(s.age, LongestTimeout)
      OBVIOUS
    <2>4. PICK wait : wait = Sooner(s.wait)
      OBVIOUS
    <2>5. enhanced'[m] = [s EXCEPT !.age = age, !.wait = wait]
      BY <1>1, <2>1, <2>2, <2>3, <2>4 DEF IsSession, SessionFields
    <2>6. age \in Nat /\ age <= s.age + 1
      BY <2>2, <2>3 DEF OlderTo, IsSession
    <2> QED
      BY <2>1, <2>2, <2>5, <2>6 DEF IsSession, SessionFields
  <1>3. ASSUME NEW m \in DOMAIN base
        PROVE  Agrees(base'[m], enhanced'[m], m)
    <2>1. Agrees(base[m], enhanced[m], m) /\ m \in DOMAIN enhanced /\ IsSession(enhanced[m])
      BY DEF SessionPairs
    <2>2. BaseTimeout \in Nat
      BY RetransmissionAssumption
    <2>3. PICK b \in BaseSession(m) : b = base[m]
      BY <2>1 DEF Agrees
    <2>4. base'[m] = [b EXCEPT !.age = OlderTo(b.age, BaseTimeout)]
      BY <1>1, <2>3 DEF BaseSession
    <2>5. PICK age : age = OlderTo(b.age, BaseTimeout)
      OBVIOUS
    <2>6. /\ age \in Nat
          /\ b.age > BaseTimeout => age > BaseTimeout
          /\ ~(b.age > BaseTimeout) => age = b.age + 1
      BY <2>2, <2>3, <2>5 DEF OlderTo, BaseSession
    <2>7. /\ base'[m] \in BaseSession(m)
          /\ base'[m].received = b.received
          /\ base'[m].age = age
      BY <2>3, <2>4, <2>5, <2>6 DEF BaseSession
    <2>8. enhanced'[m].age <= age \/ age > BaseTimeout
      <3>1. enhanced'[m].age \in Nat /\ enhanced[m].age \in Nat /\ b.age \in Nat
        BY <1>2, <2>1, <2>3 DEF IsSession, BaseSession
      <3>2. enhanced[m].age <= b.age \/ b.age > BaseTimeout
        BY <2>1, <2>3 DEF Agrees
      <3> QED
        BY <1>2, <2>1, <2>2, <2>6, <3>1, <3>2
    <2> QED
      BY <1>2, <2>1, <2>3, <2>7, <2>8 DEF Agrees
  <1>4. DOMAIN base' = DOMAIN base /\ DOMAIN enhanced' = DOMAIN enhanced
    BY <1>1
  <1> QED
    BY <1>2, <1>3, <1>4 DEF SessionPairs

LEMMA AgreeInit ==
    ASSUME RetransmissionInit
    PROVE  AgreeInv
  BY DEF RetransmissionInit, AgreeInv, SessionPairs

LEMMA AgreeStep ==
    ASSUME AgreeInv, [RetransmissionNext]_retransmissionVars
    PROVE  AgreeInv'
  <1>1. ASSUME UNCHANGED <<base, enhanced, cleaning, persistence>>, config' \in NetworkConfigs
        PROVE  AgreeInv'
    BY <1>1 DEF AgreeInv, SessionPairs
  <1>2. ASSUME ~persistence => SessionPairs',
               UNCHANGED <<config, persistence>>, ~persistence => cleaning' = NotCleaning
        PROVE  AgreeInv'
    BY <1>2 DEF AgreeInv
  <1>3. ASSUME NEW m \in Transfers, GetComplete(m)
        PROVE  AgreeInv'
    <2>1. SessionPairs => SessionPairs'
      BY <1>3 DEF GetComplete, Removed, SessionPairs
    <2> QED
      BY <1>2, <1>3, <2>1 DEF GetComplete, AgreeInv
  <1>4. ASSUME NEW m \in Transfers, NEW i \in FragmentsFrom(m), AddFragmentOf(m, i)
        PROVE  AgreeInv'
    BY <1>2, <1>4, AddFragmentAgrees DEF AddFragmentOf, Arrives, AgreeInv
  <1>5. ASSUME NEW m, NEW lacking, ProcessNack(m, lacking)
        PROVE  AgreeInv'
    BY <1>2, <1>5, NackAgrees DEF ProcessNack, Arrives, AgreeInv
  <1>6. ASSUME NEW m, NEW acknowledged, ProcessAcknowledgment(m, acknowledged)
        PROVE  AgreeInv'
    BY <1>2, <1>6, AcknowledgmentAgrees DEF ProcessAcknowledgment, Arrives, AgreeInv
  <1>7. ASSUME NEW c \in NetworkConfigs, OptimizeForNetworkConditions(c)
        PROVE  AgreeInv'
    BY <1>1, <1>7 DEF OptimizeForNetworkConditions
  <1>8. CASE ProcessRetransmissionQueue
    BY <1>1, <1>8 DEF ProcessRetransmissionQueue, AgreeInv
  <1>9. CASE PerformEnhancedCleanup
    <2>1. UNCHANGED <<config, persistence>> /\ (~persistence => cleaning' = cleaning)
      BY <1>9 DEF PerformEnhancedCleanup
    <2> QED
      BY <1>2, <1>9, <2>1, CleanupAgrees DEF AgreeInv
  <1>10. CASE SessionsPersisted
    BY <1>2, <1>10 DEF SessionsPersisted, AgreeInv
  <1>11. CASE RetransmissionTick
    BY <1>2, <1>11, RetransmissionTickAgrees DEF RetransmissionTick, AgreeInv
  <1>12. CASE Silence
    BY <1>1, <1>12 DEF Silence, AgreeInv
  <1>13. CASE UNCHANGED retransmissionVars
    BY <1>1, <1>13 DEF retransmissionVars, AgreeInv
  <1> QED
    BY <1>3, <1>4, <1>5, <1>6, <1>7, <1>8, <1>9, <1>10, <1>11, <1>12, <1>13
       DEF RetransmissionNext, RetransmissionTimers

(* Without a database the two sessions of a message agree: what has        *)
(* arrived is not asked for again, whichever of the sessions was evicted,  *)
(* expired, handed up or kept alive by acknowledgments, and what counts as *)
(* complete is (EnhancedUTXOFragmentReassembler, fragmentation.ts), for    *)
(* all messages, timeouts, limits and changes of the network's conditions. *)
THEOREM SessionsAgreeTheorem == RetransmissionSpec => []SessionsAgree
  <1>1. AgreeInv => SessionsAgree
    BY DEF AgreeInv, SessionPairs, Agrees, SessionsAgree, BaseComplete
  <1> QED
    BY <1>1, AgreeInit, AgreeStep, PTL DEF RetransmissionSpec


-----------------------------------------------------------------------------
(* Peers: no peer is left over in a table. The tables of the pool and those *)
(* of the ban list are kept apart, and each is followed through the         *)
(* operations that map one record to the next.                              *)

PoolFields == {"peers", "connections", "attempts", "replacing"}

IsPool(s) == s = [f \in PoolFields |-> s[f]]

IsConnection(c) == c = [f \in {"id", "state"} |-> c[f]]

Attempted(s) ==
    \A p \in DOMAIN s.connections :
        s.connections[p].state = "connecting" =>
            \E a \in s.attempts : a.peer = p /\ a.id = s.connections[p].id

PoolInv(s) ==
    /\ IsPool(s)
    /\ IsFiniteSet(DOMAIN s.peers) /\ DOMAIN s.peers \subseteq Peers
    /\ \A p \in DOMAIN s.connections : IsConnection(s.connections[p])
    /\ Attempted(s)

(* What changes in the records of known peers touches no connection.       *)
LEMMA RecordsPool ==
    ASSUME NEW s, PoolInv(s), NEW t, IsPool(t),
           DOMAIN t.peers = DOMAIN s.peers,
           t.connections = s.connections, t.attempts = s.attempts
    PROVE  PoolInv(t)
  BY DEF PoolInv, Attempted

LEMMA OnlinePool ==
    ASSUME NEW s, PoolInv(s), NEW p, NEW online, NEW t, t = WithOnline(s, p, online)
    PROVE  PoolInv(t) /\ DOMAIN t.peers = DOMAIN s.peers
  <1>1. CASE ~Known(s, p)
    BY <1>1 DEF WithOnline
  <1>2. CASE Known(s, p)
    <2>1. IsPool(s)
      BY DEF PoolInv
    <2>2. PICK peers : peers = [s.peers EXCEPT ![p].isOnline = online]
      OBVIOUS
    <2>3. DOMAIN peers = DOMAIN s.peers
      BY <2>2
    <2>4. t = [s EXCEPT !.peers = peers]
      BY <1>2, <2>2 DEF WithOnline
    <2>5. IsPool(t) /\ t.peers = peers /\ t.connections = s.connections /\ t.attempts = s.attempts
      BY <2>1, <2>4 DEF IsPool, PoolFields
    <2> QED
      BY <2>3, <2>5, RecordsPool
  <1> QED
    BY <1>1, <1>2

LEMMA TriedPool ==
    ASSUME NEW s, PoolInv(s), NEW p
    PROVE  PoolInv(Tried(s, p))
  <1>1. CASE ~Known(s, p)
    BY <1>1 DEF Tried
  <1>2. CASE Known(s, p)
    <2>1. IsPool(s)
      BY DEF PoolInv
    <2>2. PICK peers : peers = [s.peers EXCEPT ![p].tried = TRUE]
      OBVIOUS
    <2>3. DOMAIN peers = DOMAIN s.peers
      BY <2>2
    <2>4. PICK t : t = Tried(s, p)
      OBVIOUS
    <2>5. t = [s EXCEPT !.peers = peers]
      BY <1>2, <2>2, <2>4 DEF Tried
    <2>6. IsPool(t) /\ t.peers = peers /\ t.connections = s.connections /\ t.attempts = s.attempts
      BY <2>1, <2>5 DEF IsPool, PoolFields
    <2> QED
      BY <2>3, <2>4, <2>6, RecordsPool
  <1> QED
    BY <1>1, <1>2

(* Connections are left, and none is added.                                *)
LEMMA DisconnectPool ==
    ASSUME NEW s, PoolInv(s), NEW p, NEW t, t = PoolDisconnect(s, p)
    PROVE  PoolInv(t) /\ DOMAIN t.peers = DOMAIN s.peers
  <1>1. CASE p \notin DOMAIN s.connections
    BY <1>1 DEF PoolDisconnect
  <1>2. CASE p \in DOMAIN s.connections
    <2>1. PICK left : left = Without(s.connections, p)
      OBVIOUS
    <2>2. PICK u : u = [s EXCEPT !.connections = left]
      OBVIOUS
    <2>3. /\ IsPool(u) /\ u.peers = s.peers
          /\ u.connections = left /\ u.attempts = s.attempts
      BY <2>2 DEF PoolInv, IsPool, PoolFields
    <2>4. /\ DOMAIN left \subseteq DOMAIN s.connections
          /\ \A q \in DOMAIN left : left[q] = s.connections[q]
      BY <2>1 DEF Without
    <2>5. PoolInv(u)
      BY <2>3, <2>4 DEF PoolInv, Attempted
    <2>6. PICK offline : offline = FALSE
      OBVIOUS
    <2>7. t = WithOnline(u, p, offline)
      BY <1>2, <2>1, <2>2, <2>6 DEF PoolDisconnect
    <2> QED
      BY <2>3, <2>5, <2>7, OnlinePool
  <1> QED
    BY <1>1, <1>2

(* A new connection comes with its attempt.                                *)
LEMMA EstablishPool ==
    ASSUME NEW s, PoolInv(s), NEW p
    PROVE  PoolInv(Establish(s, p))
  <1>1. PICK i : i = UnusedId(s)
    OBVIOUS
  <1>2. PICK connections : connections = With(s.connections, p, [id |-> i, state |-> "connecting"])
    OBVIOUS
  <1>3. PICK attempts : attempts = s.attempts \cup {[peer |-> p, id |-> i]}
    OBVIOUS
  <1>4. PICK t : t = [s EXCEPT !.connections = connections, !.attempts = attempts]
    OBVIOUS
  <1>5. t = Establish(s, p)
    BY <1>1, <1>2, <1>3, <1>4 DEF Establish
  <1>6. /\ IsPool(t) /\ t.peers = s.peers
        /\ t.connections = connections /\ t.attempts = attempts
    BY <1>4 DEF PoolInv, IsPool, PoolFields
  <1>7. /\ connections[p] = [id |-> i, state |-> "connecting"]
        /\ DOMAIN connections = DOMAIN s.connections \cup {p}
        /\ \A q \in DOMAIN connections : q # p => connections[q] = s.connections[q]
    BY <1>2 DEF With
  <1>8. IsConnection(connections[p])
    BY <1>7 DEF IsConnection
  <1>9. \E a \in attempts : a.peer = p /\ a.id = connections[p].id
    <2>1. PICK a : a = [peer |-> p, id |-> i]
      OBVIOUS
    <2> QED
      BY <1>3, <1>7, <2>1
  <1>10. Attempted(t)
    BY <1>3, <1>6, <1>7, <1>9 DEF PoolInv, Attempted
  <1> QED
    BY <1>5, <1>6, <1>7, <1>8, <1>10 DEF PoolInv

LEMMA ReplacingPool ==
    ASSUME NEW s, PoolInv(s), NEW r
    PROVE  PoolInv([s EXCEPT !.replacing = r])
  <1>1. PICK t : t = [s EXCEPT !.replacing = r]
    OBVIOUS
  <1>2. IsPool(t) /\ t.peers = s.peers /\ t.connections = s.connections /\ t.attempts = s.attempts
    BY <1>1 DEF PoolInv, IsPool, PoolFields
  <1> QED
    BY <1>1, <1>2, RecordsPool

LEMMA ConnectPool ==
    ASSUME NEW s, PoolInv(s), NEW p
    PROVE  PoolInv(PoolConnect(s, p))
  <1>1. PICK u : u = PoolDisconnect(s, LowestPriority(s))
    OBVIOUS
  <1>2. PoolInv(u)
    BY <1>1, DisconnectPool
  <1>3. PoolInv([u EXCEPT !.replacing = Append(u.replacing, p)])
    BY <1>2, ReplacingPool
  <1>4. PoolInv(Establish(s, p))
    BY EstablishPool
  <1>5. PoolConnect(s, p) \in {s, Establish(s, p), [u EXCEPT !.replacing = Append(u.replacing, p)]}
    BY <1>1 DEF PoolConnect
  <1> QED
    BY <1>3, <1>4, <1>5

LEMMA AddedPool ==
    ASSUME NEW s, PoolInv(s), NEW p \in Peers
    PROVE  PoolInv(Added(s, p))
  <1>1. PICK peers : peers = With(s.peers, p, NewPeer(p))
    OBVIOUS
  <1>2. PICK known : known = [s EXCEPT !.peers = peers]
    OBVIOUS
  <1>3. /\ IsPool(known) /\ known.peers = peers
        /\ known.connections = s.connections /\ known.attempts = s.attempts
    BY <1>2 DEF PoolInv, IsPool, PoolFields
  <1>4. DOMAIN peers = DOMAIN s.peers \cup {p}
    BY <1>1 DEF With
  <1>5. IsFiniteSet(DOMAIN peers) /\ DOMAIN peers \subseteq Peers
    <2>1. IsFiniteSet(DOMAIN s.peers) /\ DOMAIN s.peers \subseteq Peers
      BY DEF PoolInv
    <2> QED
      BY <1>4, <2>1, FS_AddElement
  <1>6. PoolInv(known)
    BY <1>3, <1>5 DEF PoolInv, Attempted
  <1>7. Added(s, p) \in {known, PoolConnect(known, p)}
    BY <1>1, <1>2 DEF Added
  <1> QED
    BY <1>6, <1>7, ConnectPool


(* The two tables of a ban list agree, if no two peers share an address.   *)

BanFields == {"bannedPeers", "bannedAddresses", "misbehaviorHistory"}

IsBanList(b) == b = [f \in BanFields |-> b[f]]

IsBan(e, p) ==
    e = [peerId |-> p, duration |-> e.duration, remaining |-> e.remaining, attempts |-> e.attempts]

OwnAddresses == \A p, q \in Peers : AddressOf[p] = AddressOf[q] => p = q

(* The tables agree about p.                                               *)
SameBan(bans, addresses, p) ==
    /\ p \in DOMAIN bans <=> AddressOf[p] \in DOMAIN addresses
    /\ p \in DOMAIN bans =>
           /\ addresses[AddressOf[p]] = bans[p]
           /\ IsBan(bans[p], p)

BanInv(b) ==
    /\ IsBanList(b)
    /\ DOMAIN b.bannedPeers \subseteq Peers
    /\ OwnAddresses => \A p \in Peers : SameBan(b.bannedPeers, b.bannedAddresses, p)

LEMMA BannedList ==
    ASSUME NEW b, BanInv(b), NEW p \in Peers, NEW duration
    PROVE  BanInv(BanPeer(b, p, duration))
  <1>1. PICK e : e = BanEntry(b, p, duration)
    OBVIOUS
  <1>2. IsBan(e, p)
    BY <1>1 DEF BanEntry, IsBan
  <1>3. PICK bans : bans = With(b.bannedPeers, p, e)
    OBVIOUS
  <1>4. PICK addresses : addresses = With(b.bannedAddresses, AddressOf[p], e)
    OBVIOUS
  <1>5. PICK c : c = BanPeer(b, p, duration)
    OBVIOUS
  <1>6. c = [b EXCEPT !.bannedPeers = bans, !.bannedAddresses = addresses]
    BY <1>1, <1>3, <1>4, <1>5 DEF BanPeer
  <1>7. IsBanList(c) /\ c.bannedPeers = bans /\ c.bannedAddresses = addresses
    BY <1>6 DEF BanInv, IsBanList, BanFields
  <1>8. ASSUME OwnAddresses, NEW q \in Peers
        PROVE  SameBan(bans, addresses, q)
    <2>1. CASE q = p
      BY <1>2, <1>3, <1>4, <2>1 DEF With, SameBan
    <2>2. CASE q # p
      <3>1. AddressOf[q] # AddressOf[p]
        BY <1>8, <2>2 DEF OwnAddresses
      <3>2. SameBan(b.bannedPeers, b.bannedAddresses, q)
        BY <1>8 DEF BanInv
      <3> QED
        BY <1>3, <1>4, <2>2, <3>1, <3>2 DEF With, SameBan
    <2> QED
      BY <2>1, <2>2
  <1>9. DOMAIN bans \subseteq Peers
    BY <1>3 DEF With, BanInv
  <1> QED
    BY <1>5, <1>7, <1>8, <1>9 DEF BanInv

LEMMA UnbannedList ==
    ASSUME NEW b, BanInv(b), NEW p
    PROVE  BanInv(UnbanPeer(b, p))
  <1>1. CASE p \notin DOMAIN b.bannedPeers
    BY <1>1 DEF UnbanPeer
  <1>2. CASE p \in DOMAIN b.bannedPeers
    <2>1. PICK bans : bans = Without(b.bannedPeers, p)
      OBVIOUS
    <2>2. PICK addresses : addresses = Without(b.bannedAddresses, AddressOf[p])
      OBVIOUS
    <2>3. PICK history : history = [b.misbehaviorHistory EXCEPT ![p] = NoIncidents]
      OBVIOUS
    <2>4. PICK c : c = UnbanPeer(b, p)
      OBVIOUS
    <2>5. c = [b EXCEPT !.bannedPeers = bans, !.bannedAddresses = addresses,
                        !.misbehaviorHistory = history]
      BY <1>2, <2>1, <2>2, <2>3, <2>4 DEF UnbanPeer
    <2>6. IsBanList(c) /\ c.bannedPeers = bans /\ c.bannedAddresses = addresses
      BY <2>5 DEF BanInv, IsBanList, BanFields
    <2>7. ASSUME OwnAddresses, NEW q \in Peers
          PROVE  SameBan(bans, addresses, q)
      <3>1. CASE q = p
        BY <2>1, <2>2, <3>1 DEF Without, SameBan
      <3>2. CASE q # p
        <4>1. AddressOf[q] # AddressOf[p]
          BY <1>2, <2>7, <3>2 DEF OwnAddresses, BanInv
        <4>2. SameBan(b.bannedPeers, b.bannedAddresses, q)
          BY <2>7 DEF BanInv
        <4> QED
          BY <2>1, <2>2, <3>2, <4>1, <4>2 DEF Without, SameBan
      <3> QED
        BY <3>1, <3>2
    <2>8. DOMAIN bans \subseteq Peers
      BY <2>1 DEF Without, BanInv
    <2> QED
      BY <2>4, <2>6, <2>7, <2>8 DEF BanInv
  <1> QED
    BY <1>1, <1>2

LEMMA CheckedList ==
    ASSUME NEW b, BanInv(b), NEW p \in Peers
    PROVE  BanInv(Checked(b, p))
  <1>1. PICK c : c = PeerChecked(b, p)
    OBVIOUS
  <1>2. BanInv(c)
    BY <1>1, UnbannedList DEF PeerChecked
  <1>3. PICK d : d = AddressChecked(c, AddressOf[p])
    OBVIOUS
  <1>4. BanInv(d)
    <2>1. PICK q : q = c.bannedAddresses[AddressOf[p]].peerId
      OBVIOUS
    <2>2. BanInv(UnbanPeer(c, q))
      BY <1>2, UnbannedList
    <2> QED
      BY <1>2, <1>3, <2>1, <2>2 DEF AddressChecked
  <1>5. Checked(b, p) \in {b, d}
    BY <1>1, <1>3 DEF Checked
  <1> QED
    BY <1>4, <1>5

LEMMA MisbehavedList ==
    ASSUME NEW b, BanInv(b), NEW p \in Peers, NEW type
    PROVE  BanInv(RecordMisbehavior(b, p, type))
  <1>1. PICK c : EvaluateForBan(c, p, type) = RecordMisbehavior(b, p, type) /\
                 \E history : c = [b EXCEPT !.misbehaviorHistory = history]
    BY DEF RecordMisbehavior
  <1>2. PICK history : c = [b EXCEPT !.misbehaviorHistory = history]
    BY <1>1
  <1>3. /\ IsBanList(c) /\ c.bannedPeers = b.bannedPeers
        /\ c.bannedAddresses = b.bannedAddresses
    BY <1>2 DEF BanInv, IsBanList, BanFields
  <1>4. BanInv(c)
    BY <1>3 DEF BanInv
  <1>5. PICK duration : duration = DurationOf(type)
    OBVIOUS
  <1>6. BanInv(BanPeer(c, p, duration))
    BY <1>4, BannedList
  <1>7. EvaluateForBan(c, p, type) \in {c, BanPeer(c, p, duration)}
    BY <1>5 DEF EvaluateForBan
  <1> QED
    BY <1>1, <1>4, <1>6, <1>7

LEMMA ExpiredList ==
    ASSUME NEW b, BanInv(b)
    PROVE  BanInv(CheckExpiredBans(b))
  <1>1. PICK expired : expired = ExpiredPeers(b)
    OBVIOUS
  <1>2. PICK bans : bans = [p \in DOMAIN b.bannedPeers \ expired |-> b.bannedPeers[p]]
    OBVIOUS
  <1>3. PICK addresses : addresses =
            [a \in DOMAIN b.bannedAddresses \ {AddressOf[p] : p \in expired} |-> b.bannedAddresses[a]]
    OBVIOUS
  <1>4. PICK c : c = CheckExpiredBans(b)
    OBVIOUS
  <1>5. IsBanList(c) /\ c.bannedPeers = bans /\ c.bannedAddresses = addresses
    BY <1>1, <1>2, <1>3, <1>4 DEF CheckExpiredBans, IsBanList, BanFields
  <1>6. ASSUME OwnAddresses, NEW q \in Peers
        PROVE  SameBan(bans, addresses, q)
    <2>1. SameBan(b.bannedPeers, b.bannedAddresses, q)
      BY <1>6 DEF BanInv
    <2>2. q \in expired <=> AddressOf[q] \in {AddressOf[p] : p \in expired}
      BY <1>1, <1>6 DEF BanInv, ExpiredPeers, OwnAddresses
    <2> QED
      BY <1>2, <1>3, <2>1, <2>2 DEF SameBan
  <1>7. DOMAIN bans \subseteq Peers
    BY <1>2 DEF BanInv
  <1> QED
    BY <1>4, <1>5, <1>6, <1>7 DEF BanInv

LEMMA AgedList ==
    ASSUME NEW b, BanInv(b)
    PROVE  BanInv(BanListAged(b))
  <1>1. PICK bans : bans = [p \in DOMAIN b.bannedPeers |-> Shorter(b.bannedPeers[p])]
    OBVIOUS
  <1>2. PICK addresses : addresses = [a \in DOMAIN b.bannedAddresses |-> Shorter(b.bannedAddresses[a])]
    OBVIOUS
  <1>3. PICK c : c = BanListAged(b)
    OBVIOUS
  <1>4. IsBanList(c) /\ c.bannedPeers = bans /\ c.bannedAddresses = addresses
    BY <1>1, <1>2, <1>3 DEF BanListAged, IsBanList, BanFields
  <1>5. ASSUME OwnAddresses, NEW q \in Peers
        PROVE  SameBan(bans, addresses, q)
    <2>1. SameBan(b.bannedPeers, b.bannedAddresses, q)
      BY <1>5 DEF BanInv
    <2>2. ASSUME NEW e, IsBan(e, q)
          PROVE  IsBan(Shorter(e), q)
      BY <2>2 DEF IsBan, Shorter
    <2> QED
      BY <1>1, <1>2, <2>1, <2>2 DEF SameBan
  <1>6. DOMAIN bans \subseteq Peers
    BY <1>1 DEF BanInv
  <1> QED
    BY <1>3, <1>4, <1>5, <1>6 DEF BanInv


(* Folds. OptimizeConnections and MaintainPeers go through a set of peers    *)
(* in an order that FoldSet leaves open. A fold is the value at the whole   *)
(* set of a solution of its recursive equation; solutions exist, and what   *)
(* every step of a kind keeps, the fold keeps.                               *)

PeerStep(kind, p, s) ==
    IF kind = "leave" THEN PoolDisconnect(s, p)
    ELSE IF kind = "connect" THEN IF IsConnected(s, p) THEN s ELSE PoolConnect(s, p)
    ELSE IF kind = "check" THEN Checked(s, p)
    ELSE Added(s, p)

KeptBy(kind, s) == IF kind = "check" THEN BanInv(s) ELSE PoolInv(s)

First(S) == CHOOSE p \in S : TRUE

Folds(g, kind, s, S) ==
    g = [P \in SUBSET S |-> IF P = {} THEN s ELSE PeerStep(kind, First(P), g[P \ {First(P)}])]

LEMMA StepKeeps ==
    ASSUME NEW kind, NEW s, KeptBy(kind, s), NEW p \in Peers
    PROVE  KeptBy(kind, PeerStep(kind, p, s))
  <1>1. CASE kind = "check"
    BY <1>1, CheckedList DEF KeptBy, PeerStep
  <1>2. CASE kind = "leave"
    BY <1>2, DisconnectPool DEF KeptBy, PeerStep
  <1>3. CASE kind = "connect"
    BY <1>3, ConnectPool DEF KeptBy, PeerStep
  <1>4. CASE kind \notin {"check", "leave", "connect"}
    BY <1>4, AddedPool DEF KeptBy, PeerStep
  <1> QED
    BY <1>1, <1>2, <1>3, <1>4

LEMMA FirstIn ==
    ASSUME NEW S, S # {}
    PROVE  First(S) \in S
  BY DEF First

(* A nonempty collection of finite sets has a member none of whose strict  *)
(* subsets belongs to it.                                                  *)
LEMMA LeastSubset ==
    ASSUME NEW S, IsFiniteSet(S), NEW T, T \subseteq SUBSET S, T # {}
    PROVE  \E t \in T : \A u \in T : ~(u \subseteq t /\ u # t)
  <1>1. IsWellFoundedOn(StrictSubsetOrdering(S), SUBSET S)
    BY FS_StrictSubsetOrderingWellFounded, FS_FiniteSubsetsOfFinite
  <1>2. PICK t \in T : \A u \in T : ~(<<u, t>> \in StrictSubsetOrdering(S))
    BY <1>1, WFMin
  <1>3. ASSUME NEW u \in T, u \subseteq t, u # t
        PROVE  FALSE
    <2>1. <<u, t>> \in StrictSubsetOrdering(S)
      BY <1>3 DEF StrictSubsetOrdering
    <2> QED
      BY <1>2, <2>1
  <1> QED
    BY <1>3


(* Two solutions agree wherever both are defined.                          *)
LEMMA FoldsAgree ==
    ASSUME NEW kind, NEW s0, NEW S, NEW T, IsFiniteSet(S),
           NEW g, Folds(g, kind, s0, S), NEW h, Folds(h, kind, s0, T),
           NEW s, s \subseteq S, s \subseteq T
    PROVE  g[s] = h[s]
  <1> DEFINE Bad == {t \in SUBSET s : g[t] # h[t]}
  <1> SUFFICES ASSUME Bad # {}
               PROVE  FALSE
    OBVIOUS
  <1>1. IsFiniteSet(s)
    BY FS_Subset
  <1>2. PICK t \in Bad : \A u \in Bad : ~(u \subseteq t /\ u # t)
    <2>1. Bad \subseteq SUBSET s
      OBVIOUS
    <2> HIDE DEF Bad
    <2> QED
      BY <1>1, <2>1, LeastSubset
  <1>3. t \in SUBSET S /\ t \in SUBSET T
    OBVIOUS
  <1>4. /\ g[t] = IF t = {} THEN s0 ELSE PeerStep(kind, First(t), g[t \ {First(t)}])
        /\ h[t] = IF t = {} THEN s0 ELSE PeerStep(kind, First(t), h[t \ {First(t)}])
    BY <1>3 DEF Folds
  <1>5. CASE t = {}
    BY <1>4, <1>5
  <1>6. CASE t # {}
    <2>1. First(t) \in t
      BY <1>6, FirstIn
    <2>2. t \ {First(t)} \subseteq t /\ t \ {First(t)} # t /\ t \ {First(t)} \in SUBSET s
      BY <2>1
    <2>3. g[t \ {First(t)}] = h[t \ {First(t)}]
      BY <1>2, <2>2
    <2> QED
      BY <1>4, <1>6, <2>3
  <1> QED
    BY <1>5, <1>6

(* Every finite set has a solution.                                        *)
LEMMA FoldExists ==
    ASSUME NEW kind, NEW s0, NEW S, IsFiniteSet(S)
    PROVE  \E g : Folds(g, kind, s0, S)
  <1> DEFINE Sol(t) == CHOOSE g : Folds(g, kind, s0, t)
             Bad == {t \in SUBSET S : ~ \E g : Folds(g, kind, s0, t)}
  <1> SUFFICES ASSUME Bad # {}
               PROVE  FALSE
    OBVIOUS
  <1>1. PICK t \in Bad : \A u \in Bad : ~(u \subseteq t /\ u # t)
    <2>1. Bad \subseteq SUBSET S
      OBVIOUS
    <2> HIDE DEF Bad
    <2> QED
      BY <2>1, LeastSubset
  <1>2. \A u : u \subseteq t /\ u # t => Folds(Sol(u), kind, s0, u)
    BY <1>1
  <1> HIDE DEF Sol
  <1> DEFINE f == [s \in SUBSET t |->
                     IF s = {} THEN s0
                     ELSE PeerStep(kind, First(s), Sol(s \ {First(s)})[s \ {First(s)}])]
  <1>3. ASSUME NEW s, s \subseteq t, s # t
        PROVE  f[s] = Sol(s)[s]
    <2>1. Folds(Sol(s), kind, s0, s)
      BY <1>2, <1>3
    <2>2. Sol(s)[s] = IF s = {} THEN s0 ELSE PeerStep(kind, First(s), Sol(s)[s \ {First(s)}])
      BY <2>1 DEF Folds
    <2>3. CASE s = {}
      BY <2>2, <2>3
    <2>4. CASE s # {}
      <3> DEFINE r == s \ {First(s)}
      <3>1. r \subseteq s /\ r # s /\ r \subseteq t /\ r # t
        BY <1>3, <2>4, FirstIn
      <3>2. Folds(Sol(r), kind, s0, r)
        BY <1>2, <3>1
      <3>3. IsFiniteSet(r)
        BY <1>3, <3>1, FS_Subset
      <3>4. Sol(s)[r] = Sol(r)[r]
        BY <2>1, <3>1, <3>2, <3>3, FoldsAgree
      <3>5. f[s] = PeerStep(kind, First(s), Sol(r)[r])
        BY <1>3, <2>4
      <3> QED
        BY <2>2, <2>4, <3>4, <3>5
    <2> QED
      BY <2>3, <2>4
  <1>4. Folds(f, kind, s0, t)
    <2>1. ASSUME NEW s \in SUBSET t
          PROVE  f[s] = IF s = {} THEN s0 ELSE PeerStep(kind, First(s), f[s \ {First(s)}])
      <3>1. CASE s = {}
        BY <3>1
      <3>2. CASE s # {}
        <4>1. s \ {First(s)} \subseteq t /\ s \ {First(s)} # t
          BY <3>2, FirstIn
        <4>2. f[s \ {First(s)}] = Sol(s \ {First(s)})[s \ {First(s)}]
          BY <1>3, <4>1
        <4> QED
          BY <3>2, <4>2
      <3> QED
        BY <3>1, <3>2
    <2>2. f = [s \in SUBSET t |-> f[s]]
      OBVIOUS
    <2> HIDE DEF f
    <2> QED
      BY <2>1, <2>2 DEF Folds
  <1> QED
    BY <1>1, <1>4


(* What the steps keep, the fold keeps.                                    *)
LEMMA FoldKeeps ==
    ASSUME NEW kind, NEW s0, KeptBy(kind, s0), NEW S, IsFiniteSet(S), S \subseteq Peers,
           NEW g, Folds(g, kind, s0, S)
    PROVE  KeptBy(kind, g[S])
  <1> DEFINE Bad == {P \in SUBSET S : ~KeptBy(kind, g[P])}
  <1> SUFFICES ASSUME Bad # {}
               PROVE  FALSE
    OBVIOUS
  <1>1. PICK P \in Bad : \A R \in Bad : ~(R \subseteq P /\ R # P)
    <2>1. Bad \subseteq SUBSET S
      OBVIOUS
    <2> HIDE DEF Bad
    <2> QED
      BY <2>1, LeastSubset
  <1>2. P \in SUBSET S /\ ~KeptBy(kind, g[P])
    OBVIOUS
  <1>3. g[P] = IF P = {} THEN s0 ELSE PeerStep(kind, First(P), g[P \ {First(P)}])
    BY <1>2 DEF Folds
  <1>4. P # {}
    BY <1>2, <1>3
  <1>5. First(P) \in P
    BY <1>4, FirstIn
  <1>6. KeptBy(kind, g[P \ {First(P)}])
    <2>1. P \ {First(P)} \subseteq P /\ P \ {First(P)} # P /\ P \ {First(P)} \in SUBSET S
      BY <1>2, <1>5
    <2> QED
      BY <1>1, <2>1
  <1>7. First(P) \in Peers
    BY <1>2, <1>5
  <1> QED
    BY <1>2, <1>3, <1>4, <1>6, <1>7, StepKeeps

LEMMA LeaveFold ==
    ASSUME NEW s, PoolInv(s), NEW S, IsFiniteSet(S), S \subseteq Peers
    PROVE  PoolInv(FoldSet(LAMBDA p, t : PoolDisconnect(t, p), s, S))
  <1> DEFINE Body(g) == [P \in SUBSET S |-> IF P = {} THEN s ELSE PoolDisconnect(g[P \ {First(P)}], First(P))]
  <1>1. FoldSet(LAMBDA p, t : PoolDisconnect(t, p), s, S) = (CHOOSE g : g = Body(g))[S]
    BY Zenon DEF FoldSet, MapThenFoldSet, First
  <1>2. ASSUME NEW g
        PROVE  Folds(g, "leave", s, S) <=> g = Body(g)
    BY DEF Folds, PeerStep
  <1> HIDE DEF Body
  <1>3. PICK g : g = CHOOSE f : f = Body(f)
    OBVIOUS
  <1>4. Folds(g, "leave", s, S)
    <2>1. \E f : f = Body(f)
      BY <1>2, FoldExists
    <2> QED
      BY <1>2, <1>3, <2>1
  <1>5. KeptBy("leave", s)
    BY DEF KeptBy
  <1>6. KeptBy("leave", g[S])
    BY <1>4, <1>5, FoldKeeps
  <1> QED
    BY Zenon, <1>1, <1>3, <1>6 DEF KeptBy


LEMMA ConnectFold ==
    ASSUME NEW s, PoolInv(s), NEW S, IsFiniteSet(S), S \subseteq Peers
    PROVE  PoolInv(FoldSet(LAMBDA p, t : IF IsConnected(t, p) THEN t ELSE PoolConnect(t, p), s, S))
  <1> DEFINE Body(g) == [P \in SUBSET S |-> IF P = {} THEN s ELSE IF IsConnected(g[P \ {First(P)}], First(P)) THEN g[P \ {First(P)}] ELSE PoolConnect(g[P \ {First(P)}], First(P))]
  <1>1. FoldSet(LAMBDA p, t : IF IsConnected(t, p) THEN t ELSE PoolConnect(t, p), s, S) = (CHOOSE g : g = Body(g))[S]
    BY Zenon DEF FoldSet, MapThenFoldSet, First
  <1>2. ASSUME NEW g
        PROVE  Folds(g, "connect", s, S) <=> g = Body(g)
    BY DEF Folds, PeerStep
  <1> HIDE DEF Body
  <1>3. PICK g : g = CHOOSE f : f = Body(f)
    OBVIOUS
  <1>4. Folds(g, "connect", s, S)
    <2>1. \E f : f = Body(f)
      BY <1>2, FoldExists
    <2> QED
      BY <1>2, <1>3, <2>1
  <1>5. KeptBy("connect", s)
    BY DEF KeptBy
  <1>6. KeptBy("connect", g[S])
    BY <1>4, <1>5, FoldKeeps
  <1> QED
    BY Zenon, <1>1, <1>3, <1>6 DEF KeptBy

LEMMA AddFold ==
    ASSUME NEW s, PoolInv(s), NEW S, IsFiniteSet(S), S \subseteq Peers
    PROVE  PoolInv(FoldSet(LAMBDA p, t : Added(t, p), s, S))
  <1> DEFINE Body(g) == [P \in SUBSET S |-> IF P = {} THEN s ELSE Added(g[P \ {First(P)}], First(P))]
  <1>1. FoldSet(LAMBDA p, t : Added(t, p), s, S) = (CHOOSE g : g = Body(g))[S]
    BY Zenon DEF FoldSet, MapThenFoldSet, First
  <1>2. ASSUME NEW g
        PROVE  Folds(g, "add", s, S) <=> g = Body(g)
    BY DEF Folds, PeerStep
  <1> HIDE DEF Body
  <1>3. PICK g : g = CHOOSE f : f = Body(f)
    OBVIOUS
  <1>4. Folds(g, "add", s, S)
    <2>1. \E f : f = Body(f)
      BY <1>2, FoldExists
    <2> QED
      BY <1>2, <1>3, <2>1
  <1>5. KeptBy("add", s)
    BY DEF KeptBy
  <1>6. KeptBy("add", g[S])
    BY <1>4, <1>5, FoldKeeps
  <1> QED
    BY Zenon, <1>1, <1>3, <1>6 DEF KeptBy

LEMMA CheckFold ==
    ASSUME NEW s, BanInv(s), NEW S, IsFiniteSet(S), S \subseteq Peers
    PROVE  BanInv(FoldSet(LAMBDA p, t : Checked(t, p), s, S))
  <1> DEFINE Body(g) == [P \in SUBSET S |-> IF P = {} THEN s ELSE Checked(g[P \ {First(P)}], First(P))]
  <1>1. FoldSet(LAMBDA p, t : Checked(t, p), s, S) = (CHOOSE g : g = Body(g))[S]
    BY Zenon DEF FoldSet, MapThenFoldSet, First
  <1>2. ASSUME NEW g
        PROVE  Folds(g, "check", s, S) <=> g = Body(g)
    BY DEF Folds, PeerStep
  <1> HIDE DEF Body
  <1>3. PICK g : g = CHOOSE f : f = Body(f)
    OBVIOUS
  <1>4. Folds(g, "check", s, S)
    <2>1. \E f : f = Body(f)
      BY <1>2, FoldExists
    <2> QED
      BY <1>2, <1>3, <2>1
  <1>5. KeptBy("check", s)
    BY DEF KeptBy
  <1>6. KeptBy("check", g[S])
    BY <1>4, <1>5, FoldKeeps
  <1> QED
    BY Zenon, <1>1, <1>3, <1>6 DEF KeptBy

LEMMA RescoredPool ==
    ASSUME NEW s, PoolInv(s)
    PROVE  PoolInv(Rescored(s))
  <1>1. PICK peers : peers = [p \in DOMAIN s.peers |->
            [s.peers[p] EXCEPT !.score = PeerScore(p, s.peers[p].tried, FALSE)]]
    OBVIOUS
  <1>2. PICK t : t = [s EXCEPT !.peers = peers]
    OBVIOUS
  <1>3. /\ IsPool(t) /\ t.peers = peers
        /\ t.connections = s.connections /\ t.attempts = s.attempts
    BY <1>2 DEF PoolInv, IsPool, PoolFields
  <1>4. DOMAIN peers = DOMAIN s.peers
    BY <1>1
  <1>5. t = Rescored(s)
    BY <1>1, <1>2 DEF Rescored
  <1> QED
    BY <1>3, <1>4, <1>5, RecordsPool

-----------------------------------------------------------------------------
(* The steps.                                                              *)

DiscoveredInv == IsFiniteSet(discoveredPeers) /\ discoveredPeers \subseteq Peers

PeersInv == PoolInv(pool) /\ BanInv(banList) /\ DiscoveredInv

LEMMA CallsKeepPeers ==
    ASSUME PeersInv, NEW p \in Peers,
           \/ AddPeer(p) \/ RemovePeer(p) \/ ConnectToPeer(p) \/ DisconnectFromPeer(p)
    PROVE  PeersInv'
  <1>1. CASE AddPeer(p)
    <2>1. PoolInv(Added(pool, p)) /\ BanInv(Checked(banList, p))
      BY AddedPool, CheckedList DEF PeersInv
    <2> QED
      BY <1>1, <2>1 DEF AddPeer, PeersInv, DiscoveredInv
  <1>2. CASE RemovePeer(p)
    <2>1. PICK s : s = IF IsConnected(pool, p) THEN PoolDisconnect(pool, p) ELSE pool
      OBVIOUS
    <2>2. PoolInv(s)
      BY <2>1, DisconnectPool DEF PeersInv
    <2>3. PICK peers : peers = Without(s.peers, p)
      OBVIOUS
    <2>4. DOMAIN peers \subseteq DOMAIN s.peers
      BY <2>3 DEF Without
    <2>5. pool' = [s EXCEPT !.peers = peers]
      BY <1>2, <2>1, <2>3 DEF RemovePeer
    <2>6. /\ IsPool(pool') /\ pool'.peers = peers
          /\ pool'.connections = s.connections /\ pool'.attempts = s.attempts
      BY <2>2, <2>5 DEF PoolInv, IsPool, PoolFields
    <2>7. IsFiniteSet(DOMAIN peers) /\ DOMAIN peers \subseteq Peers
      BY <2>2, <2>4, FS_Subset DEF PoolInv
    <2>8. PoolInv(pool')
      BY <2>2, <2>6, <2>7 DEF PoolInv, Attempted
    <2> QED
      BY <1>2, <2>8 DEF RemovePeer, PeersInv, DiscoveredInv
  <1>3. CASE ConnectToPeer(p)
    BY <1>3, ConnectPool DEF ConnectToPeer, PeersInv, DiscoveredInv
  <1>4. CASE DisconnectFromPeer(p)
    BY <1>4, DisconnectPool DEF DisconnectFromPeer, PeersInv, DiscoveredInv
  <1> QED
    BY <1>1, <1>2, <1>3, <1>4


LEMMA BansKeepPeers ==
    ASSUME PeersInv, NEW p \in Peers,
           Ban(p) \/ Unban(p) \/ \E t \in MisbehaviorTypes : Misbehaves(p, t)
    PROVE  PeersInv'
  <1>1. CASE Ban(p)
    <2>1. PoolInv(pool')
      <3>1. PICK peers : peers = [pool.peers EXCEPT ![p].isBanned = TRUE]
        OBVIOUS
      <3>2. DOMAIN peers = DOMAIN pool.peers
        BY <3>1
      <3>3. pool' = [pool EXCEPT !.peers = peers]
        BY <1>1, <3>1 DEF Ban
      <3>4. /\ IsPool(pool') /\ pool'.peers = peers
            /\ pool'.connections = pool.connections /\ pool'.attempts = pool.attempts
        BY <3>3 DEF PeersInv, PoolInv, IsPool, PoolFields
      <3> QED
        BY <3>2, <3>4, RecordsPool DEF PeersInv
    <2>2. BanInv(BanPeer(banList, p, 0))
      BY BannedList DEF PeersInv
    <2> QED
      BY <1>1, <2>1, <2>2 DEF Ban, PeersInv, DiscoveredInv
  <1>2. CASE Unban(p)
    <2>1. PoolInv(pool')
      <3>1. CASE ~Known(pool, p)
        BY <1>2, <3>1 DEF Unban, PeersInv
      <3>2. CASE Known(pool, p)
        <4>1. PICK peers : peers = [pool.peers EXCEPT ![p].isBanned = FALSE]
          OBVIOUS
        <4>2. DOMAIN peers = DOMAIN pool.peers
          BY <4>1
        <4>3. pool' = [pool EXCEPT !.peers = peers]
          BY <1>2, <3>2, <4>1 DEF Unban
        <4>4. /\ IsPool(pool') /\ pool'.peers = peers
              /\ pool'.connections = pool.connections /\ pool'.attempts = pool.attempts
          BY <4>3 DEF PeersInv, PoolInv, IsPool, PoolFields
        <4> QED
          BY <4>2, <4>4, RecordsPool DEF PeersInv
      <3> QED
        BY <3>1, <3>2
    <2>2. BanInv(UnbanPeer(banList, p))
      BY UnbannedList DEF PeersInv
    <2> QED
      BY <1>2, <2>1, <2>2 DEF Unban, PeersInv, DiscoveredInv
  <1>3. CASE \E t \in MisbehaviorTypes : Misbehaves(p, t)
    BY <1>3, MisbehavedList DEF Misbehaves, PeersInv, DiscoveredInv
  <1> QED
    BY <1>1, <1>2, <1>3

LEMMA DiscoverKeepsPeers ==
    ASSUME PeersInv, NEW p \in Peers, Discover(p)
    PROVE  PeersInv'
  <1>1. PoolInv(Added(pool, p)) /\ BanInv(Checked(banList, p))
    BY AddedPool, CheckedList DEF PeersInv
  <1>2. IsFiniteSet(discoveredPeers \cup {p}) /\ discoveredPeers \cup {p} \subseteq Peers
    BY FS_AddElement DEF PeersInv, DiscoveredInv
  <1> QED
    BY <1>1, <1>2 DEF Discover, PeersInv, DiscoveredInv

(* The answers: a connection is made, fails, or is free to be replaced.    *)
LEMMA ReplacedKeepsPeers ==
    ASSUME PeersInv, Replaced
    PROVE  PeersInv'
  <1>1. PICK s : s = [pool EXCEPT !.replacing = Tail(pool.replacing)]
    OBVIOUS
  <1>2. PoolInv(s)
    BY <1>1, ReplacingPool DEF PeersInv
  <1>3. PoolInv(Establish(s, Head(pool.replacing)))
    BY <1>2, EstablishPool
  <1>4. pool' = Establish(s, Head(pool.replacing))
    BY <1>1 DEF Replaced
  <1> QED
    BY <1>3, <1>4 DEF Replaced, PeersInv, DiscoveredInv

LEMMA ConnectedKeepsPeers ==
    ASSUME PeersInv, NEW a \in pool.attempts, Connected(a)
    PROVE  PeersInv'
  <1>1. PICK attempts : attempts = pool.attempts \ {a}
    OBVIOUS
  <1>2. PICK connections : connections = [p \in DOMAIN pool.connections |->
            IF pool.connections[p].id = a.id THEN [pool.connections[p] EXCEPT !.state = "connected"]
            ELSE pool.connections[p]]
    OBVIOUS
  <1>3. PICK s : s = [pool EXCEPT !.attempts = attempts, !.connections = connections]
    OBVIOUS
  <1>4. IsPool(s) /\ s.peers = pool.peers /\ s.attempts = attempts /\ s.connections = connections
    BY <1>3 DEF PeersInv, PoolInv, IsPool, PoolFields
  <1>5. ASSUME NEW p \in DOMAIN connections
        PROVE  /\ IsConnection(connections[p])
               /\ connections[p].state = "connecting" =>
                      /\ connections[p] = pool.connections[p]
                      /\ pool.connections[p].id # a.id
    <2>1. p \in DOMAIN pool.connections /\ IsConnection(pool.connections[p])
      BY <1>2 DEF PeersInv, PoolInv
    <2> QED
      BY <1>2, <2>1 DEF IsConnection
  <1>6. Attempted(s)
    BY <1>1, <1>2, <1>4, <1>5 DEF PeersInv, PoolInv, Attempted
  <1>7. PoolInv(s)
    BY <1>4, <1>5, <1>6 DEF PeersInv, PoolInv
  <1>8. PICK online, u : online = TRUE /\ u = WithOnline(s, a.peer, online)
    OBVIOUS
  <1>9. PoolInv(Tried(u, a.peer))
    BY <1>7, <1>8, OnlinePool, TriedPool
  <1>10. pool' = Tried(u, a.peer)
    BY <1>1, <1>2, <1>3, <1>8 DEF Connected
  <1> QED
    BY <1>9, <1>10 DEF Connected, PeersInv, DiscoveredInv

LEMMA FailedKeepsPeers ==
    ASSUME PeersInv, NEW a \in pool.attempts, ConnectionFailed(a)
    PROVE  PeersInv'
  <1>1. PICK attempts : attempts = pool.attempts \ {a}
    OBVIOUS
  <1>2. PICK connections : connections = Without(pool.connections, a.peer)
    OBVIOUS
  <1>3. PICK s : s = [pool EXCEPT !.attempts = attempts, !.connections = connections]
    OBVIOUS
  <1>4. IsPool(s) /\ s.peers = pool.peers /\ s.attempts = attempts /\ s.connections = connections
    BY <1>3 DEF PeersInv, PoolInv, IsPool, PoolFields
  <1>5. ASSUME NEW p \in DOMAIN connections
        PROVE  p # a.peer /\ p \in DOMAIN pool.connections /\ connections[p] = pool.connections[p]
    BY <1>2 DEF Without
  <1>6. Attempted(s)
    BY <1>1, <1>4, <1>5 DEF PeersInv, PoolInv, Attempted
  <1>7. PoolInv(s)
    BY <1>4, <1>5, <1>6 DEF PeersInv, PoolInv
  <1>8. PICK offline, u : offline = FALSE /\ u = WithOnline(s, a.peer, offline)
    OBVIOUS
  <1>9. PoolInv(Tried(u, a.peer))
    BY <1>7, <1>8, OnlinePool, TriedPool
  <1>10. pool' = Tried(u, a.peer)
    BY <1>1, <1>2, <1>3, <1>8 DEF ConnectionFailed, Failed
  <1>11. BanInv(banList')
    <2>1. CASE Known(pool, a.peer)
      <3>1. a.peer \in Peers
        BY <2>1 DEF Known, PeersInv, PoolInv
      <3>2. PICK type : type = "connection_failure"
        OBVIOUS
      <3>3. BanInv(RecordMisbehavior(banList, a.peer, type))
        BY <3>1, MisbehavedList DEF PeersInv
      <3> QED
        BY <2>1, <3>2, <3>3 DEF ConnectionFailed
    <2>2. CASE ~Known(pool, a.peer)
      BY <2>2 DEF ConnectionFailed, PeersInv
    <2> QED
      BY <2>1, <2>2
  <1> QED
    BY <1>9, <1>10, <1>11 DEF ConnectionFailed, PeersInv, DiscoveredInv

(* The timers.                                                             *)
LEMMA OptimizeKeepsPeers ==
    ASSUME PeersInv, OptimizeConnections
    PROVE  PeersInv'
  <1>1. PICK best : best = BestPeers(pool)
    OBVIOUS
  <1>2. PICK others : others = {p \in DOMAIN pool.peers : IsConnected(pool, p)} \ best
    OBVIOUS
  <1>3. best \subseteq DOMAIN pool.peers /\ others \subseteq DOMAIN pool.peers
    BY <1>1, <1>2 DEF BestPeers
  <1>4. /\ IsFiniteSet(best) /\ best \subseteq Peers
        /\ IsFiniteSet(others) /\ others \subseteq Peers
    BY <1>3, FS_Subset DEF PeersInv, PoolInv
  <1>5. PICK left : left = FoldSet(LAMBDA p, s : PoolDisconnect(s, p), pool, others)
    OBVIOUS
  <1>6. PoolInv(left)
    BY Zenon, <1>4, <1>5, LeaveFold DEF PeersInv
  <1>7. PoolInv(FoldSet(LAMBDA p, s : IF IsConnected(s, p) THEN s ELSE PoolConnect(s, p), left, best))
    BY Zenon, <1>4, <1>6, ConnectFold
  <1>8. PoolInv(pool')
    BY Zenon, <1>1, <1>2, <1>5, <1>7 DEF OptimizeConnections
  <1> QED
    BY <1>8 DEF OptimizeConnections, PeersInv, DiscoveredInv

LEMMA MaintainKeepsPeers ==
    ASSUME PeersInv, MaintainPeers
    PROVE  PeersInv'
  <1>1. PICK again : again = {p \in discoveredPeers : ~Known(pool, p)}
    OBVIOUS
  <1>2. PICK free : free = {p \in again : ~IsBanned(banList, p)}
    OBVIOUS
  <1>3. /\ IsFiniteSet(again) /\ again \subseteq Peers
        /\ IsFiniteSet(free) /\ free \subseteq Peers
    <2>1. again \subseteq discoveredPeers /\ free \subseteq discoveredPeers
      BY <1>1, <1>2
    <2> QED
      BY <2>1, FS_Subset DEF PeersInv, DiscoveredInv
  <1>4. PICK s : s = Rescored(pool)
    OBVIOUS
  <1>5. PoolInv(s)
    BY <1>4, RescoredPool DEF PeersInv
  <1>6. PoolInv(FoldSet(LAMBDA p, t : Added(t, p), s, free))
    BY Zenon, <1>3, <1>5, AddFold
  <1>7. BanInv(FoldSet(LAMBDA p, b : Checked(b, p), banList, again))
    BY Zenon, <1>3, CheckFold DEF PeersInv
  <1>8. PoolInv(pool') /\ BanInv(banList')
    BY Zenon, <1>1, <1>2, <1>4, <1>6, <1>7 DEF MaintainPeers
  <1>9. discoveredPeers' = discoveredPeers
    BY Zenon DEF MaintainPeers
  <1> QED
    BY <1>8, <1>9 DEF PeersInv, DiscoveredInv

LEMMA BanTimersKeepPeers ==
    ASSUME PeersInv, MonitorBans \/ PeerTick
    PROVE  PeersInv'
  BY ExpiredList, AgedList DEF MonitorBans, PeerTick, PeersInv, DiscoveredInv

LEMMA PeersInvInit == PeerInit => PeersInv
  <1> SUFFICES ASSUME PeerInit
               PROVE  PeersInv
    OBVIOUS
  <1>1. DOMAIN <<>> = {}
    OBVIOUS
  <1>2. PoolInv(NoPool)
    <2>1. IsPool(NoPool) /\ DOMAIN NoPool.peers = {} /\ DOMAIN NoPool.connections = {}
      BY DEF NoPool, IsPool, PoolFields
    <2> QED
      BY <2>1, FS_EmptySet DEF PoolInv, Attempted
  <1>3. BanInv(EmptyBanList)
    BY DEF EmptyBanList, BanInv, IsBanList, BanFields, SameBan
  <1> QED
    BY <1>2, <1>3, FS_EmptySet DEF PeerInit, PeersInv, DiscoveredInv

LEMMA PeersInvStep == PeersInv /\ [PeerNext]_peerVars => PeersInv'
  <1> SUFFICES ASSUME PeersInv, [PeerNext]_peerVars
               PROVE  PeersInv'
    OBVIOUS
  <1>1. ASSUME NEW p \in Peers, CallsOf(p)
        PROVE  PeersInv'
    BY <1>1, CallsKeepPeers, BansKeepPeers, DiscoverKeepsPeers DEF CallsOf
  <1>2. CASE Timers
    BY <1>2, CallsKeepPeers, OptimizeKeepsPeers, MaintainKeepsPeers, BanTimersKeepPeers
       DEF Timers, DropStale, ForgetStale
  <1>3. CASE Answers
    BY <1>3, ReplacedKeepsPeers, ConnectedKeepsPeers, FailedKeepsPeers DEF Answers
  <1>4. CASE UNCHANGED peerVars
    BY <1>4 DEF peerVars, PeersInv, DiscoveredInv
  <1> QED
    BY <1>1, <1>2, <1>3, <1>4 DEF PeerNext

LEMMA PeersInvSound == PeersInv => PeersSound
  <1> SUFFICES ASSUME PeersInv
               PROVE  PeersSound
    OBVIOUS
  <1>1. BanListsAgree
    BY DEF PeersInv, BanInv, OwnAddresses, SameBan, BanListsAgree
  <1>2. ConnectingIsAttempted
    BY DEF PeersInv, PoolInv, Attempted, ConnectingIsAttempted
  <1> QED
    BY <1>1, <1>2 DEF PeersSound

(* For any number of peers, limits, thresholds and durations: a peer is    *)
(* banned as long as its address is and by the same entry, as long as no   *)
(* two share an address; and a connection that is being made has an        *)
(* attempt that will answer for it, whatever is left, replaced, forgotten  *)
(* or optimized away meanwhile (BanListManager, ConnectionPoolManager and  *)
(* PeerManager of peer-manager.ts).                                        *)
THEOREM PeersSoundTheorem == PeerSpec => []PeersSound
  <1>1. PeerSpec => []PeersInv
    BY PeersInvInit, PeersInvStep, PTL DEF PeerSpec
  <1> QED
    BY <1>1, PeersInvSound, PTL
=============================================================================
