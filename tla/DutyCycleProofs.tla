-------------------------- MODULE DutyCycleProofs --------------------------
(***************************************************************************)
(* The airtime of every window stays within what was allowed when its last *)
(* transmission was made, and a message is given up unsent only when it    *)
(* expired or for more urgent ones, for all configurations, windows and    *)
(* messages; and whom node discovery routes to is on the map it announces, *)
(* as old in both, for all nodes, whoever hears what and whenever one      *)
(* stops, starts again or loses what it transmits.                         *)
(***************************************************************************)
EXTENDS DutyCycle, NodeDiscovery, FiniteSetTheorems, TLAPS

(* Transmissions are records, finitely many, of the runs so far.           *)
AiredInv ==
    /\ IsFiniteSet(aired)
    /\ \A x \in aired :
        /\ x = [message |-> x.message, age |-> x.age, frequency |-> x.frequency,
                run |-> x.run, limit |-> x.limit]
        /\ x.age \in 0 .. Retention /\ x.run \in 0 .. restarts /\ x.limit \in Int

HistoryInv ==
    /\ IsFiniteSet(transmissionHistory)
    /\ \A r \in transmissionHistory :
        /\ r = [message |-> r.message, age |-> r.age, frequency |-> r.frequency]
        /\ r.age \in Nat

(* At most one transmission per tick, and none yet when the next is due.   *)
OnePerTick ==
    /\ \A x, y \in aired : x.run = y.run /\ x.age = y.age => x = y
    /\ due => \A x \in aired : x.run = restarts => x.age >= 1

(* What the manager's record of a transmission looks like.                 *)
RecordOf(x) == [message |-> x.message, age |-> x.age, frequency |-> x.frequency]

(* The manager knows what it transmitted since it started, for as long as  *)
(* it counts.                                                              *)
RemembersWindow ==
    \A x \in aired :
        x.run = restarts /\ x.age <= Window => RecordOf(x) \in transmissionHistory

Inv ==
    /\ config \in Configs /\ restarts \in Nat
    /\ AiredInv /\ HistoryInv /\ OnePerTick /\ RemembersWindow /\ AirtimeLimited

-----------------------------------------------------------------------------
LEMMA Times == Window \in Nat /\ Retention \in Nat /\ Window <= Retention
  BY DutyCycleAssumption DEF DutyCycleAssumption

LEMMA LimitType ==
    ASSUME NEW c \in Configs, Limited(c)
    PROVE  DutyCycleLimit(c) \in Int
  <1>1. c \in DutyCycleConfig
    BY DutyCycleAssumption DEF DutyCycleAssumption
  <1>2. c.frequency \in Frequencies /\ c.maxDutyCycle \in Nat
    BY <1>1 DEF DutyCycleConfig
  <1>3. CASE c.region = "EU" /\ SubBandOf[c.frequency] # NoSubBand
    <2>1. SubBandOf[c.frequency] \in DOMAIN SubBandLimit
      BY <1>2, <1>3, DutyCycleAssumption DEF DutyCycleAssumption
    <2>2. SubBandLimit[SubBandOf[c.frequency]] \in Range(SubBandLimit)
      BY <2>1 DEF Range
    <2>3. Range(SubBandLimit) \subseteq Nat
      BY DutyCycleAssumption DEF DutyCycleAssumption
    <2> QED
      BY <1>3, <2>2, <2>3 DEF DutyCycleLimit
  <1>4. CASE ~(c.region = "EU" /\ SubBandOf[c.frequency] # NoSubBand)
    <2>1. CASE c.maxDutyCycle = 0
      <3>1. c.region \in {"EU", "JP"}
        BY <2>1 DEF Limited
      <3>2. DefaultLimit[c.region] \in Nat
        BY <3>1, DutyCycleAssumption DEF DutyCycleAssumption
      <3> QED
        BY <1>4, <2>1, <3>2 DEF DutyCycleLimit
    <2>2. CASE c.maxDutyCycle # 0
      BY <1>2, <1>4, <2>2 DEF DutyCycleLimit
    <2> QED
      BY <2>1, <2>2
  <1> QED
    BY <1>3, <1>4

(* A set that another maps onto is no larger, and one that maps into       *)
(* another without collisions is no larger.                                *)
LEMMA OntoCardinality ==
    ASSUME NEW S, NEW T, IsFiniteSet(S), NEW f \in [S -> T],
           \A t \in T : \E s \in S : f[s] = t
    PROVE  IsFiniteSet(T) /\ Cardinality(T) <= Cardinality(S)
  <1>1. f \in Surjection(S, T)
    BY DEF Surjection
  <1> QED
    BY <1>1, FS_Surjection

LEMMA IntoCardinality ==
    ASSUME NEW S, NEW T, IsFiniteSet(T), NEW f \in [S -> T],
           \A s, t \in S : f[s] = f[t] => s = t
    PROVE  IsFiniteSet(S) /\ Cardinality(S) <= Cardinality(T)
  <1>1. f \in Injection(S, T)
    BY DEF Injection, IsInjective
  <1> QED
    BY <1>1, FS_Injection

-----------------------------------------------------------------------------
(* What the manager counts before a transmission covers the window.        *)
LEMMA CountedAirtime ==
    ASSUME Inv,
           NEW S, S = {y \in aired : /\ y.run = restarts /\ y.age \in 0 .. Window
                                     /\ SameSubBand(y.frequency, config.frequency)}
    PROVE  /\ IsFiniteSet(S) /\ Cardinality(S) \in Nat
           /\ CurrentAirtime(config) \in Nat
           /\ Duration * Cardinality(S) <= CurrentAirtime(config)
  <1> DEFINE T == {r \in transmissionHistory :
                    /\ InWindow(r)
                    /\ config.region = "EU" =>
                        IsSameSubBand(config, r.frequency, config.frequency)}
             f == [y \in S |-> RecordOf(y)]
  <1>1. IsFiniteSet(T)
    BY FS_Subset DEF Inv, HistoryInv
  <1>2. \A y \in S : RecordOf(y) \in T
    <2> SUFFICES ASSUME NEW y \in S
                 PROVE  RecordOf(y) \in T
      OBVIOUS
    <2>1. /\ RecordOf(y) \in transmissionHistory
          /\ RecordOf(y).age <= Window
      BY Times DEF Inv, RemembersWindow, RecordOf
    <2>2. IsSameSubBand(config, RecordOf(y).frequency, config.frequency)
      BY DEF IsSameSubBand, SameSubBand, RecordOf
    <2> QED
      BY <2>1, <2>2 DEF InWindow
  <1>3. f \in [S -> T]
    BY <1>2
  <1>4. \A y, z \in S : f[y] = f[z] => y = z
    <2>1. \A y, z \in S : RecordOf(y) = RecordOf(z) => y.age = z.age
      BY DEF RecordOf
    <2> QED
      BY <2>1 DEF Inv, OnePerTick
  <1> HIDE DEF T, f
  <1>5. IsFiniteSet(S) /\ Cardinality(S) <= Cardinality(T)
    BY <1>1, <1>3, <1>4, IntoCardinality
  <1>6. Cardinality(S) \in Nat /\ Cardinality(T) \in Nat
    BY <1>1, <1>5, FS_CardinalityType
  <1>7. CurrentAirtime(config) = Duration * Cardinality(T)
    BY DEF CurrentAirtime, T
  <1> QED
    BY <1>5, <1>6, <1>7 DEF Duration

(* The new transmission and the ones before it in the last window.         *)
LEMMA TransmitKeepsAirtime ==
    ASSUME Inv, due, Transmit, restarts' = restarts
    PROVE  /\ AirtimeLimited'
           /\ \E x : /\ aired' = aired \cup {x}
                     /\ x = [message |-> x.message, age |-> 0,
                             frequency |-> x.frequency, run |-> restarts,
                             limit |-> x.limit]
                     /\ x.limit \in Int
                     /\ transmissionHistory' = CleanupOldTransmissions(
                            transmissionHistory \cup {RecordOf(x)})
  <1> DEFINE p == Min(Occupied(queue))
             m == Head(queue[p]).message
             L == LimitFor(p)
             f == config.frequency
  <1>1. PICK x : x = [message |-> m, age |-> 0, frequency |-> f, run |-> restarts,
                      limit |-> L]
    OBVIOUS
  <1> DEFINE S == {y \in aired : /\ y.run = restarts /\ y.age \in 0 .. Window
                                 /\ SameSubBand(y.frequency, f)}
  <1>2. /\ CanTransmit(p)
        /\ aired' = aired \cup {x}
        /\ transmissionHistory' =
                CleanupOldTransmissions(transmissionHistory \cup {Transmission(m)})
    BY <1>1 DEF Transmit, MayTransmit
  <1>3. /\ x = [message |-> x.message, age |-> 0, frequency |-> x.frequency,
                run |-> restarts, limit |-> x.limit]
        /\ x.limit = L /\ x.age = 0 /\ x.run = restarts /\ x.frequency = f
    BY <1>1
  <1>4. x.limit \in Int
    BY <1>3, LimitType DEF Inv, LimitFor, NoLimit
  <1>5. x.limit # NoLimit => CurrentAirtime(config) + Duration <= x.limit
    BY <1>2, <1>3 DEF LimitFor, CanTransmit, ValidateTransmission
  <1>6. RecordOf(x) = Transmission(m)
    BY <1>1 DEF RecordOf, Transmission
  <1>7. x.limit # NoLimit => Duration * Cardinality(S \cup {x}) <= x.limit
    <2>1. /\ IsFiniteSet(S) /\ Cardinality(S) \in Nat
          /\ CurrentAirtime(config) \in Nat
          /\ Duration * Cardinality(S) <= CurrentAirtime(config)
      BY CountedAirtime
    <2> HIDE DEF S
    <2>2. Cardinality(S \cup {x}) <= Cardinality(S) + 1 /\ Cardinality(S \cup {x}) \in Nat
      <3>1. IsFiniteSet(S \cup {x})
            /\ Cardinality(S \cup {x}) \in {Cardinality(S), Cardinality(S) + 1}
        BY <2>1, FS_AddElement
      <3> QED
        BY <3>1, <2>1
    <2> QED
      BY <2>1, <2>2, <1>4, <1>5 DEF Duration
  <1>8. WindowOf(x)' = S \cup {x}
    <2>1. \A y \in aired : y.age \in Int /\ y.age - x.age = y.age
      BY <1>3 DEF Inv, AiredInv
    <2>2. x.age - x.age \in 0 .. Window
      BY <1>3, Times
    <2>3. SameSubBand(x.frequency, x.frequency)
      BY DEF SameSubBand
    <2>4. WindowOf(x)' = {y \in aired \cup {x} :
                            /\ y.run = x.run
                            /\ y.age - x.age \in 0 .. Window
                            /\ SameSubBand(y.frequency, x.frequency)}
      BY <1>2 DEF WindowOf, SameSubBand
    <2> HIDE DEF f
    <2> QED
      BY <2>1, <2>2, <2>3, <2>4, <1>3
  <1>9. ASSUME NEW z \in aired
        PROVE  WindowOf(z)' = WindowOf(z)
    <2>1. z.run = restarts => z.age \in Int /\ z.age >= 1
      BY DEF Inv, AiredInv, OnePerTick
    <2>2. z.run = restarts => ~(x.age - z.age \in 0 .. Window)
      BY <2>1, <1>3, Times
    <2>3. WindowOf(z)' = {y \in aired \cup {x} :
                            /\ y.run = z.run
                            /\ y.age - z.age \in 0 .. Window
                            /\ SameSubBand(y.frequency, z.frequency)}
      BY <1>2 DEF WindowOf, SameSubBand
    <2> QED
      BY <2>2, <2>3, <1>3 DEF WindowOf
  <1>10. AirtimeLimited'
    <2> SUFFICES ASSUME NEW z \in aired', z.limit # NoLimit
                 PROVE  Duration * Cardinality(WindowOf(z)') <= z.limit
      BY DEF AirtimeLimited
    <2>1. CASE z = x
      BY <2>1, <1>7, <1>8
    <2>2. CASE z # x
      BY <2>2, <1>2, <1>9 DEF Inv, AirtimeLimited
    <2> QED
      BY <2>1, <2>2
  <1> QED
    BY <1>2, <1>3, <1>4, <1>6, <1>10

LEMMA ProcessStep ==
    ASSUME Inv, ProcessQueue
    PROVE  Inv'
  <1>1. /\ config' = config /\ restarts' = restarts /\ due /\ due' = FALSE
    BY DEF ProcessQueue
  <1>2. CASE Transmit
    <2>1. AirtimeLimited'
      BY <1>1, <1>2, TransmitKeepsAirtime
    <2>2. PICK x : /\ aired' = aired \cup {x}
                   /\ x = [message |-> x.message, age |-> 0, frequency |-> x.frequency,
                           run |-> restarts, limit |-> x.limit]
                   /\ x.limit \in Int
                   /\ transmissionHistory' = CleanupOldTransmissions(
                            transmissionHistory \cup {RecordOf(x)})
      BY <1>1, <1>2, TransmitKeepsAirtime
    <2>3. x.age = 0 /\ x.run = restarts
      BY <2>2
    <2>4. RecordOf(x) = [message |-> RecordOf(x).message, age |-> RecordOf(x).age,
                         frequency |-> RecordOf(x).frequency]
          /\ RecordOf(x).age = 0
      BY <2>3 DEF RecordOf
    <2>5. AiredInv'
      <3>1. IsFiniteSet(aired')
        BY <2>2, FS_AddElement DEF Inv, AiredInv
      <3>2. ASSUME NEW y \in aired'
            PROVE  /\ y = [message |-> y.message, age |-> y.age,
                           frequency |-> y.frequency, run |-> y.run, limit |-> y.limit]
                   /\ y.age \in 0 .. Retention /\ y.run \in 0 .. restarts /\ y.limit \in Int
        <4>1. CASE y \in aired
          BY <4>1 DEF Inv, AiredInv
        <4>2. CASE y = x
          BY <4>2, <2>2, <2>3, Times DEF Inv
        <4> QED
          BY <4>1, <4>2, <2>2
      <3> QED
        BY <3>1, <3>2, <1>1 DEF AiredInv
    <2>6. HistoryInv'
      <3>1. IsFiniteSet(transmissionHistory \cup {RecordOf(x)})
        BY FS_AddElement DEF Inv, HistoryInv
      <3>2. transmissionHistory' \subseteq transmissionHistory \cup {RecordOf(x)}
        BY <2>2 DEF CleanupOldTransmissions
      <3> QED
        BY <3>1, <3>2, <2>4, FS_Subset DEF Inv, HistoryInv
    <2>7. OnePerTick'
      <3>1. \A y \in aired : y.run = restarts => y.age # 0
        BY <1>1 DEF Inv, OnePerTick, AiredInv
      <3> QED
        BY <3>1, <2>2, <2>3, <1>1 DEF Inv, OnePerTick
    <2>8. RemembersWindow'
      <3> SUFFICES ASSUME NEW y \in aired', y.run = restarts, y.age <= Window
                   PROVE  RecordOf(y) \in transmissionHistory'
        BY <1>1 DEF RemembersWindow
      <3>1. RecordOf(y) \in transmissionHistory \cup {RecordOf(x)}
        BY <2>2 DEF Inv, RemembersWindow
      <3>2. RecordOf(y).age <= Retention
        <4>1. y.age \in Nat
          BY <2>2, <2>3 DEF Inv, AiredInv
        <4> QED
          BY <4>1, Times DEF RecordOf
      <3> QED
        BY <3>1, <3>2, <2>2 DEF CleanupOldTransmissions
    <2> QED
      BY <1>1, <2>1, <2>5, <2>6, <2>7, <2>8 DEF Inv
  <1>3. CASE /\ transmissionHistory' = CleanupOldTransmissions(transmissionHistory)
             /\ UNCHANGED aired
    <2>1. transmissionHistory' \subseteq transmissionHistory
      BY <1>3 DEF CleanupOldTransmissions
    <2>2. HistoryInv'
      BY <2>1, FS_Subset DEF Inv, HistoryInv
    <2>3. RemembersWindow'
      <3> SUFFICES ASSUME NEW y \in aired, y.run = restarts, y.age <= Window
                   PROVE  RecordOf(y) \in transmissionHistory'
        BY <1>1, <1>3 DEF RemembersWindow
      <3>1. RecordOf(y) \in transmissionHistory
        BY DEF Inv, RemembersWindow
      <3>2. RecordOf(y).age <= Retention
        BY Times DEF Inv, AiredInv, RecordOf
      <3> QED
        BY <3>1, <3>2, <1>3 DEF CleanupOldTransmissions
    <2>4. AirtimeLimited'
      BY <1>3 DEF Inv, AirtimeLimited, WindowOf
    <2> QED
      BY <1>1, <1>3, <2>2, <2>3, <2>4 DEF Inv, AiredInv, OnePerTick
  <1> QED
    BY <1>2, <1>3 DEF ProcessQueue

-----------------------------------------------------------------------------
LEMMA TickStep ==
    ASSUME Inv, Tick
    PROVE  Inv'
  <1> DEFINE old(x) == Older(x, Retention)
             K == {s \in aired : s.age < Retention}
  <1>1. /\ config' = config /\ restarts' = restarts
        /\ aired' = {old(x) : x \in K}
        /\ transmissionHistory' = {old(r) : r \in transmissionHistory}
    BY DEF Tick
  <1>2. ASSUME NEW x \in K
        PROVE  /\ old(x) = [message |-> x.message, age |-> x.age + 1,
                            frequency |-> x.frequency, run |-> x.run, limit |-> x.limit]
               /\ x.age \in Nat /\ x.age + 1 \in 0 .. Retention
    <2>1. /\ x = [message |-> x.message, age |-> x.age, frequency |-> x.frequency,
                  run |-> x.run, limit |-> x.limit]
          /\ x.age \in 0 .. Retention /\ x.age < Retention
      BY DEF Inv, AiredInv
    <2>2. old(x) = [x EXCEPT !.age = x.age + 1]
      BY <2>1, Times DEF Older
    <2> QED
      BY <2>1, <2>2, Times
  <1>3. ASSUME NEW r \in transmissionHistory
        PROVE  /\ old(r) = [message |-> r.message, age |-> old(r).age,
                            frequency |-> r.frequency]
               /\ old(r).age \in Nat
               /\ r.age < Retention => old(r).age = r.age + 1
    <2>1. /\ r = [message |-> r.message, age |-> r.age, frequency |-> r.frequency]
          /\ r.age \in Nat
      BY DEF Inv, HistoryInv
    <2>2. CASE r.age > Retention
      BY <2>1, <2>2, Times DEF Older
    <2>3. CASE ~(r.age > Retention)
      <3>1. old(r) = [r EXCEPT !.age = r.age + 1]
        BY <2>3 DEF Older
      <3> QED
        BY <3>1, <2>1
    <2> QED
      BY <2>2, <2>3, <2>1, Times
  <1> HIDE DEF old
  <1>4. K \subseteq aired /\ IsFiniteSet(K)
    BY FS_Subset DEF Inv, AiredInv
  <1>5. AiredInv'
    <2>1. IsFiniteSet(aired')
      <3> DEFINE f == [x \in K |-> old(x)]
      <3>1. f \in [K -> aired'] /\ \A t \in aired' : \E s \in K : f[s] = t
        BY <1>1
      <3> HIDE DEF f
      <3> QED
        BY <3>1, <1>4, OntoCardinality
    <2>2. ASSUME NEW x \in K
          PROVE  LET z == old(x) IN
                 /\ z = [message |-> z.message, age |-> z.age, frequency |-> z.frequency,
                         run |-> z.run, limit |-> z.limit]
                 /\ z.age \in 0 .. Retention /\ z.run \in 0 .. restarts /\ z.limit \in Int
      BY <1>2, <1>4 DEF Inv, AiredInv
    <2> QED
      BY <1>1, <2>1, <2>2 DEF AiredInv
  <1>6. HistoryInv'
    <2>1. IsFiniteSet(transmissionHistory')
      <3> DEFINE f == [r \in transmissionHistory |-> old(r)]
      <3>1. /\ f \in [transmissionHistory -> transmissionHistory']
            /\ \A t \in transmissionHistory' : \E s \in transmissionHistory : f[s] = t
        BY <1>1
      <3> HIDE DEF f
      <3> QED
        BY <3>1, OntoCardinality DEF Inv, HistoryInv
    <2>2. ASSUME NEW r \in transmissionHistory
          PROVE  LET z == old(r) IN
                 /\ z = [message |-> z.message, age |-> z.age, frequency |-> z.frequency]
                 /\ z.age \in Nat
      BY <1>3
    <2> QED
      BY <1>1, <2>1, <2>2 DEF HistoryInv
  <1>7. OnePerTick'
    <2>1. ASSUME NEW x \in K, NEW y \in K, old(x).run = old(y).run, old(x).age = old(y).age
          PROVE  old(x) = old(y)
      <3>1. x.run = y.run /\ x.age = y.age
        BY <2>1, <1>2
      <3> QED
        BY <3>1, <1>4 DEF Inv, OnePerTick
    <2>2. \A x \in K : old(x).age >= 1
      BY <1>2
    <2> QED
      BY <1>1, <2>1, <2>2 DEF OnePerTick
  <1>8. RemembersWindow'
    <2> SUFFICES ASSUME NEW x \in K, old(x).run = restarts, old(x).age <= Window
                 PROVE  RecordOf(old(x)) \in transmissionHistory'
      BY <1>1 DEF RemembersWindow
    <2>1. x.run = restarts /\ x.age + 1 <= Window /\ x.age \in Nat
      BY <1>2
    <2>2. RecordOf(x) \in transmissionHistory
      BY <2>1, <1>4, Times DEF Inv, RemembersWindow
    <2>3. /\ RecordOf(x).message = x.message /\ RecordOf(x).frequency = x.frequency
          /\ RecordOf(x).age = x.age
      BY DEF RecordOf
    <2>4. old(RecordOf(x)) = [message |-> x.message, age |-> x.age + 1,
                              frequency |-> x.frequency]
      BY <2>1, <2>2, <2>3, <1>3, Times
    <2>5. RecordOf(old(x)) = old(RecordOf(x))
      BY <2>4, <1>2 DEF RecordOf
    <2> QED
      BY <2>2, <2>5, <1>1
  <1>9. AirtimeLimited'
    <2> SUFFICES ASSUME NEW x \in K, old(x).limit # NoLimit
                 PROVE  Duration * Cardinality(WindowOf(old(x))') <= old(x).limit
      BY <1>1 DEF AirtimeLimited
    <2> DEFINE W == WindowOf(x)
               V == WindowOf(old(x))'
               X == {y \in W : y \in K}
               f == [y \in X |-> old(y)]
    <2>1. \A y \in K : old(y) \in V <=> y \in W
      <3> SUFFICES ASSUME NEW y \in K
                   PROVE  old(y) \in V <=> y \in W
        OBVIOUS
      <3>1. old(y).age - old(x).age = y.age - x.age
        BY <1>2
      <3>2. old(y).run = y.run /\ old(y).frequency = y.frequency
        BY <1>2
      <3>3. old(x).run = x.run /\ old(x).frequency = x.frequency
        BY <1>2
      <3> QED
        BY <3>1, <3>2, <3>3, <1>1, <1>4 DEF WindowOf
    <2>2. V \subseteq aired'
      BY DEF WindowOf
    <2>3. f \in [X -> V] /\ \A t \in V : \E s \in X : f[s] = t
      BY <2>1, <2>2, <1>1
    <2>4. X \subseteq W /\ W \subseteq aired
      BY DEF WindowOf
    <2>5. IsFiniteSet(W) /\ IsFiniteSet(X) /\ Cardinality(X) <= Cardinality(W)
      BY <2>4, FS_Subset DEF Inv, AiredInv
    <2> HIDE DEF f, X, V, W
    <2>6. IsFiniteSet(V) /\ Cardinality(V) <= Cardinality(X)
      BY <2>3, <2>5, OntoCardinality
    <2>7. Cardinality(V) \in Nat /\ Cardinality(X) \in Nat /\ Cardinality(W) \in Nat
      BY <2>5, <2>6, FS_CardinalityType
    <2>8. old(x).limit = x.limit /\ x.limit \in Int
      BY <1>2, <1>4 DEF Inv, AiredInv
    <2>9. Duration * Cardinality(W) <= x.limit
      BY <2>8, <1>4 DEF Inv, AirtimeLimited, W
    <2> QED
      BY <2>5, <2>6, <2>7, <2>8, <2>9 DEF Duration, V
  <1> QED
    BY <1>1, <1>5, <1>6, <1>7, <1>8, <1>9 DEF Inv

LEMMA RestartStep ==
    ASSUME Inv, Restart
    PROVE  Inv'
  <1>1. /\ config' \in Configs /\ restarts' = restarts + 1 /\ due' = FALSE
        /\ transmissionHistory' = {} /\ aired' = aired
    BY DEF Restart
  <1>2. AiredInv' /\ \A x \in aired : x.run # restarts'
    BY <1>1 DEF Inv, AiredInv
  <1>3. HistoryInv'
    BY <1>1, FS_EmptySet DEF HistoryInv
  <1>4. OnePerTick' /\ RemembersWindow'
    BY <1>1, <1>2 DEF Inv, OnePerTick, RemembersWindow
  <1>5. AirtimeLimited'
    BY <1>1 DEF Inv, AirtimeLimited, WindowOf
  <1> QED
    BY <1>1, <1>2, <1>3, <1>4, <1>5 DEF Inv

(* Everything else leaves the transmissions alone.                         *)
LEMMA QuietStep ==
    ASSUME Inv, config' \in Configs, due' => due,
           UNCHANGED <<transmissionHistory, aired, restarts>>
    PROVE  Inv'
  <1>1. AirtimeLimited'
    BY DEF Inv, AirtimeLimited, WindowOf
  <1> QED
    BY <1>1 DEF Inv, AiredInv, HistoryInv, OnePerTick, RemembersWindow

(* In no window does the airtime exceed what was allowed when its last     *)
(* transmission was made, emergencies apart.                               *)
THEOREM AirtimeLimitedTheorem == Spec => []AirtimeLimited
  <1>1. Init => Inv
    <2> SUFFICES ASSUME Init
                 PROVE  Inv
      OBVIOUS
    <2>1. aired = {} /\ transmissionHistory = {} /\ restarts = 0 /\ config \in Configs
      BY DEF Init
    <2> QED
      BY <2>1, FS_EmptySet
         DEF Inv, AiredInv, HistoryInv, OnePerTick, RemembersWindow, AirtimeLimited
  <1>2. Inv /\ [Next]_vars => Inv'
    <2> SUFFICES ASSUME Inv, [Next]_vars
                 PROVE  Inv'
      OBVIOUS
    <2>1. config \in Configs
      BY DEF Inv
    <2>2. ASSUME NEW m \in Messages, EnqueueMessage(m)
          PROVE  Inv'
      BY <2>1, <2>2, QuietStep DEF EnqueueMessage
    <2>3. CASE UpdateConfig
      BY <2>3, QuietStep DEF UpdateConfig
    <2>4. CASE Start \/ Stop
      BY <2>1, <2>4, QuietStep DEF Start, Stop
    <2>5. CASE ProcessQueue
      BY <2>5, ProcessStep
    <2>6. CASE Tick
      BY <2>6, TickStep
    <2>7. CASE Restart
      BY <2>7, RestartStep
    <2>8. CASE UNCHANGED vars
      BY <2>1, <2>8, QuietStep DEF vars
    <2> QED
      BY <2>2, <2>3, <2>4, <2>5, <2>6, <2>7, <2>8 DEF Next
  <1>3. Inv => AirtimeLimited
    BY DEF Inv
  <1> QED
    BY <1>1, <1>2, <1>3, PTL DEF Spec
-----------------------------------------------------------------------------
(* The queue.                                                              *)

Entry == [message : Messages, age : 0 .. TTL]

(* Every message waits in one place, the queue of its priority.            *)
QueueShape(q) ==
    /\ q \in [Priorities -> Seq(Entry)]
    /\ \A p \in Priorities : \A i \in DOMAIN q[p] : Priority[q[p][i].message] = p
    /\ \A p \in Priorities : \A i, j \in DOMAIN q[p] :
           q[p][i].message = q[p][j].message => i = j

MessagesOf(q) == {e.message : e \in Entries(q)}

LEMMA QueueConstants ==
    /\ TTL \in Nat \ {0} /\ MaxSize \in Nat \ {0} /\ Retention \in Nat \ {0}
    /\ MaxRestarts \in Nat
    /\ \A m \in Messages : Priority[m] \in Priorities
  BY DutyCycleAssumption DEF DutyCycleAssumption

LEMMA EntriesAt ==
    ASSUME NEW q, NEW e
    PROVE  e \in Entries(q) <=>
               \E p \in Priorities : \E i \in DOMAIN q[p] : e = q[p][i]
  BY DEF Entries, Range

LEMMA SizeType ==
    ASSUME NEW q, QueueShape(q)
    PROVE  /\ \A p \in Priorities : Len(q[p]) \in Nat
           /\ Size(q) \in Nat
  <1>1. 0 \in Priorities /\ 1 \in Priorities /\ 2 \in Priorities /\ 3 \in Priorities
    BY DEF Priorities
  <1>2. \A p \in Priorities : Len(q[p]) \in Nat
    BY DEF QueueShape
  <1>3. PICK a \in Nat, b \in Nat, c \in Nat, d \in Nat :
            a = Len(q[0]) /\ b = Len(q[1]) /\ c = Len(q[2]) /\ d = Len(q[3])
    BY <1>1, <1>2
  <1>4. Size(q) = a + b + c + d
    BY <1>3 DEF Size
  <1> QED
    BY <1>2, <1>4

LEMMA SizeBound ==
    ASSUME NEW q, QueueShape(q), NEW r, QueueShape(r),
           \A p \in Priorities : Len(r[p]) <= Len(q[p])
    PROVE  Size(r) <= Size(q)
  <1>1. 0 \in Priorities /\ 1 \in Priorities /\ 2 \in Priorities /\ 3 \in Priorities
    BY DEF Priorities
  <1>2. /\ \A p \in Priorities : Len(q[p]) \in Nat
        /\ \A p \in Priorities : Len(r[p]) \in Nat
    BY SizeType
  <1>3. PICK a \in Nat, b \in Nat, c \in Nat, d \in Nat :
            a = Len(q[0]) /\ b = Len(q[1]) /\ c = Len(q[2]) /\ d = Len(q[3])
    BY <1>1, <1>2
  <1>4. PICK h \in Nat, i \in Nat, j \in Nat, k \in Nat :
            h = Len(r[0]) /\ i = Len(r[1]) /\ j = Len(r[2]) /\ k = Len(r[3])
    BY <1>1, <1>2
  <1>5. h <= a /\ i <= b /\ j <= c /\ k <= d
    BY <1>1, <1>3, <1>4
  <1>6. Size(q) = a + b + c + d /\ Size(r) = h + i + j + k
    BY <1>3, <1>4 DEF Size
  <1> QED
    BY <1>5, <1>6

(* The size follows the one queue that changes.                            *)
LEMMA SizeChange ==
    ASSUME NEW q, QueueShape(q), NEW r, QueueShape(r), NEW p \in Priorities,
           \A o \in Priorities : o # p => r[o] = q[o]
    PROVE  Size(r) = Size(q) - Len(q[p]) + Len(r[p])
  <1>1. 0 \in Priorities /\ 1 \in Priorities /\ 2 \in Priorities /\ 3 \in Priorities
    BY DEF Priorities
  <1>2. /\ \A o \in Priorities : Len(q[o]) \in Nat
        /\ \A o \in Priorities : Len(r[o]) \in Nat
    BY SizeType
  <1>3. PICK a \in Nat, b \in Nat, c \in Nat, d \in Nat :
            a = Len(q[0]) /\ b = Len(q[1]) /\ c = Len(q[2]) /\ d = Len(q[3])
    BY <1>1, <1>2
  <1>4. PICK h \in Nat, i \in Nat, j \in Nat, k \in Nat :
            h = Len(r[0]) /\ i = Len(r[1]) /\ j = Len(r[2]) /\ k = Len(r[3])
    BY <1>1, <1>2
  <1>5. Size(q) = a + b + c + d /\ Size(r) = h + i + j + k
    BY <1>3, <1>4 DEF Size
  <1>6. /\ p # 0 => a = h
        /\ p # 1 => b = i
        /\ p # 2 => c = j
        /\ p # 3 => d = k
    BY <1>1, <1>3, <1>4
  <1>7. CASE p = 0
    <2>1. Len(q[p]) = a /\ Len(r[p]) = h
      BY <1>3, <1>4, <1>7
    <2> QED
      BY <1>5, <1>6, <1>7, <2>1
  <1>8. CASE p = 1
    <2>1. Len(q[p]) = b /\ Len(r[p]) = i
      BY <1>3, <1>4, <1>8
    <2> QED
      BY <1>5, <1>6, <1>8, <2>1
  <1>9. CASE p = 2
    <2>1. Len(q[p]) = c /\ Len(r[p]) = j
      BY <1>3, <1>4, <1>9
    <2> QED
      BY <1>5, <1>6, <1>9, <2>1
  <1>10. CASE p = 3
    <2>1. Len(q[p]) = d /\ Len(r[p]) = k
      BY <1>3, <1>4, <1>10
    <2> QED
      BY <1>5, <1>6, <1>10, <2>1
  <1> QED
    BY <1>7, <1>8, <1>9, <1>10 DEF Priorities

(* filter keeps the elements at the given positions, each once.            *)
LEMMA FilteredEntries ==
    ASSUME NEW T, NEW s \in Seq(T), NEW I, I \subseteq DOMAIN s,
           NEW g, g = Filtered(s, I)
    PROVE  /\ g \in Seq(T) /\ Len(g) <= Len(s)
           /\ \A i \in I : \E k \in DOMAIN g : g[k] = s[i]
           /\ \E f \in [DOMAIN g -> I] :
                  /\ \A k \in DOMAIN g : g[k] = s[f[k]]
                  /\ \A k, l \in DOMAIN g : f[k] = f[l] => k = l
  <1> DEFINE before(i) == {j \in I : j <= i}
             Nth(k) == CHOOSE i \in I : Cardinality({j \in I : j <= i}) = k
  <1>1. DOMAIN s = 1 .. Len(s) /\ Len(s) \in Nat /\ I \subseteq 1 .. Len(s)
    OBVIOUS
  <1>2. IsFiniteSet(DOMAIN s) /\ Cardinality(DOMAIN s) = Len(s)
    <2>1. /\ IsFiniteSet(1 .. Len(s))
          /\ Cardinality(1 .. Len(s)) = IF 1 > Len(s) THEN 0 ELSE Len(s) - 1 + 1
      BY <1>1, FS_Interval
    <2> QED
      BY <1>1, <2>1
  <1>3. IsFiniteSet(I) /\ Cardinality(I) \in Nat /\ Cardinality(I) <= Len(s)
    BY <1>2, FS_Subset, FS_CardinalityType
  <1>4. PICK n \in Nat : n = Cardinality(I)
    BY <1>3
  <1>5. IsFiniteSet(1 .. n) /\ Cardinality(1 .. n) = n
    <2>1. IsFiniteSet(1 .. n) /\ Cardinality(1 .. n) = IF 1 > n THEN 0 ELSE n - 1 + 1
      BY FS_Interval
    <2> QED
      BY <2>1
  <1>6. PICK rank : rank = [i \in I |-> Cardinality(before(i))]
    OBVIOUS
  <1>7. ASSUME NEW i \in I
        PROVE  IsFiniteSet(before(i)) /\ i \in before(i) /\ before(i) \subseteq I
    <2>1. i \in before(i) /\ before(i) \subseteq I
      BY <1>1
    <2> QED
      BY <1>3, <2>1, FS_Subset
  <1>8. rank \in [I -> 1 .. n]
    <2>1. ASSUME NEW i \in I
          PROVE  Cardinality(before(i)) \in 1 .. n
      <3>1. PICK b : b = before(i)
        OBVIOUS
      <3>2. IsFiniteSet(b) /\ b # {} /\ b \subseteq I
        BY <1>7, <3>1
      <3>3. Cardinality(b) \in Nat /\ Cardinality(b) # 0 /\ Cardinality(b) <= n
        BY <1>3, <1>4, <3>2, FS_Subset, FS_CardinalityType, FS_EmptySet
      <3> QED
        BY <3>1, <3>3
    <2> HIDE DEF before
    <2> QED
      BY <1>6, <2>1
  <1>9. ASSUME NEW i \in I, NEW j \in I, i < j
        PROVE  rank[i] # rank[j]
    <2>1. before(i) \subseteq before(j) /\ j \notin before(i)
      BY <1>1, <1>9
    <2>2. PICK b, c : b = before(i) /\ c = before(j)
      OBVIOUS
    <2>3. b \subseteq c /\ b # c /\ IsFiniteSet(c)
      BY <1>7, <2>1, <2>2
    <2>4. Cardinality(b) # Cardinality(c)
      BY <2>3, FS_Subset
    <2> QED
      BY <1>6, <2>2, <2>4
  <1>10. \A i, j \in I : rank[i] = rank[j] => i = j
    <2> HIDE DEF before
    <2>1. \A i, j \in I : i < j \/ i = j \/ j < i
      BY <1>1
    <2> QED
      BY <1>9, <2>1
  <1>11. ASSUME NEW k \in 1 .. n
         PROVE  Nth(k) \in I /\ rank[Nth(k)] = k
    <2>1. rank \in Injection(I, 1 .. n)
      BY <1>8, <1>10 DEF Injection, IsInjective
    <2>2. rank \in Surjection(I, 1 .. n)
      BY <1>3, <1>4, <1>5, <2>1, FS_Injection
    <2>3. PICK i \in I : rank[i] = k
      BY <2>2 DEF Surjection
    <2>4. Cardinality({j \in I : j <= i}) = k
      BY <1>6, <2>3
    <2>5. /\ Nth(k) \in I
          /\ Cardinality({j \in I : j <= Nth(k)}) = k
      BY <2>4
    <2> QED
      BY <1>6, <2>5
  <1>12. g = [k \in 1 .. n |-> s[Nth(k)]]
    BY <1>4 DEF Filtered
  <1> HIDE DEF Nth, before
  <1>13. PICK f : f = [k \in 1 .. n |-> Nth(k)]
    OBVIOUS
  <1>14. \A k \in 1 .. n : f[k] \in I /\ rank[f[k]] = k /\ g[k] = s[f[k]]
    BY <1>11, <1>12, <1>13
  <1>15. DOMAIN g = 1 .. n /\ DOMAIN f = 1 .. n /\ f \in [DOMAIN g -> I]
    BY <1>12, <1>13, <1>14
  <1>16. g \in Seq(T) /\ Len(g) = n
    <2>1. \A k \in 1 .. n : s[Nth(k)] \in T
      BY <1>1, <1>11
    <2> QED
      BY <1>12, <2>1
  <1>17. \A k, l \in DOMAIN g : f[k] = f[l] => k = l
    BY <1>14, <1>15
  <1>18. ASSUME NEW i \in I
         PROVE  \E k \in DOMAIN g : g[k] = s[i]
    <2>1. rank[i] \in 1 .. n
      BY <1>8
    <2>2. f[rank[i]] \in I /\ rank[f[rank[i]]] = rank[i]
      BY <1>14, <2>1
    <2>3. f[rank[i]] = i
      BY <1>10, <2>2
    <2> QED
      BY <1>14, <1>15, <2>1, <2>3
  <1>19. \A k \in DOMAIN g : g[k] = s[f[k]]
    BY <1>14, <1>15
  <1>20. Len(g) <= Len(s)
    BY <1>3, <1>4, <1>16
  <1> QED
    BY <1>15, <1>16, <1>17, <1>18, <1>19, <1>20, Zenon

LEMMA RemoveExpiredKeeps ==
    ASSUME NEW q, QueueShape(q), NEW r, r = RemoveExpired(q)
    PROVE  /\ QueueShape(r)
           /\ Size(q) \in Nat /\ Size(r) \in Nat /\ Size(r) <= Size(q)
           /\ Entries(r) = {e \in Entries(q) : e.age < TTL}
  <1> DEFINE Kept(p) == {i \in DOMAIN q[p] : q[p][i].age < TTL}
  <1>1. ASSUME NEW p \in Priorities
        PROVE  /\ r[p] \in Seq(Entry) /\ Len(r[p]) <= Len(q[p])
               /\ \A i \in Kept(p) : \E k \in DOMAIN r[p] : r[p][k] = q[p][i]
               /\ \E f \in [DOMAIN r[p] -> Kept(p)] :
                      /\ \A k \in DOMAIN r[p] : r[p][k] = q[p][f[k]]
                      /\ \A k, l \in DOMAIN r[p] : f[k] = f[l] => k = l
    <2> DEFINE Positions(g) == \E f \in [DOMAIN g -> Kept(p)] :
                                  /\ \A k \in DOMAIN g : g[k] = q[p][f[k]]
                                  /\ \A k, l \in DOMAIN g : f[k] = f[l] => k = l
    <2>1. PICK g : g = r[p]
      OBVIOUS
    <2>2. q[p] \in Seq(Entry) /\ Kept(p) \subseteq DOMAIN q[p]
      BY DEF QueueShape
    <2>3. g = Filtered(q[p], Kept(p))
      BY <2>1 DEF RemoveExpired
    <2> HIDE DEF Kept
    <2>4. /\ g \in Seq(Entry) /\ Len(g) <= Len(q[p])
          /\ \A i \in Kept(p) : \E k \in DOMAIN g : g[k] = q[p][i]
          /\ Positions(g)
      BY <2>2, <2>3, FilteredEntries
    <2> HIDE DEF Positions
    <2>5. Positions(r[p])
      BY <2>1, <2>4
    <2> QED
      <3>1. /\ r[p] \in Seq(Entry) /\ Len(r[p]) <= Len(q[p])
            /\ \A i \in Kept(p) : \E k \in DOMAIN r[p] : r[p][k] = q[p][i]
        BY <2>1, <2>4
      <3> QED
        BY <2>5, <3>1, Zenon DEF Positions
  <1>2. r \in [Priorities -> Seq(Entry)]
    BY <1>1 DEF RemoveExpired
  <1>3. ASSUME NEW p \in Priorities, NEW k \in DOMAIN r[p]
        PROVE  \E i \in Kept(p) : r[p][k] = q[p][i]
    BY <1>1
  <1>4. ASSUME NEW p \in Priorities, NEW k \in DOMAIN r[p]
        PROVE  Priority[r[p][k].message] = p
    BY <1>3 DEF QueueShape
  <1>5. ASSUME NEW p \in Priorities, NEW k \in DOMAIN r[p], NEW l \in DOMAIN r[p],
               r[p][k].message = r[p][l].message
        PROVE  k = l
    <2>1. PICK f \in [DOMAIN r[p] -> Kept(p)] :
              /\ \A j \in DOMAIN r[p] : r[p][j] = q[p][f[j]]
              /\ \A j, h \in DOMAIN r[p] : f[j] = f[h] => j = h
      BY <1>1
    <2>2. f[k] \in DOMAIN q[p] /\ f[l] \in DOMAIN q[p]
      BY <2>1
    <2>3. f[k] = f[l]
      BY <1>5, <2>1, <2>2 DEF QueueShape
    <2> QED
      BY <2>1, <2>3
  <1>6. QueueShape(r)
    BY <1>2, <1>4, <1>5 DEF QueueShape
  <1>7. ASSUME NEW e
        PROVE  e \in Entries(r) <=> e \in Entries(q) /\ e.age < TTL
    <2>1. ASSUME e \in Entries(r)
          PROVE  e \in Entries(q) /\ e.age < TTL
      <3>1. PICK p \in Priorities : \E k \in DOMAIN r[p] : e = r[p][k]
        BY <2>1, EntriesAt
      <3>2. PICK i \in Kept(p) : e = q[p][i]
        BY <1>3, <3>1
      <3> QED
        BY <3>2, EntriesAt
    <2>2. ASSUME e \in Entries(q), e.age < TTL
          PROVE  e \in Entries(r)
      <3>1. PICK p \in Priorities : \E i \in DOMAIN q[p] : e = q[p][i]
        BY <2>2, EntriesAt
      <3>2. \E i \in Kept(p) : e = q[p][i]
        BY <2>2, <3>1
      <3>3. \E k \in DOMAIN r[p] : r[p][k] = e
        BY <1>1, <3>2
      <3> QED
        BY <3>3, EntriesAt
    <2> QED
      BY <2>1, <2>2
  <1> QED
    BY <1>1, <1>6, <1>7, SizeBound, SizeType

(* The queue r differs from q in its queue of priority p.                  *)
Changed(q, p, l, r) == r = [q EXCEPT ![p] = l]

(* Taking the first message of a queue.                                    *)
LEMMA TailKeeps ==
    ASSUME NEW q, QueueShape(q), NEW p \in Occupied(q),
           NEW r, Changed(q, p, Tail(q[p]), r)
    PROVE  /\ QueueShape(r)
           /\ Size(q) \in Nat \ {0} /\ Size(r) = Size(q) - 1
           /\ Head(q[p]) \in Entries(q) /\ Priority[Head(q[p]).message] = p
           /\ Entries(q) = Entries(r) \cup {Head(q[p])}
           /\ Head(q[p]).message \notin MessagesOf(r)
  <1>1. p \in Priorities /\ q[p] # <<>>
    BY DEF Occupied
  <1>2. PICK l \in Seq(Entry) : l = q[p]
    BY <1>1 DEF QueueShape
  <1>3. l # <<>> /\ Len(l) \in Nat \ {0} /\ DOMAIN l = 1 .. Len(l)
    BY <1>1, <1>2
  <1>4. PICK t : t = Tail(l)
    OBVIOUS
  <1>5. /\ t \in Seq(Entry)
        /\ Len(t) = Len(l) - 1 /\ DOMAIN t = 1 .. Len(l) - 1
        /\ \A i \in DOMAIN t : i + 1 \in DOMAIN l /\ t[i] = l[i + 1]
    BY <1>3, <1>4
  <1>6. Head(l) = l[1] /\ 1 \in DOMAIN l
    BY <1>3
  <1>7. Changed(q, p, t, r)
    BY <1>2, <1>4
  <1>8. /\ r \in [Priorities -> Seq(Entry)]
        /\ r[p] = t /\ \A o \in Priorities : o # p => r[o] = q[o]
    BY <1>1, <1>5, <1>7 DEF QueueShape, Changed
  <1>9. /\ \A i \in DOMAIN l : Priority[l[i].message] = p
        /\ \A i, j \in DOMAIN l : l[i].message = l[j].message => i = j
    BY <1>1, <1>2 DEF QueueShape
  <1>10. \A i, j \in DOMAIN t : t[i].message = t[j].message => i = j
    BY <1>3, <1>5, <1>9
  <1>11. QueueShape(r)
    <2>1. \A i \in DOMAIN t : Priority[t[i].message] = p
      BY <1>5, <1>9
    <2>2. \A o \in Priorities : \A i \in DOMAIN r[o] : Priority[r[o][i].message] = o
      BY <1>8, <2>1 DEF QueueShape
    <2>3. \A o \in Priorities : \A i, j \in DOMAIN r[o] :
              r[o][i].message = r[o][j].message => i = j
      BY <1>8, <1>10 DEF QueueShape
    <2> QED
      BY <1>8, <2>2, <2>3 DEF QueueShape
  <1>12. Size(q) \in Nat \ {0} /\ Size(r) = Size(q) - 1
    <2>1. Size(r) = Size(q) - Len(q[p]) + Len(r[p])
      BY <1>1, <1>8, <1>11, SizeChange
    <2>2. Size(q) \in Nat /\ Size(r) \in Nat
      BY <1>11, SizeType
    <2> QED
      BY <1>2, <1>3, <1>5, <1>8, <2>1, <2>2
  <1>13. Head(l) \in Entries(q) /\ Priority[Head(l).message] = p
    BY <1>1, <1>2, <1>6, <1>9, EntriesAt
  <1>14. ASSUME NEW e
         PROVE  e \in Entries(q) <=> e \in Entries(r) \/ e = Head(l)
    <2>1. ASSUME e \in Entries(q)
          PROVE  e \in Entries(r) \/ e = Head(l)
      <3>1. PICK o \in Priorities : \E i \in DOMAIN q[o] : e = q[o][i]
        BY <2>1, EntriesAt
      <3>2. CASE o # p
        BY <1>8, <3>1, <3>2, EntriesAt
      <3>3. CASE o = p
        <4>1. PICK i \in DOMAIN l : e = l[i]
          BY <1>2, <3>1, <3>3
        <4>2. CASE i = 1
          BY <1>6, <4>1, <4>2
        <4>3. CASE i # 1
          <5>1. i - 1 \in DOMAIN t /\ t[i - 1] = l[i]
            BY <1>3, <1>5, <4>1, <4>3
          <5> QED
            BY <1>1, <1>8, <4>1, <5>1, EntriesAt
        <4> QED
          BY <4>2, <4>3
      <3> QED
        BY <3>2, <3>3
    <2>2. ASSUME e \in Entries(r)
          PROVE  e \in Entries(q)
      <3>1. PICK o \in Priorities : \E i \in DOMAIN r[o] : e = r[o][i]
        BY <2>2, EntriesAt
      <3>2. \E i \in DOMAIN q[o] : e = q[o][i]
        <4>1. CASE o = p
          <5>1. PICK i \in DOMAIN t : e = t[i]
            BY <1>8, <3>1, <4>1
          <5>2. i + 1 \in DOMAIN l /\ e = l[i + 1]
            BY <1>5, <5>1
          <5> QED
            BY <1>2, <4>1, <5>2
        <4>2. CASE o # p
          BY <1>8, <3>1, <4>2
        <4> QED
          BY <4>1, <4>2
      <3> QED
        BY <3>2, EntriesAt
    <2> QED
      BY <1>13, <2>1, <2>2
  <1>15. Head(l).message \notin MessagesOf(r)
    <2> SUFFICES ASSUME NEW e \in Entries(r), e.message = Head(l).message
                 PROVE  FALSE
      BY DEF MessagesOf
    <2>1. PICK o \in Priorities : \E i \in DOMAIN r[o] : e = r[o][i]
      BY EntriesAt
    <2>2. o = p
      BY <1>11, <1>13, <2>1 DEF QueueShape
    <2>3. PICK i \in DOMAIN t : e = t[i]
      BY <1>8, <2>1, <2>2
    <2>4. i + 1 = 1
      BY <1>5, <1>6, <1>9, <2>3
    <2> QED
      BY <1>5, <2>3, <2>4
  <1> QED
    BY <1>2, <1>11, <1>12, <1>13, <1>14, <1>15

(* Adding a message that does not wait yet.                                *)
LEMMA AppendKeeps ==
    ASSUME NEW q, QueueShape(q), NEW m \in Messages, m \notin MessagesOf(q),
           NEW e, e = [message |-> m, age |-> 0],
           NEW r, Changed(q, Priority[m], Append(q[Priority[m]], e), r)
    PROVE  /\ QueueShape(r)
           /\ Size(r) = Size(q) + 1 /\ Size(q) \in Nat
           /\ Entries(r) = Entries(q) \cup {e}
  <1>1. PICK p \in Priorities : p = Priority[m]
    BY QueueConstants
  <1>2. e \in Entry
    BY QueueConstants DEF Entry
  <1>3. PICK l \in Seq(Entry) : l = q[p]
    BY <1>1 DEF QueueShape
  <1>4. PICK a : a = Append(l, e)
    OBVIOUS
  <1>5. /\ a \in Seq(Entry)
        /\ Len(l) \in Nat /\ Len(a) = Len(l) + 1
        /\ DOMAIN l = 1 .. Len(l) /\ DOMAIN a = 1 .. Len(l) + 1
        /\ \A i \in DOMAIN l : a[i] = l[i]
        /\ a[Len(l) + 1] = e
    BY <1>2, <1>3, <1>4
  <1>6. /\ r \in [Priorities -> Seq(Entry)]
        /\ r[p] = a /\ \A o \in Priorities : o # p => r[o] = q[o]
    BY <1>1, <1>3, <1>4, <1>5 DEF QueueShape, Changed
  <1>7. /\ \A i \in DOMAIN l : Priority[l[i].message] = p
        /\ \A i, j \in DOMAIN l : l[i].message = l[j].message => i = j
    BY <1>1, <1>3 DEF QueueShape
  <1>8. \A i \in DOMAIN l : l[i].message # m
    BY <1>1, <1>3, EntriesAt DEF MessagesOf
  <1>9. \A i \in DOMAIN a : \/ i \in DOMAIN l /\ a[i] = l[i]
                            \/ i = Len(l) + 1 /\ a[i] = e
    BY <1>5
  <1>10. \A i \in DOMAIN a : Priority[a[i].message] = p
    BY <1>1, <1>7, <1>9
  <1>11. \A i, j \in DOMAIN a : a[i].message = a[j].message => i = j
    BY <1>7, <1>8, <1>9
  <1>12. QueueShape(r)
    <2>1. \A o \in Priorities : \A i \in DOMAIN r[o] : Priority[r[o][i].message] = o
      BY <1>6, <1>10 DEF QueueShape
    <2>2. \A o \in Priorities : \A i, j \in DOMAIN r[o] :
              r[o][i].message = r[o][j].message => i = j
      BY <1>6, <1>11 DEF QueueShape
    <2> QED
      BY <1>6, <2>1, <2>2 DEF QueueShape
  <1>13. Size(q) \in Nat /\ Size(r) = Size(q) + 1
    <2>1. Size(r) = Size(q) - Len(q[p]) + Len(r[p])
      BY <1>6, <1>12, SizeChange
    <2>2. Size(q) \in Nat
      BY SizeType
    <2> QED
      BY <1>3, <1>5, <1>6, <2>1, <2>2
  <1>14. ASSUME NEW x
         PROVE  x \in Entries(r) <=> x \in Entries(q) \/ x = e
    <2>1. ASSUME x \in Entries(r)
          PROVE  x \in Entries(q) \/ x = e
      <3>1. PICK o \in Priorities : \E i \in DOMAIN r[o] : x = r[o][i]
        BY <2>1, EntriesAt
      <3>2. (\E i \in DOMAIN q[o] : x = q[o][i]) \/ x = e
        BY <1>3, <1>6, <1>9, <3>1
      <3> QED
        BY <3>2, EntriesAt
    <2>2. ASSUME x \in Entries(q)
          PROVE  x \in Entries(r)
      <3>1. PICK o \in Priorities : \E i \in DOMAIN q[o] : x = q[o][i]
        BY <2>2, EntriesAt
      <3>2. \E i \in DOMAIN r[o] : x = r[o][i]
        <4>1. CASE o = p
          <5>1. PICK i \in DOMAIN l : x = l[i]
            BY <1>3, <3>1, <4>1
          <5>2. i \in DOMAIN a /\ x = a[i]
            BY <1>5, <5>1
          <5> QED
            BY <1>6, <4>1, <5>2
        <4>2. CASE o # p
          BY <1>6, <3>1, <4>2
        <4> QED
          BY <4>1, <4>2
      <3> QED
        BY <3>2, EntriesAt
    <2>3. e \in Entries(r)
      <3>1. Len(l) + 1 \in DOMAIN r[p] /\ e = r[p][Len(l) + 1]
        BY <1>5, <1>6
      <3> QED
        BY <1>1, <3>1, EntriesAt
    <2> QED
      BY <2>1, <2>2, <2>3
  <1> QED
    BY <1>12, <1>13, <1>14

LEMMA LeastUrgent ==
    ASSUME NEW q, QueueShape(q), Size(q) # 0
    PROVE  /\ Max(Occupied(q)) \in Occupied(q)
           /\ \A p \in Occupied(q) : p <= Max(Occupied(q))
  <1>1. Occupied(q) # {}
    <2> SUFFICES ASSUME \A p \in Priorities : q[p] = <<>>
                 PROVE  FALSE
      BY DEF Occupied
    <2>1. 0 \in Priorities /\ 1 \in Priorities /\ 2 \in Priorities /\ 3 \in Priorities
      BY DEF Priorities
    <2>2. \A p \in Priorities : Len(q[p]) = 0
      OBVIOUS
    <2>3. Len(q[0]) = 0 /\ Len(q[1]) = 0 /\ Len(q[2]) = 0 /\ Len(q[3]) = 0
      BY <2>1, <2>2
    <2>4. Size(q) = 0 + 0 + 0 + 0
      BY <2>3 DEF Size
    <2> QED
      BY <2>4
  <1>2. Occupied(q) \subseteq 0 .. 3
    BY DEF Occupied, Priorities
  <1>3. PICK o \in Occupied(q) : \A p \in Occupied(q) : o >= p
    <2>1. CASE 3 \in Occupied(q)
      BY <1>2, <2>1
    <2>2. CASE 3 \notin Occupied(q) /\ 2 \in Occupied(q)
      <3>1. \A p \in Occupied(q) : 2 >= p
        BY <1>2, <2>2
      <3> QED
        BY <2>2, <3>1
    <2>3. CASE 3 \notin Occupied(q) /\ 2 \notin Occupied(q) /\ 1 \in Occupied(q)
      <3>1. \A p \in Occupied(q) : 1 >= p
        BY <1>2, <2>3
      <3> QED
        BY <2>3, <3>1
    <2>4. CASE 3 \notin Occupied(q) /\ 2 \notin Occupied(q) /\ 1 \notin Occupied(q)
      <3>1. \A p \in Occupied(q) : p = 0
        BY <1>2, <2>4
      <3> QED
        BY <1>1, <3>1
    <2> QED
      BY <2>1, <2>2, <2>3, <2>4
  <1>4. /\ Max(Occupied(q)) \in Occupied(q)
        /\ \A p \in Occupied(q) : Max(Occupied(q)) >= p
    BY <1>3 DEF Max
  <1>5. \A p \in Occupied(q) : p \in Int
    BY <1>2
  <1> QED
    BY <1>4, <1>5

LEMMA MostUrgent ==
    ASSUME NEW q, Occupied(q) # {}
    PROVE  Min(Occupied(q)) \in Occupied(q)
  <1>1. Occupied(q) \subseteq 0 .. 3
    BY DEF Occupied, Priorities
  <1>2. \E o \in Occupied(q) : \A p \in Occupied(q) : o <= p
    <2>1. CASE 0 \in Occupied(q)
      BY <1>1, <2>1
    <2>2. CASE 0 \notin Occupied(q) /\ 1 \in Occupied(q)
      <3>1. \A p \in Occupied(q) : 1 <= p
        BY <1>1, <2>2
      <3> QED
        BY <2>2, <3>1
    <2>3. CASE 0 \notin Occupied(q) /\ 1 \notin Occupied(q) /\ 2 \in Occupied(q)
      <3>1. \A p \in Occupied(q) : 2 <= p
        BY <1>1, <2>3
      <3> QED
        BY <2>3, <3>1
    <2>4. CASE 0 \notin Occupied(q) /\ 1 \notin Occupied(q) /\ 2 \notin Occupied(q)
      <3>1. \A p \in Occupied(q) : p = 3
        BY <1>1, <2>4
      <3> QED
        BY <3>1
    <2> QED
      BY <2>1, <2>2, <2>3, <2>4
  <1> QED
    BY <1>2 DEF Min

(* The invariant of the queue: the messages that wait were given to the    *)
(* manager, those transmitted wait no more, and there is never no room.    *)
QueueInv ==
    /\ config \in Configs /\ isRunning \in BOOLEAN /\ due \in BOOLEAN
    /\ restarts \in 0 .. MaxRestarts
    /\ enqueued \subseteq Messages
    /\ QueueShape(queue) /\ Size(queue) <= MaxSize
    /\ MessagesOf(queue) \subseteq enqueued
    /\ \A r \in transmissionHistory :
        /\ r = [message |-> r.message, age |-> r.age, frequency |-> r.frequency]
        /\ r.message \in enqueued \ MessagesOf(queue)
        /\ r.frequency \in Frequencies
        /\ r.age \in 0 .. Retention + 1

(* What may become of a message in a step of one run of the program.       *)
GivenUp(e) ==
    \/ e.message \in Waiting'
    \/ \E x \in aired' : x.message = e.message /\ x.run = restarts
    \/ e.age >= TTL
    \/ /\ Size(RemoveExpired(queue)) >= MaxSize
       /\ \A d \in Entries(RemoveExpired(queue)) :
            Priority[d.message] <= Priority[e.message]

LEMMA QueueTyped ==
    ASSUME QueueInv
    PROVE  TypeOK
  <1>1. \A e \in Entries(queue) : e \in Entry /\ e.message \in enqueued
    <2>1. \A e \in Entries(queue) : e \in Entry
      BY EntriesAt DEF QueueInv, QueueShape
    <2> QED
      BY <2>1 DEF QueueInv, MessagesOf
  <1>2. DOMAIN queue = Priorities
    BY DEF QueueInv, QueueShape
  <1>3. Waiting = MessagesOf(queue)
    BY DEF Waiting, MessagesOf
  <1> QED
    BY <1>1, <1>2, <1>3 DEF QueueInv, TypeOK, Entry

(* Room is made of expired messages, or of the least urgent one.           *)
LEMMA RoomMadeKeeps ==
    ASSUME QueueInv, NEW q, q = RoomMade
    PROVE  /\ QueueShape(q) /\ Size(q) < MaxSize
           /\ Entries(q) \subseteq Entries(queue)
           /\ \A e \in Entries(queue) \ Entries(q) :
                  \/ e.age >= TTL
                  \/ /\ Size(RemoveExpired(queue)) >= MaxSize
                     /\ \A d \in Entries(RemoveExpired(queue)) :
                            Priority[d.message] <= Priority[e.message]
  <1>1. PICK r : r = RemoveExpired(queue)
    OBVIOUS
  <1>2. /\ QueueShape(r)
        /\ Size(queue) \in Nat /\ Size(r) \in Nat /\ Size(r) <= Size(queue)
        /\ Entries(r) = {e \in Entries(queue) : e.age < TTL}
    BY <1>1, RemoveExpiredKeeps DEF QueueInv
  <1>3. \A e \in Entries(queue) \ Entries(r) : e.age >= TTL
    <2>1. \A e \in Entries(queue) : e \in Entry
      BY EntriesAt DEF QueueInv, QueueShape
    <2>2. \A e \in Entries(queue) : e.age \in Int
      BY <2>1 DEF Entry
    <2> QED
      BY <1>2, <2>2, QueueConstants
  <1>4. MaxSize \in Nat \ {0} /\ Size(queue) <= MaxSize
    BY QueueConstants DEF QueueInv
  <1>5. CASE Size(queue) < MaxSize
    <2>1. q = queue
      BY <1>2, <1>4, <1>5 DEF RoomMade
    <2> QED
      BY <1>5, <2>1 DEF QueueInv
  <1>6. CASE Size(queue) >= MaxSize /\ Size(r) < MaxSize
    <2>1. q = r
      BY <1>1, <1>2, <1>4, <1>6 DEF RoomMade
    <2> QED
      BY <1>2, <1>3, <1>6, <2>1
  <1>7. CASE Size(queue) >= MaxSize /\ Size(r) >= MaxSize
    <2>1. q = EvictLowestPriority(r)
      BY <1>1, <1>2, <1>4, <1>7 DEF RoomMade
    <2>2. PICK p : p = Max(Occupied(r))
      OBVIOUS
    <2>3. p \in Occupied(r) /\ \A o \in Occupied(r) : o <= p
      BY <1>2, <1>4, <1>7, <2>2, LeastUrgent
    <2>4. Changed(r, p, Tail(r[p]), q)
      BY <2>1, <2>2 DEF EvictLowestPriority, Changed
    <2>5. PICK e : e = Head(r[p])
      OBVIOUS
    <2>6. /\ QueueShape(q) /\ Size(q) = Size(r) - 1
          /\ Priority[e.message] = p
          /\ Entries(r) = Entries(q) \cup {e}
      BY <1>2, <2>3, <2>4, <2>5, TailKeeps
    <2>7. ASSUME NEW d \in Entries(r)
          PROVE  Priority[d.message] <= Priority[e.message]
      <3>1. PICK o \in Priorities : \E i \in DOMAIN r[o] : d = r[o][i]
        BY EntriesAt
      <3>2. Priority[d.message] = o /\ o \in Occupied(r)
        BY <1>2, <3>1 DEF QueueShape, Occupied
      <3> QED
        BY <2>3, <2>6, <3>2
    <2>8. Size(q) < MaxSize
      BY <1>2, <1>4, <2>6
    <2> QED
      BY <1>1, <1>2, <1>3, <1>7, <2>6, <2>7, <2>8
  <1> QED
    BY <1>2, <1>4, <1>5, <1>6, <1>7

LEMMA QueueInvInit ==
    ASSUME Init
    PROVE  QueueInv
  <1>1. QueueShape(queue)
    BY DEF Init, QueueShape
  <1>2. Size(queue) = 0
    BY DEF Init, Size, Priorities
  <1>3. Entries(queue) = {}
    BY DEF Init, Entries, Range
  <1>4. MessagesOf(queue) = {}
    BY <1>3 DEF MessagesOf
  <1>5. Size(queue) <= MaxSize /\ restarts \in 0 .. MaxRestarts
    BY <1>2, QueueConstants DEF Init
  <1> QED
    BY <1>1, <1>4, <1>5 DEF Init, QueueInv

LEMMA EnqueueKeepsQueue ==
    ASSUME QueueInv, NEW m \in Messages, EnqueueMessage(m)
    PROVE  QueueInv' /\ \A e \in Entries(queue) : GivenUp(e)
  <1>1. PICK q : q = RoomMade
    OBVIOUS
  <1>2. PICK e : e = [message |-> m, age |-> 0]
    OBVIOUS
  <1>3. Changed(q, Priority[m], Append(q[Priority[m]], e), queue')
    BY <1>1, <1>2 DEF EnqueueMessage, Changed
  <1>4. /\ QueueShape(q) /\ Size(q) < MaxSize
        /\ Entries(q) \subseteq Entries(queue)
        /\ \A x \in Entries(queue) \ Entries(q) :
               \/ x.age >= TTL
               \/ /\ Size(RemoveExpired(queue)) >= MaxSize
                  /\ \A d \in Entries(RemoveExpired(queue)) :
                         Priority[d.message] <= Priority[x.message]
    BY <1>1, RoomMadeKeeps
  <1>5. m \notin MessagesOf(q)
    BY <1>4 DEF EnqueueMessage, QueueInv, MessagesOf
  <1>6. /\ QueueShape(queue')
        /\ Size(queue') = Size(q) + 1 /\ Size(q) \in Nat
        /\ Entries(queue') = Entries(q) \cup {e}
    BY <1>2, <1>3, <1>4, <1>5, AppendKeeps
  <1>7. Size(queue') <= MaxSize
    BY <1>4, <1>6, QueueConstants
  <1>8. /\ MessagesOf(queue') \subseteq enqueued'
        /\ \A r \in transmissionHistory : r.message \notin MessagesOf(queue')
    <2>1. MessagesOf(queue') \subseteq MessagesOf(queue) \cup {m}
      BY <1>2, <1>4, <1>6 DEF MessagesOf
    <2>2. enqueued' = enqueued \cup {m} /\ m \notin enqueued
      BY DEF EnqueueMessage
    <2> QED
      BY <2>1, <2>2 DEF QueueInv
  <1>9. QueueInv'
    BY <1>6, <1>7, <1>8 DEF QueueInv, EnqueueMessage, QueueShape, MessagesOf, Size, Entries
  <1>10. ASSUME NEW x \in Entries(queue)
         PROVE  GivenUp(x)
    <2>1. CASE x \in Entries(q)
      BY <1>6, <2>1 DEF GivenUp, Waiting
    <2>2. CASE x \notin Entries(q)
      BY <1>4, <2>2 DEF GivenUp
    <2> QED
      BY <2>1, <2>2
  <1> QED
    BY <1>9, <1>10

LEMMA ProcessKeepsQueue ==
    ASSUME QueueInv, ProcessQueue
    PROVE  QueueInv' /\ \A e \in Entries(queue) : GivenUp(e)
  <1>1. CASE ~Transmit
    <2>1. /\ queue' = queue /\ config' = config /\ isRunning' = isRunning
          /\ due' = FALSE /\ restarts' = restarts /\ enqueued' = enqueued
          /\ transmissionHistory' \subseteq transmissionHistory
      BY <1>1 DEF ProcessQueue, CleanupOldTransmissions
    <2>2. QueueInv'
      BY <2>1 DEF QueueInv
    <2> QED
      BY <2>1, <2>2 DEF GivenUp, Waiting
  <1>2. CASE Transmit
    <2>1. PICK p : p = Min(Occupied(queue))
      OBVIOUS
    <2>2. PICK e : e = Head(queue[p])
      OBVIOUS
    <2>3. p \in Occupied(queue)
      BY <1>2, <2>1, MostUrgent DEF Transmit, MayTransmit
    <2>4. /\ Changed(queue, p, Tail(queue[p]), queue')
          /\ transmissionHistory' =
                 CleanupOldTransmissions(transmissionHistory \cup {Transmission(e.message)})
          /\ aired' = aired \cup {[message |-> e.message, age |-> 0,
                                   frequency |-> config.frequency,
                                   run |-> restarts, limit |-> LimitFor(p)]}
      BY <1>2, <2>1, <2>2 DEF Transmit, Changed
    <2>5. /\ QueueShape(queue')
          /\ Size(queue) \in Nat \ {0} /\ Size(queue') = Size(queue) - 1
          /\ e \in Entries(queue)
          /\ Entries(queue) = Entries(queue') \cup {e}
          /\ e.message \notin MessagesOf(queue')
      BY <2>2, <2>3, <2>4, TailKeeps DEF QueueInv
    <2>6. Size(queue') <= MaxSize
      BY <2>5, QueueConstants DEF QueueInv
    <2>7. MessagesOf(queue') \subseteq MessagesOf(queue)
      BY <2>5 DEF MessagesOf
    <2>8. config.frequency \in Frequencies
      BY DutyCycleAssumption DEF QueueInv, DutyCycleAssumption, DutyCycleConfig
    <2>9. ASSUME NEW r \in transmissionHistory'
          PROVE  /\ r = [message |-> r.message, age |-> r.age, frequency |-> r.frequency]
                 /\ r.message \in enqueued \ MessagesOf(queue')
                 /\ r.frequency \in Frequencies
                 /\ r.age \in 0 .. Retention + 1
      <3>1. CASE r \in transmissionHistory
        BY <2>7, <3>1 DEF QueueInv
      <3>2. CASE r = Transmission(e.message)
        <4>1. e.message \in enqueued
          BY <2>5 DEF QueueInv, MessagesOf
        <4> QED
          BY <2>5, <2>8, <3>2, <4>1, QueueConstants DEF Transmission
      <3> QED
        BY <2>4, <3>1, <3>2 DEF CleanupOldTransmissions
    <2>10. /\ config' = config /\ isRunning' = isRunning
           /\ due' = FALSE /\ restarts' = restarts /\ enqueued' = enqueued
      BY DEF ProcessQueue
    <2>11. QueueInv'
      BY <2>5, <2>6, <2>7, <2>9, <2>10
         DEF QueueInv, QueueShape, MessagesOf, Size, Entries
    <2>12. ASSUME NEW x \in Entries(queue)
           PROVE  GivenUp(x)
      <3>1. CASE x = e
        <4>1. PICK y \in aired' : y = [message |-> e.message, age |-> 0,
                                       frequency |-> config.frequency,
                                       run |-> restarts, limit |-> LimitFor(p)]
          BY <2>4
        <4>2. y.message = e.message /\ y.run = restarts
          BY <4>1
        <4> QED
          BY <3>1, <4>2 DEF GivenUp
      <3>2. CASE x # e
        BY <2>5, <3>2 DEF GivenUp, Waiting
      <3> QED
        BY <3>1, <3>2
    <2> QED
      BY <2>11, <2>12
  <1> QED
    BY <1>1, <1>2

LEMMA TickKeepsQueue ==
    ASSUME QueueInv, Tick
    PROVE  QueueInv' /\ \A e \in Entries(queue) : GivenUp(e)
  <1>1. \A p \in Priorities : queue[p] \in Seq(Entry)
    BY DEF QueueInv, QueueShape
  <1>2. \A p \in Priorities :
            queue'[p] = [i \in DOMAIN queue[p] |-> Older(queue[p][i], TTL - 1)]
    BY DEF Tick
  <1>3. ASSUME NEW e \in Entry
        PROVE  Older(e, TTL - 1) \in Entry /\ Older(e, TTL - 1).message = e.message
    <2>1. e.age \in 0 .. TTL /\ e.message \in Messages
      BY DEF Entry
    <2>2. PICK age : age = IF e.age > TTL - 1 THEN e.age ELSE e.age + 1
      OBVIOUS
    <2>3. age \in 0 .. TTL
      BY <2>1, <2>2, QueueConstants
    <2>4. Older(e, TTL - 1) = [e EXCEPT !.age = age]
      BY <2>2 DEF Older
    <2> QED
      BY <2>1, <2>3, <2>4 DEF Entry
  <1>4. ASSUME NEW p \in Priorities
        PROVE  /\ queue'[p] \in Seq(Entry) /\ Len(queue'[p]) = Len(queue[p])
               /\ DOMAIN queue'[p] = DOMAIN queue[p]
               /\ \A i \in DOMAIN queue[p] :
                      queue'[p][i].message = queue[p][i].message
    <2>1. PICK l \in Seq(Entry) : l = queue[p]
      BY <1>1
    <2>2. PICK k : k = [i \in DOMAIN l |-> Older(l[i], TTL - 1)]
      OBVIOUS
    <2>3. queue'[p] = k
      BY <1>2, <2>1, <2>2
    <2>4. DOMAIN l = 1 .. Len(l) /\ Len(l) \in Nat /\ \A i \in DOMAIN l : l[i] \in Entry
      OBVIOUS
    <2>5. \A i \in 1 .. Len(l) : k[i] \in Entry /\ k[i].message = l[i].message
      BY <1>3, <2>2, <2>4
    <2>6. k \in Seq(Entry) /\ Len(k) = Len(l) /\ DOMAIN k = DOMAIN l
      BY <2>2, <2>4, <2>5
    <2> QED
      BY <2>1, <2>3, <2>4, <2>5, <2>6
  <1>5. queue' \in [Priorities -> Seq(Entry)]
    BY <1>4 DEF Tick
  <1>6. QueueShape(queue')
    BY <1>4, <1>5 DEF QueueInv, QueueShape
  <1>7. Size(queue') <= MaxSize
    <2>1. Size(queue') <= Size(queue) /\ Size(queue') \in Nat /\ Size(queue) \in Nat
      <3>1. \A p \in Priorities : Len(queue'[p]) <= Len(queue[p])
        <4>1. \A p \in Priorities : Len(queue[p]) \in Nat
          BY <1>1
        <4> QED
          BY <1>4, <4>1
      <3> QED
        BY <1>6, <3>1, SizeBound, SizeType DEF QueueInv
    <2> QED
      BY <2>1, QueueConstants DEF QueueInv
  <1>8. ASSUME NEW m
        PROVE  m \in MessagesOf(queue') <=> m \in MessagesOf(queue)
    BY <1>4, EntriesAt DEF MessagesOf
  <1>9. ASSUME NEW r \in transmissionHistory'
        PROVE  /\ r = [message |-> r.message, age |-> r.age, frequency |-> r.frequency]
               /\ r.message \in enqueued \ MessagesOf(queue)
               /\ r.frequency \in Frequencies
               /\ r.age \in 0 .. Retention + 1
    <2>1. PICK x \in transmissionHistory : r = Older(x, Retention)
      BY DEF Tick
    <2>2. /\ x = [message |-> x.message, age |-> x.age, frequency |-> x.frequency]
          /\ x.message \in enqueued \ MessagesOf(queue)
          /\ x.frequency \in Frequencies
          /\ x.age \in 0 .. Retention + 1
      BY DEF QueueInv
    <2>3. PICK age : age = IF x.age > Retention THEN x.age ELSE x.age + 1
      OBVIOUS
    <2>4. age \in 0 .. Retention + 1
      BY <2>2, <2>3, QueueConstants
    <2>5. r = [x EXCEPT !.age = age]
      BY <2>1, <2>3 DEF Older
    <2> QED
      BY <2>2, <2>4, <2>5
  <1>10. /\ config' = config /\ isRunning' = isRunning /\ due' \in BOOLEAN
         /\ restarts' = restarts /\ enqueued' = enqueued
    BY DEF Tick, QueueInv
  <1>11. MessagesOf(queue') = MessagesOf(queue)
    BY <1>8 DEF MessagesOf
  <1>12. QueueInv'
    BY <1>6, <1>7, <1>9, <1>10, <1>11
       DEF QueueInv, QueueShape, MessagesOf, Size, Entries
  <1>13. \A e \in Entries(queue) : e.message \in Waiting'
    BY <1>11 DEF MessagesOf, Waiting
  <1> QED
    BY <1>12, <1>13 DEF GivenUp

(* A message that leaves the queue was transmitted, or had expired, or was *)
(* the least urgent of a full queue, and the queue never outgrows its      *)
(* limit: for all priorities, limits, configurations and times             *)
(* (PriorityMessageQueue and processQueue of duty-cycle.ts).               *)
THEOREM GivenUpForMoreUrgentTheorem == Spec => GivenUpForMoreUrgent
  <1> DEFINE Kept == restarts' = restarts => \A e \in Entries(queue) : GivenUp(e)
  <1>1. Init => QueueInv
    BY QueueInvInit
  <1>2. QueueInv /\ [Next]_vars => QueueInv' /\ (Kept \/ UNCHANGED vars)
    <2> SUFFICES ASSUME QueueInv, [Next]_vars
                 PROVE  QueueInv' /\ (Kept \/ UNCHANGED vars)
      OBVIOUS
    <2>1. ASSUME NEW m \in Messages, EnqueueMessage(m)
          PROVE  QueueInv' /\ Kept
      BY <2>1, EnqueueKeepsQueue
    <2>2. CASE UpdateConfig \/ Start \/ Stop
      <3>1. /\ queue' = queue /\ config' \in Configs /\ isRunning' \in BOOLEAN
            /\ due' \in BOOLEAN /\ restarts' = restarts /\ enqueued' = enqueued
            /\ transmissionHistory' = transmissionHistory
        BY <2>2 DEF UpdateConfig, Start, Stop, QueueInv
      <3> QED
        BY <3>1 DEF QueueInv, GivenUp, Waiting
    <2>3. CASE ProcessQueue
      BY <2>3, ProcessKeepsQueue
    <2>4. CASE Tick
      BY <2>4, TickKeepsQueue
    <2>5. CASE Restart
      <3>1. QueueShape(queue')
        BY <2>5 DEF Restart, QueueShape
      <3>2. Size(queue') = 0
        BY <2>5 DEF Restart, Size, Priorities
      <3>3. Entries(queue') = {}
        BY <2>5 DEF Restart, Entries, Range
      <3>4. restarts' # restarts /\ restarts' \in 0 .. MaxRestarts
        BY <2>5, QueueConstants DEF Restart, QueueInv
      <3>5. MessagesOf(queue') = {}
        BY <3>3 DEF MessagesOf
      <3>6. Size(queue') <= MaxSize
        BY <3>2, QueueConstants
      <3>7. QueueInv'
        BY <2>5, <3>1, <3>4, <3>5, <3>6 DEF Restart, QueueInv
      <3> QED
        BY <3>4, <3>7
    <2>6. CASE UNCHANGED vars
      BY <2>6 DEF vars, QueueInv
    <2> QED
      BY <2>1, <2>2, <2>3, <2>4, <2>5, <2>6 DEF Next
  <1>3. QueueInv => TypeOK
    BY QueueTyped
  <1>4. GivenUpForMoreUrgent <=> []TypeOK /\ [][Kept]_vars
    BY DEF GivenUpForMoreUrgent, GivenUp
  <1> HIDE DEF Kept
  <1> QED
    BY <1>1, <1>2, <1>3, <1>4, PTL DEF Spec

-----------------------------------------------------------------------------
(* Node discovery: whom a node routes to is on its map, with the same age. *)

(* What n knows of its neighbours, and its map.                            *)
TablesFit(n, table, map) ==
    /\ IsFiniteSet(DOMAIN table) /\ DOMAIN table \subseteq Nodes \ {n}
    /\ table \in [DOMAIN table -> NeighborNode]
    /\ DOMAIN map \subseteq Nodes \ {n} /\ map \in [DOMAIN map -> Int]
    /\ \A k \in DOMAIN table : k \in DOMAIN map /\ map[k] = table[k].lastSeen

TablesInv ==
    /\ neighbors = [n \in Nodes |-> neighbors[n]]
    /\ topology = [n \in Nodes |-> topology[n]]
    /\ \A n \in Nodes : TablesFit(n, neighbors[n], topology[n])

TimersInv ==
    /\ isActive \in [Nodes -> BOOLEAN]
    /\ beaconIn \in [Nodes -> 0 .. 2 * BeaconInterval]
    /\ interval \in [Nodes -> BeaconInterval .. 2 * BeaconInterval]
    /\ cleanupIn \in [Nodes -> 0 .. CleanupInterval]

AirInv ==
    /\ sent \in [Nodes -> 0 .. MaxNumber]
    /\ air \subseteq DiscoveryBeacon

DiscoveryInv == TablesInv /\ TimersInv /\ AirInv

LEMMA DiscoveryConstants ==
    /\ Skew \in [Nodes -> Int]
    /\ Transmitters \subseteq Nodes
    /\ BeaconInterval \in Nat \ {0} /\ NeighborTimeout \in Nat \ {0}
    /\ MaxNeighbors \in Nat \ {0} /\ MaxInFlight \in Nat \ {0} /\ MaxNumber \in Nat \ {0}
    /\ MaxDelay \in Nat
  BY DiscoveryAssumption DEF DiscoveryAssumption

LEMMA LargerOf ==
    ASSUME NEW i \in Int, NEW j \in Int
    PROVE  Max({i, j}) = IF i >= j THEN i ELSE j
  <1>1. PICK m : m = IF i >= j THEN i ELSE j
    OBVIOUS
  <1>2. m \in {i, j} /\ \A y \in {i, j} : m >= y
    BY <1>1
  <1>3. \A x \in {i, j} : (\A y \in {i, j} : x >= y) => x = m
    BY <1>1
  <1>4. (CHOOSE x \in {i, j} : \A y \in {i, j} : x >= y) = m
    BY <1>2, <1>3
  <1> QED
    BY <1>1, <1>4 DEF Max

LEMMA SmallerOf ==
    ASSUME NEW i \in Int, NEW j \in Int
    PROVE  Min({i, j}) = IF i <= j THEN i ELSE j
  <1>1. PICK m : m = IF i <= j THEN i ELSE j
    OBVIOUS
  <1>2. m \in {i, j} /\ \A y \in {i, j} : m <= y
    BY <1>1
  <1>3. \A x \in {i, j} : (\A y \in {i, j} : x <= y) => x = m
    BY <1>1
  <1>4. (CHOOSE x \in {i, j} : \A y \in {i, j} : x <= y) = m
    BY <1>2, <1>3
  <1> QED
    BY <1>1, <1>4 DEF Min

LEMMA CleanupIntervalType == CleanupInterval \in Nat \ {0}
  <1>1. NeighborTimeout \div 4 \in Int
    BY DiscoveryConstants
  <1> QED
    BY <1>1, LargerOf DEF CleanupInterval

LEMMA ShiftedType ==
    ASSUME NEW number \in Int, NEW by \in Int
    PROVE  Shifted(number, by) \in Int
  <1>1. Min({MaxNumber, number - by}) \in Int
    BY DiscoveryConstants, SmallerOf
  <1>2. 0 - MaxNumber \in Int
    BY DiscoveryConstants
  <1> QED
    BY <1>1, <1>2, LargerOf DEF Shifted

LEMMA AgedType ==
    ASSUME NEW a \in Int
    PROVE  Aged(a) \in Int
  <1>1. OldestAge \in Int
    BY DiscoveryConstants, CleanupIntervalType DEF OldestAge
  <1> QED
    BY <1>1, SmallerOf DEF Aged

LEMMA AgeAtType ==
    ASSUME NEW m \in Nodes, NEW n \in Nodes, NEW a \in Int
    PROVE  AgeAt(m, n, a) \in Int
  BY DiscoveryConstants DEF AgeAt

(* An adapted interval is at most twice the configured one.                *)
LEMMA BeaconTimerType ==
    ASSUME NEW n \in Nodes, IsFiniteSet(Known(n))
    PROVE  BeaconTimer(n) \in BeaconInterval .. 2 * BeaconInterval
  <1>1. PICK c \in Nat : c = Min({Cardinality(Known(n)), MaxNeighbors})
    BY FS_CardinalityType, SmallerOf, DiscoveryConstants
  <1>2. c <= MaxNeighbors
    <2>1. Cardinality(Known(n)) \in Int /\ MaxNeighbors \in Int
      BY FS_CardinalityType, DiscoveryConstants
    <2> QED
      BY <1>1, <2>1, SmallerOf
  <1>3. (BeaconInterval * c) \div MaxNeighbors \in 0 .. BeaconInterval
    <2>1. PICK b \in Nat \ {0}, m \in Nat \ {0} : b = BeaconInterval /\ m = MaxNeighbors
      BY DiscoveryConstants
    <2>2. b * c \in Nat /\ b * c <= b * m
      BY <1>2, <2>1
    <2>3. PICK p \in Nat : p = b * c
      BY <2>2
    <2>4. PICK q \in Int, r \in Int : q = p \div m /\ p = m * q + r /\ 0 <= r /\ r < m
      BY <2>1, <2>3
    <2>5. q <= b
      <3>1. SUFFICES ASSUME q >= b + 1
                     PROVE  FALSE
        BY <2>4
      <3>2. m * q >= m * (b + 1)
        BY <3>1, <2>1, <2>4
      <3>3. m * (b + 1) = b * m + m
        BY <2>1
      <3> QED
        BY <2>2, <2>3, <2>4, <3>2, <3>3
    <2>6. q >= 0
      <3>1. SUFFICES ASSUME q <= 0 - 1
                     PROVE  FALSE
        BY <2>4
      <3>2. m * q <= m * (0 - 1)
        BY <3>1, <2>1, <2>4
      <3>3. m * (0 - 1) = 0 - m
        BY <2>1
      <3> QED
        BY <2>3, <2>4, <3>2, <3>3
    <2> QED
      BY <2>1, <2>3, <2>4, <2>5, <2>6
  <1>4. AdaptiveInterval(n) \in BeaconInterval .. 2 * BeaconInterval
    <2>1. PICK d \in Int : d = (BeaconInterval * c) \div MaxNeighbors
      BY <1>3
    <2>2. AdaptiveInterval(n) = BeaconInterval + d
      BY <1>1, <2>1 DEF AdaptiveInterval
    <2> QED
      BY <1>3, <2>1, <2>2, DiscoveryConstants
  <1> QED
    BY <1>4, DiscoveryConstants DEF BeaconTimer

-----------------------------------------------------------------------------
(* The operations on one node's tables.                                    *)
LEMMA NoTables ==
    ASSUME NEW n
    PROVE  TablesFit(n, [m \in {} |-> 0], [m \in {} |-> 0])
  BY FS_EmptySet DEF TablesFit

LEMMA ShiftedTable ==
    ASSUME NEW n, NEW table, NEW map, TablesFit(n, table, map), NEW m, NEW by \in Int
    PROVE  TablesFit(n, [k \in DOMAIN table |->
                            IF k = m THEN EntryShifted(table[k], by) ELSE table[k]], map)
  <1> DEFINE shifted == [k \in DOMAIN table |->
                            IF k = m THEN EntryShifted(table[k], by) ELSE table[k]]
  <1>1. ASSUME NEW e \in NeighborNode
        PROVE  EntryShifted(e, by) \in NeighborNode /\ EntryShifted(e, by).lastSeen = e.lastSeen
    <2>1. Shifted(e.beaconSequence, by) \in Int
      BY ShiftedType DEF NeighborNode
    <2> QED
      BY <2>1 DEF NeighborNode, EntryShifted
  <1>2. \A k \in DOMAIN table : shifted[k] \in NeighborNode /\ shifted[k].lastSeen = table[k].lastSeen
    BY <1>1 DEF TablesFit
  <1>3. DOMAIN shifted = DOMAIN table /\ shifted \in [DOMAIN table -> NeighborNode]
    BY <1>2
  <1> QED
    BY <1>2, <1>3 DEF TablesFit

LEMMA HeardTable ==
    ASSUME NEW n, NEW table, NEW map, TablesFit(n, table, map),
           NEW m \in Nodes, m # n, NEW e \in NeighborNode
    PROVE  TablesFit(n, [k \in DOMAIN table \cup {m} |-> IF k = m THEN e ELSE table[k]],
                     [k \in DOMAIN map \cup {m} |-> IF k = m THEN e.lastSeen ELSE map[k]])
  <1>1. e.lastSeen \in Int
    BY DEF NeighborNode
  <1>2. IsFiniteSet(DOMAIN table \cup {m})
    BY FS_AddElement DEF TablesFit
  <1> QED
    BY <1>1, <1>2 DEF TablesFit

LEMMA CleanedTable ==
    ASSUME NEW n, NEW table, NEW map, TablesFit(n, table, map)
    PROVE  TablesFit(n, Restrict(table, DOMAIN table
                                    \ {k \in DOMAIN table : table[k].lastSeen > NeighborTimeout}),
                     Restrict(map, {k \in DOMAIN map : map[k] <= 2 * NeighborTimeout}))
  <1>1. PICK K : K = DOMAIN table \ {k \in DOMAIN table : table[k].lastSeen > NeighborTimeout}
    OBVIOUS
  <1>2. PICK M : M = {k \in DOMAIN map : map[k] <= 2 * NeighborTimeout}
    OBVIOUS
  <1>3. K \subseteq M
    <2>1. ASSUME NEW k \in K
          PROVE  k \in M
      <3>1. table[k] \in NeighborNode /\ map[k] = table[k].lastSeen /\ k \in DOMAIN map
        BY <1>1 DEF TablesFit
      <3>2. map[k] \in Int /\ map[k] <= NeighborTimeout
        BY <1>1, <3>1, DiscoveryConstants DEF NeighborNode
      <3> QED
        BY <1>2, <3>1, <3>2, DiscoveryConstants
    <2> QED
      BY <2>1
  <1>4. K \subseteq DOMAIN table /\ M \subseteq DOMAIN map /\ IsFiniteSet(K)
    BY <1>1, <1>2, FS_Subset DEF TablesFit
  <1>5. TablesFit(n, Restrict(table, K), Restrict(map, M))
    BY <1>3, <1>4 DEF TablesFit, Restrict
  <1> QED
    BY <1>1, <1>2, <1>5

LEMMA AgedTable ==
    ASSUME NEW n, NEW table, NEW map, TablesFit(n, table, map)
    PROVE  TablesFit(n, [k \in DOMAIN table |-> [table[k] EXCEPT !.lastSeen = Aged(@)]],
                     [k \in DOMAIN map |-> Aged(map[k])])
  <1>1. ASSUME NEW e \in NeighborNode
        PROVE  /\ [e EXCEPT !.lastSeen = Aged(@)] \in NeighborNode
               /\ [e EXCEPT !.lastSeen = Aged(@)].lastSeen = Aged(e.lastSeen)
    <2>1. Aged(e.lastSeen) \in Int
      BY AgedType DEF NeighborNode
    <2> QED
      BY <2>1 DEF NeighborNode
  <1>2. \A k \in DOMAIN table : table[k] \in NeighborNode
    BY DEF TablesFit
  <1>3. \A k \in DOMAIN map : Aged(map[k]) \in Int
    BY AgedType DEF TablesFit
  <1> DEFINE aged == [k \in DOMAIN table |-> [table[k] EXCEPT !.lastSeen = Aged(@)]]
  <1>4. \A k \in DOMAIN table : aged[k] \in NeighborNode /\ aged[k].lastSeen = Aged(table[k].lastSeen)
    BY <1>1, <1>2
  <1>5. DOMAIN aged = DOMAIN table /\ aged \in [DOMAIN table -> NeighborNode]
    BY <1>4
  <1> HIDE DEF aged
  <1>6. TablesFit(n, aged, [k \in DOMAIN map |-> Aged(map[k])])
    BY <1>3, <1>4, <1>5 DEF TablesFit
  <1> QED
    BY <1>6 DEF aged

-----------------------------------------------------------------------------
(* The actions.                                                            *)
LEMMA AirShiftedType ==
    ASSUME AirInv, NEW n, NEW by \in Int
    PROVE  AirShifted(n, by) \subseteq DiscoveryBeacon
  <1>1. ASSUME NEW b \in air
        PROVE  [b EXCEPT !.sequenceNumber = IF b.nodeId = n THEN Shifted(@, by) ELSE @]
                   \in DiscoveryBeacon
    <2>1. b \in DiscoveryBeacon
      BY DEF AirInv
    <2>2. b.sequenceNumber \in Int
      BY <2>1 DEF DiscoveryBeacon
    <2>3. Shifted(b.sequenceNumber, by) \in Int
      BY <2>2, ShiftedType
    <2> QED
      BY <2>1, <2>2, <2>3 DEF DiscoveryBeacon
  <1> QED
    BY <1>1 DEF AirShifted

LEMMA TablesShifted ==
    ASSUME TablesInv, NEW m \in Nodes, NEW by \in Int, NEW n
    PROVE  TablesFit(m, NeighborsShifted(n, by)[m], topology[m])
  <1>1. NeighborsShifted(n, by)[m]
            = [k \in DOMAIN neighbors[m] |->
                  IF k = n THEN EntryShifted(neighbors[m][k], by) ELSE neighbors[m][k]]
    BY DEF NeighborsShifted, Known
  <1>2. TablesFit(m, neighbors[m], topology[m])
    BY DEF TablesInv
  <1> QED
    BY <1>1, <1>2, ShiftedTable

LEMMA SendKeeps ==
    ASSUME DiscoveryInv, NEW n \in Nodes, SendDiscoveryBeacon(n), UNCHANGED topology
    PROVE  TablesInv' /\ AirInv'
  <1>1. CASE UNCHANGED <<neighbors, sent, air>>
    BY <1>1 DEF DiscoveryInv, TablesInv, AirInv
  <1>2. CASE Counted(n)
    <2>1. neighbors' = NeighborsShifted(n, 1)
      BY <1>2 DEF Counted
    <2>2. TablesInv'
      <3>1. neighbors' = [m \in Nodes |-> neighbors'[m]]
        BY <2>1 DEF NeighborsShifted
      <3>2. \A m \in Nodes : TablesFit(m, neighbors'[m], topology'[m])
        BY <2>1, TablesShifted DEF DiscoveryInv
      <3> QED
        BY <3>1, <3>2 DEF DiscoveryInv, TablesInv
    <2>3. sent' \in [Nodes -> 0 .. MaxNumber]
      <3>1. sent' = [sent EXCEPT ![n] = Min({@ + 1, MaxNumber})]
        BY <1>2 DEF Counted
      <3>2. sent[n] \in 0 .. MaxNumber
        BY DEF DiscoveryInv, AirInv
      <3>3. Min({sent[n] + 1, MaxNumber}) \in 0 .. MaxNumber
        BY <3>2, SmallerOf, DiscoveryConstants
      <3> QED
        BY <3>1, <3>3 DEF DiscoveryInv, AirInv
    <2>4. air' \subseteq DiscoveryBeacon
      <3>1. air' \subseteq AirShifted(n, 1) \cup {Beacon(n)}
        BY <1>2 DEF Counted
      <3>2. Beacon(n) \in DiscoveryBeacon
        BY DiscoveryConstants DEF Beacon, DiscoveryBeacon
      <3> QED
        BY <3>1, <3>2, AirShiftedType DEF DiscoveryInv
    <2> QED
      BY <2>2, <2>3, <2>4 DEF AirInv
  <1> QED
    BY <1>1, <1>2 DEF SendDiscoveryBeacon

LEMMA TimersClearedType ==
    ASSUME TimersInv, NEW n \in Nodes, TimersCleared(n)
    PROVE  /\ beaconIn' \in [Nodes -> 0 .. 2 * BeaconInterval]
           /\ interval' \in [Nodes -> BeaconInterval .. 2 * BeaconInterval]
           /\ cleanupIn' \in [Nodes -> 0 .. CleanupInterval]
  <1>1. 0 \in 0 .. 2 * BeaconInterval /\ BeaconInterval \in BeaconInterval .. 2 * BeaconInterval
    BY DiscoveryConstants
  <1>2. 0 \in 0 .. CleanupInterval
    BY CleanupIntervalType
  <1> QED
    BY <1>1, <1>2 DEF TimersCleared, TimersInv

LEMMA StartKeeps ==
    ASSUME DiscoveryInv, NEW n \in Nodes, StartNodeDiscovery(n)
    PROVE  DiscoveryInv'
  <1>1. TablesInv' /\ AirInv'
    BY SendKeeps DEF StartNodeDiscovery
  <1>2. BeaconTimer(n) \in BeaconInterval .. 2 * BeaconInterval
    BY BeaconTimerType DEF DiscoveryInv, TablesInv, TablesFit, Known
  <1>3. BeaconTimer(n) \in 0 .. 2 * BeaconInterval
    BY <1>2, DiscoveryConstants
  <1>4. CleanupInterval \in 0 .. CleanupInterval
    BY CleanupIntervalType
  <1>5. TimersInv'
    BY <1>2, <1>3, <1>4 DEF StartNodeDiscovery, DiscoveryInv, TimersInv
  <1> QED
    BY <1>1, <1>5 DEF DiscoveryInv

LEMMA StopKeeps ==
    ASSUME DiscoveryInv, NEW n \in Nodes, StopNodeDiscovery(n)
    PROVE  DiscoveryInv'
  <1>1. TablesInv' /\ AirInv'
    BY DEF StopNodeDiscovery, DiscoveryInv, TablesInv, AirInv
  <1>2. isActive' \in [Nodes -> BOOLEAN]
    BY DEF StopNodeDiscovery, DiscoveryInv, TimersInv
  <1>3. TimersInv'
    BY <1>2, TimersClearedType DEF StopNodeDiscovery, DiscoveryInv, TimersInv
  <1> QED
    BY <1>1, <1>3 DEF DiscoveryInv

LEMMA BeaconKeeps ==
    ASSUME DiscoveryInv, NEW n \in Nodes, BeaconDue(n)
    PROVE  DiscoveryInv'
  <1>1. TablesInv' /\ AirInv'
    BY SendKeeps DEF BeaconDue
  <1>2. interval[n] \in 0 .. 2 * BeaconInterval
    <2>1. interval[n] \in BeaconInterval .. 2 * BeaconInterval
      BY DEF DiscoveryInv, TimersInv
    <2> QED
      BY <2>1, DiscoveryConstants
  <1>3. TimersInv'
    BY <1>2 DEF BeaconDue, DiscoveryInv, TimersInv
  <1> QED
    BY <1>1, <1>3 DEF DiscoveryInv

LEMMA RestartKeeps ==
    ASSUME DiscoveryInv, NEW n \in Nodes, RestartNode(n)
    PROVE  DiscoveryInv'
  <1>1. sent[n] \in Int
    BY DEF DiscoveryInv, AirInv
  <1>2. PICK by \in Int : by = 0 - sent[n]
    BY <1>1
  <1>3. PICK shifted : shifted = NeighborsShifted(n, by)
    OBVIOUS
  <1>4. /\ topology' = [topology EXCEPT ![n] = [m \in {} |-> 0]]
        /\ neighbors' = [shifted EXCEPT ![n] = [m \in {} |-> 0]]
    BY <1>2, <1>3 DEF RestartNode
  <1>5. shifted = [m \in Nodes |-> shifted[m]]
    BY <1>3 DEF NeighborsShifted
  <1>6. ASSUME NEW m \in Nodes
        PROVE  TablesFit(m, neighbors'[m], topology'[m])
    <2>1. CASE m = n
      <3>1. neighbors'[m] = [k \in {} |-> 0] /\ topology'[m] = [k \in {} |-> 0]
        BY <1>4, <1>5, <2>1 DEF DiscoveryInv, TablesInv
      <3> QED
        BY <3>1, NoTables
    <2>2. CASE m # n
      <3>1. neighbors'[m] = shifted[m] /\ topology'[m] = topology[m]
        BY <1>4, <1>5, <2>2 DEF DiscoveryInv, TablesInv
      <3> QED
        BY <1>3, <3>1, TablesShifted DEF DiscoveryInv
    <2> QED
      BY <2>1, <2>2
  <1>7. TablesInv'
    BY <1>4, <1>5, <1>6 DEF DiscoveryInv, TablesInv
  <1>8. AirInv'
    <2>1. air' \subseteq DiscoveryBeacon
      BY <1>2, AirShiftedType DEF RestartNode, DiscoveryInv
    <2>2. sent' \in [Nodes -> 0 .. MaxNumber]
      BY DiscoveryConstants DEF RestartNode, DiscoveryInv, AirInv
    <2> QED
      BY <2>1, <2>2 DEF AirInv
  <1>9. TimersInv'
    <2>1. isActive' \in [Nodes -> BOOLEAN]
      BY DEF RestartNode, DiscoveryInv, TimersInv
    <2> QED
      BY <2>1, TimersClearedType DEF RestartNode, DiscoveryInv, TimersInv
  <1> QED
    BY <1>7, <1>8, <1>9 DEF DiscoveryInv

LEMMA HearKeeps ==
    ASSUME DiscoveryInv, NEW m \in Nodes, NEW b \in air, ProcessDiscoveryBeacon(m, b)
    PROVE  DiscoveryInv'
  <1>1. b \in DiscoveryBeacon
    BY DEF DiscoveryInv, AirInv
  <1>2. /\ b.nodeId \in Nodes /\ b.nodeId # m
        /\ b.sequenceNumber \in Int /\ b.age \in Int
    BY <1>1, DiscoveryConstants DEF DiscoveryBeacon, ProcessDiscoveryBeacon
  <1>3. NeighborFromBeacon(m, b) \in NeighborNode
        /\ NeighborFromBeacon(m, b).lastSeen = AgeAt(m, b.nodeId, b.age)
    BY <1>2, AgeAtType DEF NeighborFromBeacon, NeighborNode
  <1>4. /\ neighbors' = [neighbors EXCEPT ![m] =
                            [k \in DOMAIN neighbors[m] \cup {b.nodeId} |->
                                IF k = b.nodeId THEN NeighborFromBeacon(m, b) ELSE neighbors[m][k]]]
        /\ topology' = [topology EXCEPT ![m] =
                            [k \in DOMAIN topology[m] \cup {b.nodeId} |->
                                IF k = b.nodeId THEN AgeAt(m, b.nodeId, b.age) ELSE topology[m][k]]]
    BY DEF ProcessDiscoveryBeacon, UpdateTopologyMap, Known
  <1>5. TablesFit(m, neighbors'[m], topology'[m])
    <2>1. TablesFit(m, neighbors[m], topology[m])
      BY DEF DiscoveryInv, TablesInv
    <2>2. /\ neighbors'[m] = [k \in DOMAIN neighbors[m] \cup {b.nodeId} |->
                                IF k = b.nodeId THEN NeighborFromBeacon(m, b) ELSE neighbors[m][k]]
          /\ topology'[m] = [k \in DOMAIN topology[m] \cup {b.nodeId} |->
                                IF k = b.nodeId THEN AgeAt(m, b.nodeId, b.age) ELSE topology[m][k]]
      BY <1>4 DEF DiscoveryInv, TablesInv
    <2> QED
      BY <1>2, <1>3, <2>1, <2>2, HeardTable
  <1>6. \A n \in Nodes \ {m} : neighbors'[n] = neighbors[n] /\ topology'[n] = topology[n]
    BY <1>4 DEF DiscoveryInv, TablesInv
  <1>7. TablesInv'
    <2>1. \A n \in Nodes : TablesFit(n, neighbors'[n], topology'[n])
      BY <1>5, <1>6 DEF DiscoveryInv, TablesInv
    <2> QED
      BY <1>4, <2>1 DEF DiscoveryInv, TablesInv
  <1>8. TimersInv' /\ AirInv'
    BY DEF ProcessDiscoveryBeacon, DiscoveryInv, TimersInv, AirInv
  <1> QED
    BY <1>7, <1>8 DEF DiscoveryInv

LEMMA CleanupKeeps ==
    ASSUME DiscoveryInv, NEW m \in Nodes, CleanupStaleNeighbors(m)
    PROVE  DiscoveryInv'
  <1>1. PICK kept : kept = Restrict(neighbors[m], DOMAIN neighbors[m]
                       \ {k \in DOMAIN neighbors[m] : neighbors[m][k].lastSeen > NeighborTimeout})
    OBVIOUS
  <1>2. PICK map : map = Restrict(topology[m],
                             {k \in DOMAIN topology[m] : topology[m][k] <= 2 * NeighborTimeout})
    OBVIOUS
  <1>3. /\ neighbors' = [neighbors EXCEPT ![m] = kept]
        /\ topology' = [topology EXCEPT ![m] = map]
    BY <1>1, <1>2 DEF CleanupStaleNeighbors, Stale, Known
  <1>4. TablesFit(m, kept, map)
    BY <1>1, <1>2, CleanedTable DEF DiscoveryInv, TablesInv
  <1>5. TablesInv'
    BY <1>3, <1>4 DEF DiscoveryInv, TablesInv
  <1>6. CleanupInterval \in 0 .. CleanupInterval
    BY CleanupIntervalType
  <1>7. TimersInv' /\ AirInv'
    BY <1>6 DEF CleanupStaleNeighbors, DiscoveryInv, TimersInv, AirInv
  <1> QED
    BY <1>5, <1>7 DEF DiscoveryInv

LEMMA DiscoveryTickKeeps ==
    ASSUME DiscoveryInv, DiscoveryTick
    PROVE  DiscoveryInv'
  <1>1. TablesInv'
    <2>1. ASSUME NEW m \in Nodes
          PROVE  TablesFit(m, neighbors'[m], topology'[m])
      <3>1. /\ neighbors'[m] = [k \in DOMAIN neighbors[m] |->
                                  [neighbors[m][k] EXCEPT !.lastSeen = Aged(@)]]
            /\ topology'[m] = [k \in DOMAIN topology[m] |-> Aged(topology[m][k])]
        BY DEF DiscoveryTick, Known
      <3> QED
        BY <3>1, AgedTable DEF DiscoveryInv, TablesInv
    <2>2. neighbors' = [m \in Nodes |-> neighbors'[m]] /\ topology' = [m \in Nodes |-> topology'[m]]
      BY DEF DiscoveryTick
    <2> QED
      BY <2>1, <2>2 DEF TablesInv
  <1>2. TimersInv'
    <2>1. ASSUME NEW n \in Nodes
          PROVE  /\ (IF isActive[n] THEN beaconIn[n] - 1 ELSE beaconIn[n]) \in 0 .. 2 * BeaconInterval
                 /\ (IF isActive[n] THEN cleanupIn[n] - 1 ELSE cleanupIn[n]) \in 0 .. CleanupInterval
      <3>1. beaconIn[n] \in 0 .. 2 * BeaconInterval /\ cleanupIn[n] \in 0 .. CleanupInterval
        BY DEF DiscoveryInv, TimersInv
      <3>2. isActive[n] => beaconIn[n] > 0 /\ cleanupIn[n] > 0
        BY DEF DiscoveryTick
      <3> QED
        BY <3>1, <3>2, CleanupIntervalType, DiscoveryConstants
    <2> QED
      BY <2>1 DEF DiscoveryTick, DiscoveryInv, TimersInv
  <1>3. AirInv'
    <2>1. ASSUME NEW b \in air, b.age < MaxDelay
          PROVE  [b EXCEPT !.age = @ + 1] \in DiscoveryBeacon
      <3>1. b \in DiscoveryBeacon
        BY DEF DiscoveryInv, AirInv
      <3> QED
        BY <2>1, <3>1, DiscoveryConstants DEF DiscoveryBeacon
    <2> QED
      BY <2>1 DEF DiscoveryTick, DiscoveryInv, AirInv
  <1> QED
    BY <1>1, <1>2, <1>3 DEF DiscoveryInv

LEMMA DiscoveryInvInit ==
    ASSUME DiscoveryInit
    PROVE  DiscoveryInv
  <1>1. TablesInv
    <2>1. neighbors = [n \in Nodes |-> neighbors[n]] /\ topology = [n \in Nodes |-> topology[n]]
      BY DEF DiscoveryInit
    <2>2. \A n \in Nodes : neighbors[n] = [m \in {} |-> 0] /\ topology[n] = [m \in {} |-> 0]
      BY DEF DiscoveryInit
    <2> QED
      BY <2>1, <2>2, NoTables DEF TablesInv
  <1>2. TimersInv /\ AirInv
    BY DiscoveryConstants, CleanupIntervalType DEF DiscoveryInit, TimersInv, AirInv
  <1> QED
    BY <1>1, <1>2 DEF DiscoveryInv

LEMMA DiscoveryInvStep ==
    ASSUME DiscoveryInv, [DiscoveryNext]_discoveryVars
    PROVE  DiscoveryInv'
  <1>1. CASE UNCHANGED discoveryVars
    BY <1>1 DEF discoveryVars, DiscoveryInv, TablesInv, TimersInv, AirInv
  <1> QED
    BY <1>1, StartKeeps, StopKeeps, BeaconKeeps, CleanupKeeps, RestartKeeps, HearKeeps,
       DiscoveryTickKeeps DEF DiscoveryNext

(* A node gives routes to its neighbours (getReachableNodes, findRoute), and *)
(* each is on its map with the age the neighbour has, whatever beacons are   *)
(* lost, repeated or overtaken, whatever is cleaned up, stopped and          *)
(* restarted, for any clocks, timeouts, intervals and limits                 *)
(* (node-discovery-protocol.ts:246-338, 738-772).                            *)
THEOREM DiscoverySoundTheorem == DiscoverySpec => []DiscoverySound
  <1>1. DiscoveryInv => DiscoverySound
    <2> SUFFICES ASSUME DiscoveryInv
                 PROVE  DiscoveryTypeOK /\ NeighborsOnMap
      BY DEF DiscoverySound
    <2>1. NeighborsOnMap
      BY DEF DiscoveryInv, TablesInv, TablesFit, NeighborsOnMap, ReachableNodes, Known
    <2>2. ASSUME NEW n \in Nodes
          PROVE  /\ Known(n) \subseteq Nodes \ {n}
                 /\ Range(neighbors[n]) \subseteq NeighborNode
                 /\ DOMAIN topology[n] \subseteq Nodes \ {n}
      BY DEF DiscoveryInv, TablesInv, TablesFit, Known, Range
    <2> QED
      BY <2>1, <2>2 DEF DiscoveryInv, TimersInv, AirInv, DiscoveryTypeOK
  <1> QED
    BY <1>1, DiscoveryInvInit, DiscoveryInvStep, PTL DEF DiscoverySpec
=============
