------------------------------- MODULE BanList -------------------------------
(* BanListManager (packages/core/src/peer-manager.ts): incidents of          *)
(* misbehaviour, the bans they lead to, and how bans expire and escalate.    *)
(* A ban list is a record; every operation maps it to the next one.          *)
(*                                                                           *)
(* A ban knows the ticks that remain of it, an incident its age. Of the      *)
(* incidents of a type only as many are kept as any threshold counts, and    *)
(* those outside the time window of their type, which no check ever sees,    *)
(* are dropped at once; attempts stop counting where they stop mattering.    *)
EXTENDS Integers, Sequences, SequencesExt

CONSTANTS
    Peers,
    AddressOf,                 \* peer -> address
    MisbehaviorTypes,
    IncidentThreshold,         \* type -> incidents in the window that ban
    IncidentWindow,            \* type -> length of the window, in ticks
    TempBanDuration,           \* ticks
    MaxTempBans

ASSUME BanListAssumption ==
    /\ MaxTempBans \in Nat
    /\ TempBanDuration \in Nat \ {0}
    /\ DOMAIN AddressOf = Peers
    /\ DOMAIN IncidentThreshold = MisbehaviorTypes
    /\ DOMAIN IncidentWindow = MisbehaviorTypes

VARIABLE banList

Addresses == {AddressOf[p] : p \in Peers}

NoIncidents == [t \in MisbehaviorTypes |-> <<>>]

EmptyBanList ==
    [bannedPeers |-> <<>>, bannedAddresses |-> <<>>, misbehaviorHistory |-> [p \in Peers |-> NoIncidents]]

Without(f, x) == [y \in DOMAIN f \ {x} |-> f[y]]

With(f, x, v) == [y \in DOMAIN f \cup {x} |-> IF y = x THEN v ELSE f[y]]

(* banPeer with a duration of 0 is a ban without end. *)
Permanent(e) == e.duration = 0

ExpiredBan(e) == ~Permanent(e) /\ e.remaining = 0

(* A repeated ban counts up, and becomes permanent after MaxTempBans. A new  *)
(* temporary ban replaces a permanent one that has not been repeated enough. *)
BanEntry(b, p, duration) ==
    LET attempts == IF p \in DOMAIN b.bannedPeers THEN b.bannedPeers[p].attempts + 1 ELSE 1
        lasting == IF p \in DOMAIN b.bannedPeers /\ attempts > MaxTempBans THEN 0 ELSE duration
    IN [peerId |-> p, duration |-> lasting, remaining |-> lasting,
        attempts |-> IF attempts > MaxTempBans THEN MaxTempBans + 1 ELSE attempts]

BanPeer(b, p, duration) ==
    [b EXCEPT !.bannedPeers = With(@, p, BanEntry(b, p, duration)),
              !.bannedAddresses = With(@, AddressOf[p], BanEntry(b, p, duration))]

UnbanPeer(b, p) ==
    IF p \notin DOMAIN b.bannedPeers THEN b
    ELSE [b EXCEPT !.bannedPeers = Without(@, p),
                   !.bannedAddresses = Without(@, AddressOf[p]),
                   !.misbehaviorHistory[p] = NoIncidents]

(* What is left of a ban list by the question whether p is banned. *)
PeerChecked(b, p) ==
    IF p \in DOMAIN b.bannedPeers /\ ExpiredBan(b.bannedPeers[p]) THEN UnbanPeer(b, p) ELSE b

AddressChecked(b, a) ==
    IF a \in DOMAIN b.bannedAddresses /\ ExpiredBan(b.bannedAddresses[a])
    THEN UnbanPeer(b, b.bannedAddresses[a].peerId) ELSE b

(* isPeerBanned || isAddressBanned: the second is asked if the first says no. *)
Checked(b, p) ==
    IF p \in DOMAIN PeerChecked(b, p).bannedPeers THEN b
    ELSE AddressChecked(PeerChecked(b, p), AddressOf[p])

IsBanned(b, p) ==
    p \in DOMAIN Checked(b, p).bannedPeers \/ AddressOf[p] \in DOMAIN Checked(b, p).bannedAddresses

(* Serious incidents ban for ever, spam twice as long as the others. *)
DurationOf(type) ==
    CASE type \in {"protocol_violation", "malicious_content"} -> 0
      [] type = "spam" -> 2 * TempBanDuration
      [] OTHER -> TempBanDuration

EvaluateForBan(b, p, type) ==
    IF Len(b.misbehaviorHistory[p][type]) >= IncidentThreshold[type]
    THEN BanPeer(b, p, DurationOf(type)) ELSE b

RecordMisbehavior(b, p, type) ==
    LET history == <<0>> \o b.misbehaviorHistory[p][type]
        counted == SubSeq(history, 1, IF Len(history) < IncidentThreshold[type]
                                      THEN Len(history) ELSE IncidentThreshold[type])
    IN EvaluateForBan([b EXCEPT !.misbehaviorHistory[p][type] = counted], p, type)

ExpiredPeers(b) == {p \in DOMAIN b.bannedPeers : ExpiredBan(b.bannedPeers[p])}

(* checkExpiredBans: every peer whose ban has expired is unbanned, with its   *)
(* address, and begins anew.                                                 *)
CheckExpiredBans(b) ==
    LET expired == ExpiredPeers(b)
    IN [bannedPeers |-> [p \in DOMAIN b.bannedPeers \ expired |-> b.bannedPeers[p]],
        bannedAddresses |-> [a \in DOMAIN b.bannedAddresses \ {AddressOf[p] : p \in expired} |-> b.bannedAddresses[a]],
        misbehaviorHistory |-> [p \in Peers |-> IF p \in expired THEN NoIncidents ELSE b.misbehaviorHistory[p]]]

Shorter(e) == [e EXCEPT !.remaining = IF @ = 0 THEN 0 ELSE @ - 1]

OlderIncidents(b, p, t) ==
    LET older == [i \in DOMAIN b.misbehaviorHistory[p][t] |-> b.misbehaviorHistory[p][t][i] + 1]
    IN SelectSeq(older, LAMBDA age : age < IncidentWindow[t])

BanListAged(b) ==
    [bannedPeers |-> [p \in DOMAIN b.bannedPeers |-> Shorter(b.bannedPeers[p])],
     bannedAddresses |-> [a \in DOMAIN b.bannedAddresses |-> Shorter(b.bannedAddresses[a])],
     misbehaviorHistory |-> [p \in Peers |-> [t \in MisbehaviorTypes |-> OlderIncidents(b, p, t)]]]

(***************************************************************************)
(* Properties                                                              *)
(***************************************************************************)

(* A peer is banned exactly as long as its address is: neither outlives the   *)
(* other through repeated bans, expiry found by a query or by the monitor, or *)
(* an explicit unban. It takes peers that do not share an address.            *)
BanListsAgree ==
    (\A p, q \in Peers : AddressOf[p] = AddressOf[q] => p = q) =>
        \A p \in Peers :
            /\ p \in DOMAIN banList.bannedPeers <=> AddressOf[p] \in DOMAIN banList.bannedAddresses
            /\ p \in DOMAIN banList.bannedPeers =>
                   banList.bannedAddresses[AddressOf[p]] = banList.bannedPeers[p]

(* A temporary ban ends or becomes permanent: misbehaving again prolongs it,  *)
(* but not for ever.                                                          *)
TemporaryBansEnd ==
    \A p \in Peers :
        (p \in DOMAIN banList.bannedPeers /\ ~Permanent(banList.bannedPeers[p]))
            ~> (p \notin DOMAIN banList.bannedPeers \/ Permanent(banList.bannedPeers[p]))
=============================================================================
