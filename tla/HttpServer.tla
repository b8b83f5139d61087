------------------------------ MODULE HttpServer ------------------------------
(* HttpWebSocketServer (apps/node-server/src/HttpWebSocketServer.ts): clients  *)
(* that open a session by answering a challenge, and sockets that subscribe to *)
(* what is submitted for some addresses.                                       *)
(*                                                                            *)
(* A signature is complete or not; it is not verified yet. Answers, counters   *)
(* and queries, which change nothing, are left out. Times are ages in ticks.   *)
EXTENDS Integers, Sequences, FiniteSets

CONSTANTS
    ChallengeIds, ClientIds,      \* random, so that none is used twice
    Sockets, UTXOAddresses,
    ChallengeExpiration, JwtExpiration,
    AllUTXOs,                     \* the room utxo:all
    NoUser, NoSubscription

ASSUME ServerAssumption ==
    /\ {ChallengeExpiration, JwtExpiration} \subseteq Nat
    /\ AllUTXOs \notin UTXOAddresses
    /\ NoUser \notin ClientIds
    /\ \A addresses \in SUBSET UTXOAddresses : addresses # NoSubscription

VARIABLES
    listening,                    \* "yes", "no", or "closing"
    authChallenges,               \* challenge -> its age
    challengesIssued,             \* the ids used so far
    authenticatedClients,         \* those with a session
    issued,                       \* client -> [challenge, age] of its latest token
    sockets                       \* of connected ones: [user, subscription, rooms]

serverVars == <<listening, authChallenges, challengesIssued, authenticatedClients, issued, sockets>>

Forgotten(f, S) == [x \in DOMAIN f \ S |-> f[x]]

Entered(f, x, v) == [y \in DOMAIN f \cup {x} |-> IF y = x THEN v ELSE f[y]]

Expired(c) == authChallenges[c] > ChallengeExpiration

(* jwt.verify, and the session is there still.                                *)
Authorized(client) ==
    client \in authenticatedClients /\ issued[client].age <= JwtExpiration

(* An HTTP request with the token of the client reaches its handler.          *)
Request(client) == listening = "yes" /\ client \in DOMAIN issued /\ Authorized(client)

-----------------------------------------------------------------------------
(* Sessions                                                                   *)

(* What has expired is forgotten when the next challenge is made.             *)
IssueChallenge(c) ==
    /\ listening = "yes" /\ c \notin challengesIssued
    /\ authChallenges' = Forgotten(Entered(authChallenges, c, 0), {d \in DOMAIN authChallenges : Expired(d)})
    /\ challengesIssued' = challengesIssued \cup {c}
    /\ UNCHANGED <<listening, authenticatedClients, issued, sockets>>

(* Fault: the challenge can be answered once more.                            *)
OpenSessionAgain(c, client) ==
    /\ authenticatedClients' = authenticatedClients \cup {client}
    /\ issued' = Entered(issued, client, [challenge |-> c, age |-> 0])
    /\ UNCHANGED authChallenges

OpenSession(c, client) ==
    /\ authenticatedClients' = authenticatedClients \cup {client}
    /\ issued' = Entered(issued, client, [challenge |-> c, age |-> 0])
    /\ authChallenges' = Forgotten(authChallenges, {c})

(* An answer that comes too late, or is wrong, uses the challenge up as well.  *)
Verify(c, client, complete) ==
    /\ listening = "yes" /\ c \in DOMAIN authChallenges /\ client \notin DOMAIN issued
    /\ \/ ~Expired(c) /\ complete /\ OpenSession(c, client)
       \/ /\ Expired(c) \/ ~complete
          /\ authChallenges' = Forgotten(authChallenges, {c})
          /\ UNCHANGED <<authenticatedClients, issued>>
    /\ UNCHANGED <<listening, challengesIssued, sockets>>

Refresh(client) ==
    /\ Request(client)
    /\ issued' = [issued EXCEPT ![client].age = 0]
    /\ UNCHANGED <<listening, authChallenges, challengesIssued, authenticatedClients, sockets>>

Logout(client) ==
    /\ Request(client)
    /\ authenticatedClients' = authenticatedClients \ {client}
    /\ UNCHANGED <<listening, authChallenges, challengesIssued, issued, sockets>>

-----------------------------------------------------------------------------
(* Sockets                                                                    *)
ConnectSocket(s) ==
    /\ listening = "yes" /\ s \notin DOMAIN sockets
    /\ sockets' = Entered(sockets, s, [user |-> NoUser, subscription |-> NoSubscription, rooms |-> {}])
    /\ UNCHANGED <<listening, authChallenges, challengesIssued, authenticatedClients, issued>>

(* The session is looked for under the name of the socket, and stays.         *)
HandleClientDisconnect(s) ==
    /\ s \in DOMAIN sockets
    /\ sockets' = Forgotten(sockets, {s})
    /\ authenticatedClients' = authenticatedClients \ {s}
    /\ UNCHANGED <<listening, authChallenges, challengesIssued, issued>>

HandleWebSocketAuth(s, client) ==
    /\ s \in DOMAIN sockets /\ client \in DOMAIN issued /\ Authorized(client)
    /\ sockets' = [sockets EXCEPT ![s].user = client]
    /\ UNCHANGED <<listening, authChallenges, challengesIssued, authenticatedClients, issued>>

(* What it subscribed to before is replaced, but its rooms are not left.      *)
Subscribed(socket, filters) ==
    [socket EXCEPT !.subscription = filters, !.rooms = @ \cup filters \cup {AllUTXOs}]

Unsubscribed(socket) ==
    [socket EXCEPT !.subscription = NoSubscription,
        !.rooms = @ \ ({AllUTXOs} \cup IF socket.subscription = NoSubscription THEN {} ELSE socket.subscription)]

(* Only the user of the socket matters, not whether there still is a session. *)
HandleUTXOSubscription(s, new) ==
    /\ s \in DOMAIN sockets /\ sockets[s].user # NoUser
    /\ sockets' = [sockets EXCEPT ![s] = new]
    /\ UNCHANGED <<listening, authChallenges, challengesIssued, authenticatedClients, issued>>

Subscribes(s) ==
    \/ \E filters \in SUBSET UTXOAddresses : HandleUTXOSubscription(s, Subscribed(sockets[s], filters))
    \/ HandleUTXOSubscription(s, Unsubscribed(sockets[s]))

(* Of a submission, accepted or not, everyone is told who is in the room of   *)
(* an address that it pays, or in utxo:all.                                   *)
BroadcastTransactionUpdate(paid) == {s \in DOMAIN sockets : sockets[s].rooms \cap (paid \cup {AllUTXOs}) # {}}

-----------------------------------------------------------------------------
(* The server                                                                 *)
Start ==
    /\ listening = "no"
    /\ listening' = "yes"
    /\ UNCHANGED <<authChallenges, challengesIssued, authenticatedClients, issued, sockets>>

(* No connection is accepted any more; those there are go on.                 *)
Stop ==
    /\ listening = "yes"
    /\ listening' = "closing"
    /\ UNCHANGED <<authChallenges, challengesIssued, authenticatedClients, issued, sockets>>

(* With the last connection the server is closed.                             *)
Closed ==
    /\ listening = "closing" /\ DOMAIN sockets = {}
    /\ listening' = "no"
    /\ authChallenges' = <<>> /\ authenticatedClients' = {}
    /\ UNCHANGED <<challengesIssued, issued, sockets>>

AgedTo(age, limit) == IF age > limit THEN age ELSE age + 1

ServerTick ==
    /\ authChallenges' = [c \in DOMAIN authChallenges |-> AgedTo(authChallenges[c], ChallengeExpiration)]
    /\ issued' = [k \in DOMAIN issued |-> [issued[k] EXCEPT !.age = AgedTo(@, JwtExpiration)]]
    /\ UNCHANGED <<listening, challengesIssued, authenticatedClients, sockets>>

ServerInit ==
    /\ listening = "no"
    /\ authChallenges = <<>> /\ challengesIssued = {}
    /\ authenticatedClients = {} /\ issued = <<>>
    /\ sockets = <<>>

ServerNext ==
    \/ \E c \in ChallengeIds :
           IssueChallenge(c) \/ \E k \in ClientIds, complete \in BOOLEAN : Verify(c, k, complete)
    \/ \E k \in ClientIds : Refresh(k) \/ Logout(k)
    \/ \E s \in Sockets :
           \/ ConnectSocket(s) \/ HandleClientDisconnect(s) \/ Subscribes(s)
           \/ \E k \in ClientIds : HandleWebSocketAuth(s, k)
    \/ Start \/ Stop \/ Closed \/ ServerTick

ServerSpec == ServerInit /\ [][ServerNext]_serverVars

-----------------------------------------------------------------------------
(* No challenge opens two sessions, whatever was answered too late or wrongly, *)
(* repeated, and forgotten over stops and starts.                             *)
OneSessionPerChallenge ==
    /\ authenticatedClients \subseteq DOMAIN issued
    /\ \A k, l \in DOMAIN issued : issued[k].challenge = issued[l].challenge => k = l

(* A socket is told of every submission as long as it is subscribed, after    *)
(* replacing its addresses and after its session has ended too, and it is in  *)
(* the rooms of its addresses; who never had a user is told of nothing.       *)
SubscribersHear ==
    /\ \A paid \in SUBSET UTXOAddresses, s \in DOMAIN sockets :
           sockets[s].subscription # NoSubscription => s \in BroadcastTransactionUpdate(paid)
    /\ \A s \in DOMAIN sockets :
           /\ AllUTXOs \in sockets[s].rooms <=> sockets[s].subscription # NoSubscription
           /\ sockets[s].rooms # {} => sockets[s].user # NoUser

(* The server's tables stay consistent through repeated answers, ended        *)
(* sessions, replaced subscriptions, stops and starts.                        *)
ServerSound == OneSessionPerChallenge /\ SubscribersHear
=============================================================================
