--------------------------- MODULE BrokerSessions ---------------------------
(***************************************************************************)
(* The life of a connection in src/server.ts: the WebSocket handlers       *)
(* (lines 830-963), the authentication callback (136-249) and the Aedes    *)
(* events 'client' and 'clientDisconnect' (742-794), with what they share: *)
(* the failure limiter and the sets of active connections of subscribers.  *)
(* One step is one callback; `await verifyAuthToken' divides the callback  *)
(* of a publisher in two, and anything may happen between the halves.      *)
(*                                                                         *)
(* Each element of Conns is one WebSocket, with the address it comes from  *)
(* and the MQTT client id its CONNECT packet carries.                      *)
(***************************************************************************)
EXTENDS RateLimiter, FiniteSets

CONSTANTS
    Conns,                  \* WebSocket connections
    ipOf,                   \* the client address of each
    idOf,                   \* the MQTT client id each presents
    Subscribers,            \* configured subscriber usernames
    maxConn, NoLimit,       \* subscriberMaxConnections; a limit that is NaN
    Keys,                   \* public keys of publishers
    Nobody,                 \* a client without a clientType
    Racing                  \* connections whose close may overtake their
                            \* CONNECT packet or their registration

(* A limit parsed from an entry is positive, but the default is whatever   *)
(* parseInt makes of SUBSCRIBER_MAX_CONNECTIONS_DEFAULT.  A number below 0 *)
(* admits nobody, as 0 does.                                               *)
ASSUME SessionsAssumption ==
    /\ ipOf \in [Conns -> IPs]
    /\ maxConn \in [Subscribers -> Nat \union {NoLimit}] /\ NoLimit \notin Nat
    /\ Nobody \notin Subscribers \union Keys
    /\ Subscribers \intersect Keys = {}
    /\ Racing \subseteq Conns

VARIABLES
    phase,                  \* how far the connection has come
    sock,                   \* its WebSocket: none, open or closed
    who,                    \* its username or public key, with its clientType
    active,                 \* subscriberActiveConnections: client ids
    tracked                 \* public keys the abuse detector knows

sessionVars == <<phase, sock, who, active, tracked>>
vars == <<rlVars, sessionVars>>

TypeOK ==
    /\ RLTypeOK
    /\ phase \in [Conns -> {"idle", "open", "verifying", "authorized",
                            "registered", "ended"}]
    /\ sock \in [Conns -> {"none", "open", "closed"}]
    /\ who \in [Conns -> Subscribers \union Keys \union {Nobody}]
    /\ active \in [Subscribers -> SUBSET {idOf[c] : c \in Conns}]
    /\ tracked \subseteq Keys

Init ==
    /\ now = 0
    /\ failedConnectionsByIP = [ip \in IPs |-> NoRecord]
    /\ phase = [c \in Conns |-> "idle"]
    /\ sock = [c \in Conns |-> "none"]
    /\ who = [c \in Conns |-> Nobody]
    /\ active = [u \in Subscribers |-> {}]
    /\ tracked = {}

----------------------------------------------------------------------------
(* WebSocket events.                                                       *)

\* wsServer.on('connection'): a blocked address is terminated before any
\* handler is attached, so its close is never counted.
Connection(c) ==
    /\ phase[c] = "idle"
    /\ IsBlocked(ipOf[c])
    /\ \/ /\ Blocked(ipOf[c])
          /\ phase' = [phase EXCEPT ![c] = "ended"]
          /\ UNCHANGED sock
       \/ /\ ~Blocked(ipOf[c])
          /\ phase' = [phase EXCEPT ![c] = "open"]
          /\ sock' = [sock EXCEPT ![c] = "open"]
    /\ UNCHANGED <<now, who, active, tracked>>

\* Fault: the close is charged by how far the connection has come.
WsCloseByPhase(c) ==
    /\ sock[c] = "open"
    /\ sock' = [sock EXCEPT ![c] = "closed"]
    /\ IF phase[c] # "registered"
       THEN RecordFailure(ipOf[c])
       ELSE UNCHANGED failedConnectionsByIP
    /\ UNCHANGED <<now, phase, who, active, tracked>>

\* ws.on('close'): without a clientType the close counts as a failure.
WsClose(c) ==
    /\ sock[c] = "open"
    /\ sock' = [sock EXCEPT ![c] = "closed"]
    /\ IF who[c] = Nobody
       THEN RecordFailure(ipOf[c])
       ELSE UNCHANGED failedConnectionsByIP
    /\ UNCHANGED <<now, phase, who, active, tracked>>

----------------------------------------------------------------------------
(* aedes.authenticate, called when the CONNECT packet has been read.  Aedes*)
(* reads it some turns of the event loop after the socket delivered it, so *)
(* the socket of a Racing connection may have closed in between.           *)

MayConnect(c) ==
    /\ phase[c] = "open"
    /\ sock[c] = "closed" => c \in Racing

\* activeConns.size >= maxConn, which is false of NaN.
Full(u) == maxConn[u] # NoLimit /\ Cardinality(active[u]) >= maxConn[u]

\* Fault: the limit may be reached and then passed by one.
SubscriberLoginOneMore(c, u) ==
    /\ MayConnect(c)
    /\ maxConn[u] # NoLimit => Cardinality(active[u]) <= maxConn[u]
    /\ active' = [active EXCEPT ![u] = @ \union {idOf[c]}]
    /\ who' = [who EXCEPT ![c] = u]
    /\ phase' = [phase EXCEPT ![c] = "authorized"]
    /\ UNCHANGED <<rlVars, sock, tracked>>

\* Fault: the count is read, but the client id is not added.
SubscriberLoginUnrecorded(c, u) ==
    /\ MayConnect(c)
    /\ ~Full(u)
    /\ who' = [who EXCEPT ![c] = u]
    /\ phase' = [phase EXCEPT ![c] = "authorized"]
    /\ UNCHANGED <<rlVars, sock, active, tracked>>

\* A subscriber with the right password and a free connection: the count is
\* read and the client id added in one synchronous callback.
SubscriberLogin(c, u) ==
    /\ MayConnect(c)
    /\ ~Full(u)
    /\ active' = [active EXCEPT ![u] = @ \union {idOf[c]}]
    /\ who' = [who EXCEPT ![c] = u]
    /\ phase' = [phase EXCEPT ![c] = "authorized"]
    /\ UNCHANGED <<rlVars, sock, tracked>>

\* The right password, and no free connection.
SubscriberOverLimit(c, u) ==
    /\ MayConnect(c)
    /\ Full(u)
    /\ phase' = [phase EXCEPT ![c] = "ended"]
    /\ UNCHANGED <<rlVars, sock, who, active, tracked>>

\* A publisher with a well-formed username and some password: its callback
\* waits for verifyAuthToken.
PublisherLogin(c) ==
    /\ MayConnect(c)
    /\ phase' = [phase EXCEPT ![c] = "verifying"]
    /\ UNCHANGED <<rlVars, sock, who, active, tracked>>

\* Fault: trust is kept by client id, not by public key.
PublisherVerifiedById(c, k) ==
    /\ phase[c] = "verifying"
    /\ who' = [who EXCEPT ![c] = k]
    /\ tracked' = tracked \union {idOf[c]}
    /\ phase' = [phase EXCEPT ![c] = "authorized"]
    /\ UNCHANGED <<rlVars, sock, active>>

\* The token verified, for the public key k and the expected audience.  The
\* callback does not ask whether the socket is still there.
PublisherVerified(c, k) ==
    /\ phase[c] = "verifying"
    /\ who' = [who EXCEPT ![c] = k]
    /\ tracked' = tracked \union {k}
    /\ phase' = [phase EXCEPT ![c] = "authorized"]
    /\ UNCHANGED <<rlVars, sock, active>>

\* Every callback(null, false) but the one for the limit: bad password,
\* username, key, token or audience, or an exception on the way.
LoginFails(c) ==
    /\ phase[c] = "verifying" \/ MayConnect(c)
    /\ phase' = [phase EXCEPT ![c] = "ended"]
    /\ UNCHANGED <<rlVars, sock, who, active, tracked>>

----------------------------------------------------------------------------
(* What Aedes does with an authenticated client.                           *)

Registered(id) == {c \in Conns : phase[c] = "registered" /\ idOf[c] = id}

\* 'client': Aedes enters the client under its id.  A client registered under
\* the same id is disconnected first (session takeover).
ClientRegistered(c) ==
    /\ phase[c] = "authorized"
    /\ Registered(idOf[c]) = {}
    /\ phase' = [phase EXCEPT ![c] = "registered"]
    /\ UNCHANGED <<rlVars, sock, who, active, tracked>>

\* Fault: the handler forgets the set of the subscriber.
ClientDisconnectKeepsSlot(c) ==
    /\ phase[c] = "registered"
    /\ phase' = [phase EXCEPT ![c] = "ended"]
    /\ UNCHANGED <<rlVars, sock, who, active, tracked>>

\* 'clientDisconnect': the end of the stream, a DISCONNECT packet, a missed
\* keep-alive, client.close() by authorizePublish, or a takeover.
ClientDisconnect(c) ==
    /\ phase[c] = "registered"
    /\ phase' = [phase EXCEPT ![c] = "ended"]
    /\ active' = [u \in Subscribers |->
                    IF who[c] = u THEN active[u] \ {idOf[c]} ELSE active[u]]
    /\ UNCHANGED <<rlVars, sock, who, tracked>>

\* Aedes notices that the socket closed before it registers the client: it
\* gives the client up, and there is no 'clientDisconnect' to hear of it.
DropUnregistered(c) ==
    /\ c \in Racing \/ who[c] \in Keys
    /\ phase[c] = "authorized" /\ sock[c] = "closed"
    /\ phase' = [phase EXCEPT ![c] = "ended"]
    /\ UNCHANGED <<rlVars, sock, who, active, tracked>>

ClockTick == Tick /\ UNCHANGED <<failedConnectionsByIP, sessionVars>>

----------------------------------------------------------------------------
Login(c) ==
    \/ \E u \in Subscribers : SubscriberLogin(c, u) \/ SubscriberOverLimit(c, u)
    \/ PublisherLogin(c)
    \/ \E k \in Keys : PublisherVerified(c, k)
    \/ LoginFails(c)

Next ==
    \/ \E c \in Conns :
          \/ Connection(c) \/ WsClose(c)
          \/ Login(c)
          \/ ClientRegistered(c) \/ ClientDisconnect(c) \/ DropUnregistered(c)
    \/ ClockTick

Spec == Init /\ [][Next]_vars

\* Another connection is waiting for the client id of c.
Superseded(c) == \E d \in Conns : phase[d] = "authorized" /\ idOf[d] = idOf[c]

(* Fairness: the promise of verifyAuthToken settles, Aedes goes on with an *)
(* authenticated client, and it disconnects a client whose socket closed   *)
(* or whose id was taken over.  Nothing makes a peer connect, log in or    *)
(* leave, and nothing makes Aedes give an authenticated client up.         *)
Fairness ==
    \A c \in Conns :
        /\ WF_vars(\/ \E k \in Keys : PublisherVerified(c, k)
                   \/ phase[c] = "verifying" /\ LoginFails(c))
        /\ WF_vars(ClientRegistered(c))
        /\ WF_vars(/\ sock[c] = "closed" \/ Superseded(c)
                   /\ ClientDisconnect(c))

FairSpec == Spec /\ Fairness

----------------------------------------------------------------------------
\* The connections through which u is logged in.
Sessions(u) == {c \in Conns : who[c] = u /\ phase[c] \in {"authorized", "registered"}}

(* A subscriber never has more clients connected than its maxConnections,  *)
(* if that is a number (server.ts:52; the code compares the limit with the *)
(* number of client ids it has recorded, 150-155, not with the clients).   *)
ClientsWithinLimit ==
    \A u \in Subscribers :
        maxConn[u] # NoLimit =>
            Cardinality({c \in Sessions(u) : phase[c] = "registered"}) <= maxConn[u]

(* The recorded client ids implement the quota: seen only as sessions that *)
(* begin and end, the broker is a ConnectionQuota.                         *)
Quota == INSTANCE ConnectionQuota WITH
            sessions <- [u \in Subscribers |-> Sessions(u)]
QuotaImplemented == Quota!Spec

(* No unrecorded session, and no phantom: the client ids recorded for a    *)
(* subscriber are those of its sessions, and at most those of Racing       *)
(* connections that Aedes gave up unannounced.                             *)
GivenUp(u) == {c \in Racing : who[c] = u /\ phase[c] = "ended"}
SlotsMatchSessions ==
    \A u \in Subscribers :
        /\ {idOf[c] : c \in Sessions(u)} \subseteq active[u]
        /\ active[u] \subseteq {idOf[c] : c \in Sessions(u) \union GivenUp(u)}

(* A slot comes back: once the socket of a logged-in subscriber has closed *)
(* its client id is eventually struck off, unless another connection of    *)
(* the subscriber has logged in with it.                                   *)
SlotsReleased ==
    \A c \in Conns \ Racing, u \in Subscribers :
        (who[c] = u /\ sock[c] = "closed") ~>
            \/ idOf[c] \notin active[u]
            \/ \E d \in Sessions(u) : idOf[d] = idOf[c] /\ sock[d] = "open"

(* Only failures are charged: the count of an address never exceeds the    *)
(* connections from it that closed without being a subscriber's session,   *)
(* or before Aedes saw their login.                                        *)
OnlyFailuresCharged ==
    \A ip \in IPs :
        failedConnectionsByIP[ip].count <=
            Cardinality({c \in Conns :
                            /\ ipOf[c] = ip /\ sock[c] = "closed"
                            /\ who[c] \notin Subscribers \/ c \in Racing})

(* Nothing but a straggler cuts a block short: a block that is lifted      *)
(* before its time is lifted by the close of a socket that was let in      *)
(* before the block and stayed, unauthenticated, until the failure window  *)
(* was over.                                                               *)
OnlyStragglersLiftBlocks ==
    [][\A ip \in IPs :
          Blocked(ip) /\ failedConnectionsByIP'[ip].blockedUntil
                            # failedConnectionsByIP[ip].blockedUntil =>
              /\ ExpiredAt(failedConnectionsByIP[ip], now)
              /\ \E c \in Conns :
                    /\ ipOf[c] = ip /\ who[c] = Nobody
                    /\ sock[c] = "open" /\ sock'[c] = "closed"]_vars

(* A block lasts: an address that is blocked stays blocked until its time  *)
(* is up ("Blocking IP ... for ...s", rate-limiter.ts:71-74).              *)
BlockServed ==
    [][\A ip \in IPs :
          Blocked(ip) =>
              \/ BlockedAt(failedConnectionsByIP'[ip], now')
              \/ now' >= failedConnectionsByIP[ip].blockedUntil]_vars

=============================================================================
