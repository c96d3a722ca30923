------------------------ MODULE BrokerSessionsProofs ------------------------
(***************************************************************************)
(* Proofs about BrokerSessions, for any number of connections, addresses,  *)
(* subscribers and publishers and any limits, whichever connections are     *)
(* Racing.  What needs client ids to be different says so.                 *)
(***************************************************************************)
EXTENDS BrokerSessions, FiniteSetTheorems, TLAPS

(* Every connection presents a client id of its own.                       *)
DistinctIds == \A c, d \in Conns : idOf[c] = idOf[d] => c = d

(* The recorded client ids of a subscriber, not the sessions themselves,   *)
(* are what the code counts.                                               *)
IdsWithinLimit ==
    \A u \in Subscribers :
        /\ IsFiniteSet(active[u])
        /\ maxConn[u] # NoLimit => Cardinality(active[u]) <= maxConn[u]

(* Every session has its client id recorded.                               *)
SessionsRecorded ==
    \A u \in Subscribers : \A c \in Sessions(u) : idOf[c] \in active[u]

(* The inductive invariant.                                                *)
IInv == TypeOK /\ IdsWithinLimit /\ SessionsRecorded

----------------------------------------------------------------------------
(* What the limiter makes of a record.                                     *)

(* The record isBlocked leaves is a record; so is that of recordFailure.   *)
LEMMA RecordTypes ==
    ASSUME NEW r \in RateLimitRecord, NEW t \in Nat
    PROVE  /\ AfterCheck(r, t) \in RateLimitRecord
           /\ AfterFailure(r, t) \in RateLimitRecord
  <1>1. NoRecord \in RateLimitRecord
    BY DEF NoRecord, RateLimitRecord
  <1>2. AfterCheck(r, t) \in RateLimitRecord
    BY <1>1 DEF AfterCheck
  <1>3. FirstFailureRecord(t) \in RateLimitRecord
    BY DEF FirstFailureRecord, RateLimitRecord
  <1>4. CountFailure(r, t) \in RateLimitRecord
    <2>1. r.count + 1 \in Nat /\ t + blockDurationMs \in Nat
      BY LimiterAssumption DEF RateLimitRecord
    <2> QED
      BY <2>1 DEF CountFailure, RateLimitRecord
  <1> QED
    BY <1>2, <1>3, <1>4 DEF AfterFailure

(* The two methods keep the limiter's variables well formed.               *)
LEMMA MethodTypes ==
    ASSUME RLTypeOK, NEW ip \in IPs
    PROVE  /\ IsBlocked(ip) => failedConnectionsByIP' \in [IPs -> RateLimitRecord]
           /\ RecordFailure(ip) => failedConnectionsByIP' \in [IPs -> RateLimitRecord]
  <1>1. /\ AfterCheck(failedConnectionsByIP[ip], now) \in RateLimitRecord
        /\ AfterFailure(failedConnectionsByIP[ip], now) \in RateLimitRecord
    BY RecordTypes DEF RLTypeOK
  <1> QED
    BY <1>1 DEF RLTypeOK, IsBlocked, RecordFailure

(* A record that blocks counts failures, and goes on doing so.             *)
LEMMA BlockMeansFailures ==
    ASSUME NEW r \in RateLimitRecord, NEW t \in Nat,
           r.count = 0 => r.blockedUntil = 0
    PROVE  /\ AfterCheck(r, t).count = 0 => AfterCheck(r, t).blockedUntil = 0
           /\ AfterFailure(r, t).count = 0 => AfterFailure(r, t).blockedUntil = 0
  <1>1. AfterCheck(r, t).count = 0 => AfterCheck(r, t).blockedUntil = 0
    BY DEF AfterCheck, NoRecord
  <1>2. FirstFailureRecord(t).count = 1
    BY DEF FirstFailureRecord
  <1>3. CountFailure(r, t).count # 0
    BY DEF CountFailure, RateLimitRecord
  <1> QED
    BY <1>1, <1>2, <1>3 DEF AfterFailure

(* While a record blocks, a check leaves it alone, and a failure within its*)
(* window leaves the block alone.                                          *)
LEMMA BlockIsKept ==
    ASSUME NEW r \in RateLimitRecord, NEW t \in Nat,
           r.count = 0 => r.blockedUntil = 0,
           BlockedAt(r, t)
    PROVE  /\ AfterCheck(r, t) = r
           /\ ~ExpiredAt(r, t) => AfterFailure(r, t).blockedUntil = r.blockedUntil
  <1>1. AfterCheck(r, t) = r
    BY DEF AfterCheck
  <1>2. r.count # 0 /\ r.blockedUntil # 0
    BY DEF BlockedAt
  <1>3. CountFailure(r, t).blockedUntil = r.blockedUntil
    BY <1>2 DEF CountFailure
  <1> QED
    BY <1>1, <1>2, <1>3 DEF AfterFailure

----------------------------------------------------------------------------
(* Every callback keeps the variables well formed, the limiter's included. *)
LEMMA TypeStep == TypeOK /\ [Next]_vars => TypeOK'
  <1> SUFFICES ASSUME TypeOK, [Next]_vars
               PROVE  TypeOK'
    OBVIOUS
  <1> USE DEF TypeOK
  <1>1. ASSUME NEW c \in Conns, Connection(c)
        PROVE  TypeOK'
    <2>1. ipOf[c] \in IPs
      BY SessionsAssumption
    <2>2. RLTypeOK'
      BY <1>1, <2>1, MethodTypes DEF Connection, RLTypeOK
    <2> QED
      BY <1>1, <2>2 DEF Connection
  <1>2. ASSUME NEW c \in Conns, WsClose(c)
        PROVE  TypeOK'
    <2>1. ipOf[c] \in IPs
      BY SessionsAssumption
    <2>2. RLTypeOK'
      BY <1>2, <2>1, MethodTypes DEF WsClose, RLTypeOK
    <2> QED
      BY <1>2, <2>2 DEF WsClose
  <1>3. ASSUME NEW c \in Conns, NEW u \in Subscribers, SubscriberLogin(c, u)
        PROVE  TypeOK'
    BY <1>3 DEF SubscriberLogin, RLTypeOK, rlVars
  <1>4. ASSUME NEW c \in Conns, NEW u \in Subscribers, SubscriberOverLimit(c, u)
        PROVE  TypeOK'
    BY <1>4 DEF SubscriberOverLimit, RLTypeOK, rlVars
  <1>5. ASSUME NEW c \in Conns, PublisherLogin(c)
        PROVE  TypeOK'
    BY <1>5 DEF PublisherLogin, RLTypeOK, rlVars
  <1>6. ASSUME NEW c \in Conns, NEW k \in Keys, PublisherVerified(c, k)
        PROVE  TypeOK'
    BY <1>6 DEF PublisherVerified, RLTypeOK, rlVars
  <1>7. ASSUME NEW c \in Conns, LoginFails(c)
        PROVE  TypeOK'
    BY <1>7 DEF LoginFails, RLTypeOK, rlVars
  <1>8. ASSUME NEW c \in Conns, ClientRegistered(c)
        PROVE  TypeOK'
    BY <1>8 DEF ClientRegistered, RLTypeOK, rlVars
  <1>9. ASSUME NEW c \in Conns, ClientDisconnect(c)
        PROVE  TypeOK'
    BY <1>9 DEF ClientDisconnect, RLTypeOK, rlVars
  <1>10. ASSUME NEW c \in Conns, DropUnregistered(c)
         PROVE  TypeOK'
    BY <1>10 DEF DropUnregistered, RLTypeOK, rlVars
  <1>11. ASSUME ClockTick
         PROVE  TypeOK'
    BY <1>11 DEF ClockTick, Tick, sessionVars, RLTypeOK
  <1>12. CASE UNCHANGED vars
    BY <1>12 DEF vars, rlVars, sessionVars, RLTypeOK
  <1> QED
    BY <1>1, <1>2, <1>3, <1>4, <1>5, <1>6, <1>7, <1>8, <1>9, <1>10, <1>11,
       <1>12 DEF Next, Login

(* The broker starts with well-formed, empty state.                        *)
LEMMA TypeInit == Init => TypeOK
  BY DEF Init, TypeOK, RLTypeOK, RateLimitRecord, NoRecord

(* Type correctness of the broker (server.ts:136-249, 742-963): phases,    *)
(* owners, recorded ids and limiter records are always well formed.        *)
THEOREM TypeCorrect == Spec => []TypeOK
  <1> QED
    BY TypeInit, TypeStep, PTL DEF Spec

----------------------------------------------------------------------------
(* Which steps touch what is recorded: only the login and the disconnect of*)
(* a subscriber.                                                           *)
LEMMA OthersKeepIds ==
    ASSUME [Next]_vars,
           ~\E c \in Conns, u \in Subscribers : SubscriberLogin(c, u),
           ~\E c \in Conns : ClientDisconnect(c)
    PROVE  UNCHANGED active
  BY DEF Next, Login, Connection, WsClose, SubscriberOverLimit, PublisherLogin,
     PublisherVerified, LoginFails, ClientRegistered, DropUnregistered,
     ClockTick, vars, sessionVars

(* No step but a login passes the limit, and a login adds one id to a set  *)
(* that is below it.                                                       *)
LEMMA LimitStep == TypeOK /\ IdsWithinLimit /\ [Next]_vars => IdsWithinLimit'
  <1> SUFFICES ASSUME TypeOK, IdsWithinLimit, [Next]_vars, NEW u \in Subscribers
               PROVE  /\ IsFiniteSet(active'[u])
                      /\ maxConn[u] # NoLimit =>
                            Cardinality(active'[u]) <= maxConn[u]
    BY DEF IdsWithinLimit
  <1>1. /\ IsFiniteSet(active[u])
        /\ maxConn[u] # NoLimit => Cardinality(active[u]) <= maxConn[u]
        /\ Cardinality(active[u]) \in Nat
        /\ maxConn[u] # NoLimit => maxConn[u] \in Nat
    BY FS_CardinalityType, SessionsAssumption DEF IdsWithinLimit
  <1>2. ASSUME NEW c \in Conns, NEW v \in Subscribers, SubscriberLogin(c, v)
        PROVE  /\ IsFiniteSet(active'[u])
               /\ maxConn[u] # NoLimit => Cardinality(active'[u]) <= maxConn[u]
    <2>1. CASE u = v
      <3>1. active'[u] = active[u] \cup {idOf[c]}
        BY <1>2, <2>1 DEF SubscriberLogin, TypeOK
      <3>2. maxConn[u] # NoLimit => Cardinality(active[u]) < maxConn[u]
        BY <1>1, <1>2, <2>1 DEF SubscriberLogin, Full
      <3>3. /\ IsFiniteSet(active[u] \cup {idOf[c]})
            /\ \/ Cardinality(active[u] \cup {idOf[c]}) = Cardinality(active[u])
               \/ Cardinality(active[u] \cup {idOf[c]}) = Cardinality(active[u]) + 1
        BY <1>1, FS_AddElement
      <3> QED
        BY <1>1, <3>1, <3>2, <3>3
    <2>2. CASE u # v
      BY <1>1, <1>2, <2>2 DEF SubscriberLogin, TypeOK
    <2> QED
      BY <2>1, <2>2
  <1>3. ASSUME NEW c \in Conns, ClientDisconnect(c)
        PROVE  /\ IsFiniteSet(active'[u])
               /\ maxConn[u] # NoLimit => Cardinality(active'[u]) <= maxConn[u]
    <2>1. active'[u] \in SUBSET active[u]
      BY <1>3 DEF ClientDisconnect, TypeOK
    <2>2. /\ IsFiniteSet(active'[u])
          /\ Cardinality(active'[u]) <= Cardinality(active[u])
          /\ Cardinality(active'[u]) \in Nat
      BY <1>1, <2>1, FS_Subset, FS_CardinalityType
    <2> QED
      BY <1>1, <2>2
  <1> QED
    BY <1>1, <1>2, <1>3, OthersKeepIds

----------------------------------------------------------------------------
(* A login adds the connection to the sessions of its subscriber.          *)
LEMMA LoginAddsSession ==
    ASSUME TypeOK, NEW c \in Conns, NEW u \in Subscribers, SubscriberLogin(c, u)
    PROVE  /\ \A v \in Subscribers : c \notin Sessions(v)
           /\ Sessions(u)' = Sessions(u) \cup {c}
           /\ \A v \in Subscribers \ {u} : Sessions(v)' = Sessions(v)
  BY DEF SubscriberLogin, MayConnect, Sessions, TypeOK

(* A disconnect or a drop takes the connection from its owner's sessions.  *)
LEMMA EndTakesSession ==
    ASSUME TypeOK, NEW c \in Conns, ClientDisconnect(c) \/ DropUnregistered(c)
    PROVE  /\ \A u \in Subscribers : Sessions(u)' = Sessions(u) \ {c}
           /\ \A u \in Subscribers : c \in Sessions(u) <=> who[c] = u
  BY DEF ClientDisconnect, DropUnregistered, Sessions, TypeOK

(* Nothing else changes the sessions of a subscriber: a publisher's token  *)
(* verifies into a key, and no key is a subscriber.                        *)
LEMMA OthersKeepSessions ==
    ASSUME TypeOK, [Next]_vars,
           ~\E c \in Conns, u \in Subscribers : SubscriberLogin(c, u),
           ~\E c \in Conns : ClientDisconnect(c) \/ DropUnregistered(c)
    PROVE  \A u \in Subscribers : Sessions(u)' = Sessions(u)
  <1> USE DEF Sessions, TypeOK
  <1>1. ASSUME NEW c \in Conns,
               \/ Connection(c) \/ WsClose(c) \/ PublisherLogin(c)
               \/ LoginFails(c) \/ ClientRegistered(c)
               \/ \E u \in Subscribers : SubscriberOverLimit(c, u)
        PROVE  \A u \in Subscribers : Sessions(u)' = Sessions(u)
    BY <1>1 DEF Connection, WsClose, PublisherLogin, LoginFails,
       ClientRegistered, SubscriberOverLimit, MayConnect
  <1>2. ASSUME NEW c \in Conns, NEW k \in Keys, PublisherVerified(c, k)
        PROVE  \A u \in Subscribers : Sessions(u)' = Sessions(u)
    BY <1>2, SessionsAssumption DEF PublisherVerified
  <1>3. CASE ClockTick \/ UNCHANGED vars
    BY <1>3 DEF ClockTick, vars, sessionVars
  <1> QED
    BY <1>1, <1>2, <1>3 DEF Next, Login

(* With ids of their own, a session that ends strikes off no other's id.   *)
LEMMA RecordedStep ==
    ASSUME DistinctIds
    PROVE  TypeOK /\ SessionsRecorded /\ [Next]_vars => SessionsRecorded'
  <1> SUFFICES ASSUME TypeOK, SessionsRecorded, [Next]_vars,
                      NEW u \in Subscribers, NEW d \in Conns, d \in Sessions(u)'
               PROVE  idOf[d] \in active'[u]
    BY DEF SessionsRecorded, Sessions
  <1>1. ASSUME NEW c \in Conns, NEW v \in Subscribers, SubscriberLogin(c, v)
        PROVE  idOf[d] \in active'[u]
    <2>1. active' = [active EXCEPT ![v] = @ \union {idOf[c]}]
      BY <1>1 DEF SubscriberLogin
    <2>2. d \in Sessions(u) \/ (u = v /\ d = c)
      BY <1>1, LoginAddsSession
    <2> QED
      BY <2>1, <2>2 DEF SessionsRecorded, TypeOK
  <1>2. ASSUME NEW c \in Conns, ClientDisconnect(c)
        PROVE  idOf[d] \in active'[u]
    <2>1. d \in Sessions(u) /\ d # c
      BY <1>2, EndTakesSession
    <2>2. idOf[d] \in active[u] /\ idOf[d] # idOf[c]
      BY <2>1 DEF SessionsRecorded, DistinctIds
    <2> QED
      BY <1>2, <2>2 DEF ClientDisconnect
  <1>3. ASSUME NEW c \in Conns, DropUnregistered(c)
        PROVE  idOf[d] \in active'[u]
    <2>1. d \in Sessions(u)
      BY <1>3, EndTakesSession
    <2> QED
      BY <1>3, <2>1 DEF SessionsRecorded, DropUnregistered
  <1>4. CASE /\ ~\E c \in Conns, v \in Subscribers : SubscriberLogin(c, v)
             /\ ~\E c \in Conns : ClientDisconnect(c) \/ DropUnregistered(c)
    <2>1. Sessions(u)' = Sessions(u) /\ active' = active
      BY <1>4, OthersKeepSessions, OthersKeepIds
    <2> QED
      BY <2>1 DEF SessionsRecorded
  <1> QED
    BY <1>1, <1>2, <1>3, <1>4

(* The inductive invariant holds at first, and every step keeps it.        *)
LEMMA InvInit == Init => IInv
  <1> SUFFICES ASSUME Init
               PROVE  IdsWithinLimit /\ SessionsRecorded
    BY TypeInit DEF IInv
  <1>1. IdsWithinLimit
    BY FS_EmptySet, SessionsAssumption DEF Init, IdsWithinLimit
  <1>2. SessionsRecorded
    BY DEF Init, SessionsRecorded, Sessions
  <1> QED
    BY <1>1, <1>2

(* ... every step, if client ids are different.                            *)
LEMMA InvStep == DistinctIds => (IInv /\ [Next]_vars => IInv')
  BY TypeStep, LimitStep, RecordedStep DEF IInv

----------------------------------------------------------------------------
(* No more sessions than recorded ids.                                     *)
LEMMA SessionsCounted ==
    ASSUME DistinctIds, IInv, NEW u \in Subscribers
    PROVE  /\ IsFiniteSet(Sessions(u))
           /\ Cardinality(Sessions(u)) \in Nat
           /\ Cardinality(Sessions(u)) <= Cardinality(active[u])
           /\ Cardinality(active[u]) \in Nat
  <1> DEFINE id == [c \in Sessions(u) |-> idOf[c]]
  <1>1. IsFiniteSet(active[u])
    BY DEF IInv, IdsWithinLimit
  <1>2. id \in [Sessions(u) -> active[u]]
    BY DEF IInv, SessionsRecorded
  <1>3. id \in Injection(Sessions(u), active[u])
    <2>1. \A c, d \in Sessions(u) : id[c] = id[d] => c = d
      BY DEF DistinctIds, Sessions
    <2> QED
      BY <1>2, <2>1 DEF Injection, IsInjective
  <1> HIDE DEF id
  <1>4. /\ IsFiniteSet(Sessions(u))
        /\ Cardinality(Sessions(u)) <= Cardinality(active[u])
    BY <1>1, <1>3, FS_Injection
  <1> QED
    BY <1>1, <1>4, FS_CardinalityType

(* A subscriber never has more clients than its limit, as long as no two   *)
(* connections present the same client id (ClientsWithinLimit).            *)
THEOREM LimitHolds == DistinctIds => (Spec => []ClientsWithinLimit)
  <1> SUFFICES ASSUME DistinctIds
               PROVE  Spec => []ClientsWithinLimit
    OBVIOUS
  <1>1. Init => IInv
    BY InvInit
  <1>2. IInv /\ [Next]_vars => IInv'
    BY InvStep
  <1>3. IInv => ClientsWithinLimit
    <2> SUFFICES ASSUME IInv, NEW u \in Subscribers, maxConn[u] # NoLimit
                 PROVE  Cardinality({c \in Sessions(u) : phase[c] = "registered"})
                            <= maxConn[u]
      BY DEF ClientsWithinLimit
    <2> DEFINE clients == {c \in Sessions(u) : phase[c] = "registered"}
    <2>1. clients \in SUBSET Sessions(u)
      OBVIOUS
    <2>2. /\ IsFiniteSet(clients)
          /\ Cardinality(clients) <= Cardinality(Sessions(u))
      BY <2>1, SessionsCounted, FS_Subset
    <2>3. Cardinality(clients) \in Nat
      BY <2>2, FS_CardinalityType
    <2>4. Cardinality(active[u]) <= maxConn[u] /\ maxConn[u] \in Nat
      BY SessionsAssumption DEF IInv, IdsWithinLimit
    <2> HIDE DEF clients
    <2>5. Cardinality(clients) <= maxConn[u]
      BY <2>2, <2>3, <2>4, SessionsCounted
    <2> QED
      BY <2>5 DEF clients
  <1> QED
    BY <1>1, <1>2, <1>3, PTL DEF Spec

(* Every step of the broker is, for its sessions, a step of the quota: a   *)
(* session begins below the limit, one ends, or none changes.              *)
LEMMA QuotaStep ==
    ASSUME DistinctIds, IInv, [Next]_vars
    PROVE  [Quota!Next]_([u \in Subscribers |-> Sessions(u)])
  <1> DEFINE S == [u \in Subscribers |-> Sessions(u)]
  <1>0. TypeOK
    BY DEF IInv
  <1>1. ASSUME NEW c \in Conns, NEW u \in Subscribers, SubscriberLogin(c, u)
        PROVE  Quota!Admit(u, c)
    <2>1. /\ \A v \in Subscribers : c \notin Sessions(v)
          /\ Sessions(u)' = Sessions(u) \cup {c}
          /\ \A v \in Subscribers \ {u} : Sessions(v)' = Sessions(v)
      BY <1>0, <1>1, LoginAddsSession
    <2>2. maxConn[u] # NoLimit => Cardinality(Sessions(u)) < maxConn[u]
      <3>1. SUFFICES ASSUME maxConn[u] # NoLimit
                     PROVE  Cardinality(Sessions(u)) < maxConn[u]
        OBVIOUS
      <3>2. /\ maxConn[u] \in Nat
            /\ Cardinality(active[u]) \in Nat
            /\ ~(Cardinality(active[u]) >= maxConn[u])
        BY <1>1, <3>1, SessionsAssumption, SessionsCounted DEF SubscriberLogin, Full
      <3> QED
        BY <3>2, SessionsCounted
    <2>3. Quota!Cardinality(Sessions(u)) = Cardinality(Sessions(u))
      BY DEF Quota!Cardinality, Cardinality
    <2> QED
      BY <2>1, <2>2, <2>3 DEF Quota!Admit
  <1>2. ASSUME NEW c \in Conns, ClientDisconnect(c) \/ DropUnregistered(c)
        PROVE  \/ \E u \in Subscribers : Quota!Leave(u, c)
               \/ UNCHANGED S
    <2>1. /\ \A u \in Subscribers : Sessions(u)' = Sessions(u) \ {c}
          /\ \A u \in Subscribers : c \in Sessions(u) <=> who[c] = u
      BY <1>0, <1>2, EndTakesSession
    <2>2. CASE who[c] \in Subscribers
      <3>1. PICK u \in Subscribers : who[c] = u
        BY <2>2
      <3>2. c \in Sessions(u) /\ \A v \in Subscribers \ {u} : c \notin Sessions(v)
        BY <2>1, <3>1
      <3>3. \A v \in Subscribers \ {u} : Sessions(v)' = Sessions(v)
        BY <2>1, <3>2
      <3>4. Quota!Leave(u, c)
        BY <2>1, <3>2, <3>3 DEF Quota!Leave
      <3> QED
        BY <3>4
    <2>3. CASE who[c] \notin Subscribers
      BY <2>1, <2>3
    <2> QED
      BY <2>2, <2>3
  <1>3. CASE /\ ~\E c \in Conns, u \in Subscribers : SubscriberLogin(c, u)
             /\ ~\E c \in Conns : ClientDisconnect(c) \/ DropUnregistered(c)
    <2>1. \A u \in Subscribers : Sessions(u)' = Sessions(u)
      BY <1>0, <1>3, OthersKeepSessions
    <2>2. UNCHANGED S
      BY <2>1
    <2> QED
      BY <2>2
  <1> QED
    BY <1>1, <1>2, <1>3 DEF Quota!Next

(* With client ids of their own, the recorded ids implement the quota      *)
(* (QuotaImplemented): initial states and steps map to those of            *)
(* ConnectionQuota.                                                        *)
THEOREM QuotaIsImplemented == DistinctIds => (Spec => QuotaImplemented)
  <1> SUFFICES ASSUME DistinctIds
               PROVE  Spec => QuotaImplemented
    OBVIOUS
  <1>1. Init => IInv
    BY InvInit
  <1>2. IInv /\ [Next]_vars => IInv'
    BY InvStep
  <1>3. Init => Quota!Init
    BY DEF Init, Quota!Init, Sessions
  <1>4. IInv /\ [Next]_vars
            => [Quota!Next]_([u \in Subscribers |-> Sessions(u)])
    BY QuotaStep
  <1> QED
    BY <1>1, <1>2, <1>3, <1>4, PTL DEF Spec, QuotaImplemented, Quota!Spec

----------------------------------------------------------------------------
(* A record that blocks counts failures.                                   *)
BlocksCount ==
    \A ip \in IPs : failedConnectionsByIP[ip].count = 0 =>
                        failedConnectionsByIP[ip].blockedUntil = 0

(* The only steps that touch the limiter: the question about a connection  *)
(* and the close of a socket that has not authenticated.                   *)
LEMMA LimiterSteps ==
    ASSUME [Next]_vars
    PROVE  \/ UNCHANGED failedConnectionsByIP
           \/ \E c \in Conns : Connection(c) /\ IsBlocked(ipOf[c])
           \/ \E c \in Conns : /\ WsClose(c) /\ RecordFailure(ipOf[c])
                               /\ who[c] = Nobody /\ sock[c] = "open"
  BY DEF Next, Login, Connection, WsClose, SubscriberLogin, SubscriberOverLimit,
     PublisherLogin, PublisherVerified, LoginFails, ClientRegistered,
     ClientDisconnect, DropUnregistered, ClockTick, vars, rlVars

(* No step leaves a block in a record that counts nothing.                 *)
LEMMA BlocksCountStep == TypeOK /\ BlocksCount /\ [Next]_vars => BlocksCount'
  <1> SUFFICES ASSUME TypeOK, BlocksCount, [Next]_vars, NEW ip \in IPs,
                      failedConnectionsByIP'[ip].count = 0
               PROVE  failedConnectionsByIP'[ip].blockedUntil = 0
    BY DEF BlocksCount
  <1> DEFINE r == failedConnectionsByIP[ip]
  <1>1. /\ r \in RateLimitRecord /\ now \in Nat
        /\ r.count = 0 => r.blockedUntil = 0
        /\ failedConnectionsByIP \in [IPs -> RateLimitRecord]
    BY DEF TypeOK, RLTypeOK, BlocksCount
  <1>2. failedConnectionsByIP'[ip] \in {r, AfterCheck(r, now), AfterFailure(r, now)}
    BY <1>1, LimiterSteps DEF IsBlocked, RecordFailure
  <1> QED
    BY <1>1, <1>2, BlockMeansFailures

(* Only a straggler lifts a block before its time                          *)
(* (OnlyStragglersLiftBlocks).                                             *)
THEOREM StragglersOnly == Spec => OnlyStragglersLiftBlocks
  <1>1. Init => TypeOK /\ BlocksCount
    BY TypeInit DEF Init, BlocksCount, NoRecord
  <1>2. TypeOK /\ BlocksCount /\ [Next]_vars => (TypeOK /\ BlocksCount)'
    BY TypeStep, BlocksCountStep
  <1>3. ASSUME TypeOK, BlocksCount, [Next]_vars, NEW ip \in IPs, Blocked(ip),
               failedConnectionsByIP'[ip].blockedUntil
                   # failedConnectionsByIP[ip].blockedUntil
        PROVE  /\ ExpiredAt(failedConnectionsByIP[ip], now)
               /\ \E c \in Conns : /\ ipOf[c] = ip /\ who[c] = Nobody
                                   /\ sock[c] = "open" /\ sock'[c] = "closed"
    <2> DEFINE r == failedConnectionsByIP[ip]
    <2>1. /\ r \in RateLimitRecord /\ now \in Nat /\ BlockedAt(r, now)
          /\ r.count = 0 => r.blockedUntil = 0
          /\ failedConnectionsByIP \in [IPs -> RateLimitRecord]
      BY <1>3 DEF TypeOK, RLTypeOK, BlocksCount, Blocked
    <2>2. /\ AfterCheck(r, now) = r
          /\ ~ExpiredAt(r, now) => AfterFailure(r, now).blockedUntil = r.blockedUntil
      BY <2>1, BlockIsKept
    <2>3. PICK c \in Conns : /\ WsClose(c) /\ RecordFailure(ipOf[c])
                             /\ who[c] = Nobody /\ sock[c] = "open"
      BY <1>3, <2>1, <2>2, LimiterSteps DEF IsBlocked
    <2>4. ipOf[c] = ip /\ failedConnectionsByIP'[ip] = AfterFailure(r, now)
      BY <1>3, <2>1, <2>3 DEF RecordFailure
    <2>5. sock'[c] = "closed"
      BY <1>3, <2>3 DEF WsClose, TypeOK
    <2> QED
      BY <1>3, <2>2, <2>3, <2>4, <2>5
  <1>4. TypeOK /\ BlocksCount /\ [Next]_vars =>
            [\A ip \in IPs :
                Blocked(ip) /\ failedConnectionsByIP'[ip].blockedUntil
                                  # failedConnectionsByIP[ip].blockedUntil =>
                    /\ ExpiredAt(failedConnectionsByIP[ip], now)
                    /\ \E c \in Conns : /\ ipOf[c] = ip /\ who[c] = Nobody
                                        /\ sock[c] = "open" /\ sock'[c] = "closed"]_vars
    BY <1>3
  <1> QED
    BY <1>1, <1>2, <1>4, PTL DEF Spec, OnlyStragglersLiftBlocks

----------------------------------------------------------------------------
(* Every recorded client id is that of a session, or of a Racing connection*)
(* that Aedes gave up: the other half of SlotsMatchSessions.               *)
IdsExplained ==
    \A u \in Subscribers : \A id \in active[u] :
        \E c \in Sessions(u) \union GivenUp(u) : idOf[c] = id

(* What Aedes gave up stays given up.                                      *)
LEMMA GivenUpStays ==
    ASSUME TypeOK, [Next]_vars
    PROVE  \A u \in Subscribers : GivenUp(u) \subseteq GivenUp(u)'
  <1>1. ASSUME NEW c \in Conns, phase[c] = "ended"
        PROVE  phase'[c] = "ended" /\ who'[c] = who[c]
    BY <1>1 DEF TypeOK, Next, Login, Connection, WsClose, SubscriberLogin,
       SubscriberOverLimit, PublisherLogin, PublisherVerified, LoginFails, MayConnect,
       ClientRegistered, ClientDisconnect, DropUnregistered, ClockTick, vars, sessionVars
  <1> QED
    BY <1>1, SessionsAssumption DEF GivenUp

LEMMA ExplainedStep == TypeOK /\ IdsExplained /\ [Next]_vars => IdsExplained'
  <1> SUFFICES ASSUME TypeOK, IdsExplained, [Next]_vars,
                      NEW u \in Subscribers, NEW id \in active'[u]
               PROVE  \E d \in Sessions(u)' \union GivenUp(u)' : idOf[d] = id
    BY DEF IdsExplained
  <1>0. GivenUp(u) \subseteq GivenUp(u)'
    BY GivenUpStays
  <1>1. ASSUME NEW c \in Conns, NEW v \in Subscribers, SubscriberLogin(c, v)
        PROVE  \E d \in Sessions(u)' \union GivenUp(u)' : idOf[d] = id
    <2>1. id \in active[u] \/ (u = v /\ id = idOf[c])
      BY <1>1 DEF SubscriberLogin, TypeOK
    <2>2. Sessions(u) \subseteq Sessions(u)' /\ c \in Sessions(v)'
      BY <1>1, LoginAddsSession
    <2> QED
      BY <1>0, <2>1, <2>2 DEF IdsExplained
  <1>2. ASSUME NEW c \in Conns, ClientDisconnect(c)
        PROVE  \E d \in Sessions(u)' \union GivenUp(u)' : idOf[d] = id
    <2>1. id \in active[u] /\ (who[c] = u => id # idOf[c])
      BY <1>2 DEF ClientDisconnect
    <2>2. Sessions(u)' = Sessions(u) \ {c} /\ (c \in Sessions(u) <=> who[c] = u)
      BY <1>2, EndTakesSession
    <2>3. PICK d \in Sessions(u) \union GivenUp(u) : idOf[d] = id
      BY <2>1 DEF IdsExplained
    <2> QED
      BY <1>0, <2>1, <2>2, <2>3
  <1>3. ASSUME NEW c \in Conns, DropUnregistered(c)
        PROVE  \E d \in Sessions(u)' \union GivenUp(u)' : idOf[d] = id
    <2>1. id \in active[u]
      BY <1>3 DEF DropUnregistered
    <2>2. Sessions(u)' = Sessions(u) \ {c}
      BY <1>3, EndTakesSession
    <2>3. who[c] = u => c \in GivenUp(u)'
      BY <1>3, SessionsAssumption DEF DropUnregistered, GivenUp, TypeOK
    <2>4. who[c] # u => c \notin Sessions(u)
      BY DEF Sessions
    <2>5. PICK d \in Sessions(u) \union GivenUp(u) : idOf[d] = id
      BY <2>1 DEF IdsExplained
    <2> QED
      BY <1>0, <2>2, <2>3, <2>4, <2>5
  <1>4. CASE /\ ~\E c \in Conns, v \in Subscribers : SubscriberLogin(c, v)
             /\ ~\E c \in Conns : ClientDisconnect(c) \/ DropUnregistered(c)
    <2>1. Sessions(u)' = Sessions(u) /\ active' = active
      BY <1>4, OthersKeepSessions, OthersKeepIds
    <2> QED
      BY <1>0, <2>1 DEF IdsExplained
  <1> QED
    BY <1>1, <1>2, <1>3, <1>4

(* With client ids of their own, the recorded ids are those of the sessions*)
(* and at most those of Racing connections Aedes gave up unannounced       *)
(* (SlotsMatchSessions, server.ts:150-171, 782-793).                       *)
THEOREM SlotsAreSessions == DistinctIds => (Spec => []SlotsMatchSessions)
  <1> SUFFICES ASSUME DistinctIds
               PROVE  Spec => []SlotsMatchSessions
    OBVIOUS
  <1>1. Init => IInv /\ IdsExplained
    BY InvInit DEF Init, IdsExplained
  <1>2. IInv /\ IdsExplained /\ [Next]_vars => (IInv /\ IdsExplained)'
    BY InvStep, ExplainedStep DEF IInv
  <1>3. IInv /\ IdsExplained => SlotsMatchSessions
    BY DEF IInv, SessionsRecorded, IdsExplained, SlotsMatchSessions
  <1> QED
    BY <1>1, <1>2, <1>3, PTL DEF Spec

----------------------------------------------------------------------------
(* The connections whose close may be charged to an address.               *)
Chargeable(ip) ==
    {c \in Conns : /\ ipOf[c] = ip /\ sock[c] = "closed"
                   /\ who[c] \notin Subscribers \/ c \in Racing}

(* A connection that has not come yet has no socket.                       *)
IdleUnopened == \A c \in Conns : phase[c] = "idle" => sock[c] = "none"

(* OnlyFailuresCharged, with what it takes to count.                       *)
ChargesCounted ==
    \A ip \in IPs : /\ IsFiniteSet(Chargeable(ip))
                    /\ failedConnectionsByIP[ip].count <= Cardinality(Chargeable(ip))

LEMMA IdleStep == TypeOK /\ IdleUnopened /\ [Next]_vars => IdleUnopened'
  <1> SUFFICES ASSUME TypeOK, IdleUnopened, [Next]_vars,
                      NEW d \in Conns, phase'[d] = "idle"
               PROVE  sock'[d] = "none"
    BY DEF IdleUnopened
  <1> USE DEF TypeOK, IdleUnopened
  <1>1. ASSUME NEW c \in Conns, Connection(c) \/ WsClose(c)
        PROVE  sock'[d] = "none"
    BY <1>1 DEF Connection, WsClose
  <1>2. ASSUME NEW c \in Conns,
               \/ Login(c)
               \/ ClientRegistered(c) \/ ClientDisconnect(c) \/ DropUnregistered(c)
        PROVE  sock'[d] = "none"
    BY <1>2 DEF Login, SubscriberLogin, SubscriberOverLimit, PublisherLogin,
       PublisherVerified, LoginFails, ClientRegistered, ClientDisconnect, DropUnregistered
  <1>3. CASE ClockTick \/ UNCHANGED vars
    BY <1>3 DEF ClockTick, vars, sessionVars
  <1> QED
    BY <1>1, <1>2, <1>3 DEF Next

(* A close adds to them the connection that closed, if it has no owner or  *)
(* a publisher; no other step changes them, a login included: who logs in  *)
(* with its socket closed is Racing.                                       *)
LEMMA ChargeableStep ==
    ASSUME TypeOK, IdleUnopened, [Next]_vars, NEW ip \in IPs
    PROVE  /\ \/ Chargeable(ip)' = Chargeable(ip)
              \/ \E c \in Conns : Chargeable(ip)' = Chargeable(ip) \union {c}
           /\ \A c \in Conns : WsClose(c) /\ who[c] = Nobody /\ ipOf[c] = ip =>
                /\ c \notin Chargeable(ip)
                /\ Chargeable(ip)' = Chargeable(ip) \union {c}
  <1> USE DEF Chargeable, TypeOK
  <1>1. ASSUME NEW c \in Conns, WsClose(c)
        PROVE  /\ \/ Chargeable(ip)' = Chargeable(ip)
                  \/ Chargeable(ip)' = Chargeable(ip) \union {c}
               /\ who[c] = Nobody /\ ipOf[c] = ip =>
                    /\ c \notin Chargeable(ip)
                    /\ Chargeable(ip)' = Chargeable(ip) \union {c}
    <2>1. /\ sock[c] = "open" /\ who' = who
          /\ sock' = [sock EXCEPT ![c] = "closed"]
      BY <1>1 DEF WsClose
    <2>2. CASE ipOf[c] = ip /\ (who[c] \notin Subscribers \/ c \in Racing)
      BY <2>1, <2>2, SessionsAssumption
    <2>3. CASE ~(ipOf[c] = ip /\ (who[c] \notin Subscribers \/ c \in Racing))
      BY <2>1, <2>3, SessionsAssumption
    <2> QED
      BY <2>2, <2>3
  <1>2. ASSUME NEW c \in Conns, NEW u \in Subscribers, SubscriberLogin(c, u)
        PROVE  Chargeable(ip)' = Chargeable(ip)
    BY <1>2 DEF SubscriberLogin, MayConnect
  <1>3. ASSUME NEW c \in Conns, NEW k \in Keys, PublisherVerified(c, k)
        PROVE  \/ Chargeable(ip)' = Chargeable(ip)
               \/ Chargeable(ip)' = Chargeable(ip) \union {c}
    BY <1>3, SessionsAssumption DEF PublisherVerified
  <1>4. ASSUME NEW c \in Conns, Connection(c)
        PROVE  Chargeable(ip)' = Chargeable(ip)
    BY <1>4 DEF Connection, IdleUnopened
  <1>5. ASSUME NEW c \in Conns,
               \/ PublisherLogin(c) \/ LoginFails(c) \/ ClientRegistered(c)
               \/ ClientDisconnect(c) \/ DropUnregistered(c)
               \/ \E u \in Subscribers : SubscriberOverLimit(c, u)
        PROVE  Chargeable(ip)' = Chargeable(ip)
    BY <1>5 DEF PublisherLogin, LoginFails, ClientRegistered, ClientDisconnect,
       DropUnregistered, SubscriberOverLimit
  <1>6. ASSUME ClockTick \/ UNCHANGED vars
        PROVE  Chargeable(ip)' = Chargeable(ip)
    BY <1>6 DEF ClockTick, vars, sessionVars
  <1> HIDE DEF Chargeable, TypeOK
  <1>7. \/ Chargeable(ip)' = Chargeable(ip)
        \/ \E c \in Conns : Chargeable(ip)' = Chargeable(ip) \union {c}
    BY <1>1, <1>2, <1>3, <1>4, <1>5, <1>6 DEF Next, Login
  <1> QED
    BY <1>1, <1>7

(* A failure counts one more at most, a question none.                     *)
LEMMA CountsOneMore ==
    ASSUME NEW r \in RateLimitRecord, NEW t \in Nat
    PROVE  /\ AfterFailure(r, t).count <= r.count + 1
           /\ AfterCheck(r, t).count <= r.count
  BY DEF AfterFailure, AfterCheck, FirstFailureRecord, CountFailure, NoRecord,
     RateLimitRecord

LEMMA ChargesStep ==
    TypeOK /\ IdleUnopened /\ ChargesCounted /\ [Next]_vars => ChargesCounted'
  <1> SUFFICES ASSUME TypeOK, IdleUnopened, ChargesCounted, [Next]_vars, NEW ip \in IPs
               PROVE  /\ IsFiniteSet(Chargeable(ip)')
                      /\ failedConnectionsByIP'[ip].count <= Cardinality(Chargeable(ip)')
    BY DEF ChargesCounted
  <1> DEFINE r == failedConnectionsByIP[ip]
             n == Cardinality(Chargeable(ip))
  <1>1. /\ IsFiniteSet(Chargeable(ip)) /\ n \in Nat /\ r.count <= n
        /\ r \in RateLimitRecord /\ r.count \in Nat /\ now \in Nat
        /\ failedConnectionsByIP \in [IPs -> RateLimitRecord]
    BY FS_CardinalityType DEF ChargesCounted, TypeOK, RLTypeOK, RateLimitRecord
  <1>2. /\ IsFiniteSet(Chargeable(ip)') /\ Cardinality(Chargeable(ip)') \in Nat
        /\ Cardinality(Chargeable(ip)') >= n
    <2>1. CASE Chargeable(ip)' = Chargeable(ip)
      BY <1>1, <2>1
    <2>2. ASSUME NEW c \in Conns, Chargeable(ip)' = Chargeable(ip) \union {c}
          PROVE  /\ IsFiniteSet(Chargeable(ip)') /\ Cardinality(Chargeable(ip)') \in Nat
                 /\ Cardinality(Chargeable(ip)') >= n
      <3>1. /\ IsFiniteSet(Chargeable(ip) \union {c})
            /\ \/ Cardinality(Chargeable(ip) \union {c}) = n
               \/ Cardinality(Chargeable(ip) \union {c}) = n + 1
        BY <1>1, FS_AddElement
      <3> QED
        BY <1>1, <2>2, <3>1
    <2> QED
      BY <2>1, <2>2, ChargeableStep
  <1>3. CASE failedConnectionsByIP'[ip] \in {r, AfterCheck(r, now)}
    <2>1. failedConnectionsByIP'[ip].count <= r.count
      BY <1>1, <1>3, CountsOneMore
    <2>2. failedConnectionsByIP'[ip].count \in Nat
      BY <1>1, <1>3, RecordTypes DEF RateLimitRecord
    <2> QED
      BY <1>1, <1>2, <2>1, <2>2
  <1>4. ASSUME NEW c \in Conns, WsClose(c), who[c] = Nobody, ipOf[c] = ip,
               failedConnectionsByIP'[ip] = AfterFailure(r, now)
        PROVE  failedConnectionsByIP'[ip].count <= Cardinality(Chargeable(ip)')
    <2>1. c \notin Chargeable(ip) /\ Chargeable(ip)' = Chargeable(ip) \union {c}
      BY <1>4, ChargeableStep
    <2>2. Cardinality(Chargeable(ip)') = n + 1
      BY <1>1, <2>1, FS_AddElement
    <2>3. AfterFailure(r, now).count <= r.count + 1 /\ AfterFailure(r, now).count \in Nat
      BY <1>1, CountsOneMore, RecordTypes DEF RateLimitRecord
    <2> QED
      BY <1>1, <1>4, <2>2, <2>3
  <1>5. \/ failedConnectionsByIP'[ip] \in {r, AfterCheck(r, now)}
        \/ \E c \in Conns : /\ WsClose(c) /\ who[c] = Nobody /\ ipOf[c] = ip
                            /\ failedConnectionsByIP'[ip] = AfterFailure(r, now)
    BY <1>1, LimiterSteps DEF IsBlocked, RecordFailure
  <1> QED
    BY <1>2, <1>3, <1>4, <1>5

(* The count of an address never exceeds the connections from it that      *)
(* closed without being a subscriber's session, or before Aedes saw their  *)
(* login (OnlyFailuresCharged, server.ts:917-932).                         *)
THEOREM FailuresAloneCharged == Spec => []OnlyFailuresCharged
  <1>1. Init => TypeOK /\ IdleUnopened /\ ChargesCounted
    <2> SUFFICES ASSUME Init, NEW ip \in IPs
                 PROVE  /\ IsFiniteSet(Chargeable(ip))
                        /\ failedConnectionsByIP[ip].count <= Cardinality(Chargeable(ip))
      BY TypeInit DEF ChargesCounted, IdleUnopened, Init
    <2>1. Chargeable(ip) = {} /\ failedConnectionsByIP[ip].count = 0
      BY DEF Init, Chargeable, NoRecord
    <2> QED
      BY <2>1, FS_EmptySet
  <1>2. TypeOK /\ IdleUnopened /\ ChargesCounted /\ [Next]_vars
            => (TypeOK /\ IdleUnopened /\ ChargesCounted)'
    BY TypeStep, IdleStep, ChargesStep
  <1>3. ChargesCounted => OnlyFailuresCharged
    BY DEF ChargesCounted, OnlyFailuresCharged, Chargeable
  <1> QED
    BY <1>1, <1>2, <1>3, PTL DEF Spec

=============================================================================
