--------------------------- MODULE GoAccessProofs ---------------------------
(***************************************************************************)
(* Who reads and who writes through the Go port, for any environment, any  *)
(* clients with any credentials, properties and wills, any topics and any  *)
(* filters; and on which users the port agrees with the original.          *)
(***************************************************************************)
EXTENDS GoAccess, WellFoundedInduction, TLAPS

(* A session is one its client could get: the role appended to a           *)
(* subscriber's properties is the one environment e gives it, the key      *)
(* appended to a publisher's the one its token was signed with, for this   *)
(* broker.                                                                 *)
Genuine(e, s) ==
    IF IsSubscriber(e, s)
    THEN s.props = Appended(s.login.props, [clientType |-> "subscriber",
                                            role |-> RoleText(Configured(e, s))])
    ELSE /\ s.props = Appended(s.login.props, [clientType |-> "publisher",
                                               publicKey |-> Proved(s)])
         /\ expectedAudience \in {"", s.login.password.aud}

SessionsGenuine == \A c \in Clients : session[c] # Nobody => Genuine(env, session[c])

IInv == TypeOK /\ SessionsGenuine /\ ReadScope /\ WriteScope

----------------------------------------------------------------------------
(* A set of numbers with a bound has a last place, and LastPlace is it.    *)
LEMMA GreatestNumber ==
    ASSUME NEW N \in Nat, NEW T \in SUBSET Nat, T # {}, \A n \in T : n <= N
    PROVE  \E n \in T : \A m \in T : m <= n
  <1> DEFINE D == {N - n : n \in T}
  <1>1. D \in SUBSET Nat /\ D # {}
    <2>1. \A n \in T : N - n \in Nat
      OBVIOUS
    <2> QED
      BY <2>1
  <1>2. IsWellFoundedOn(OpToRel(<, Nat), Nat)
    BY NatLessThanWellFounded
  <1> HIDE DEF D
  <1>3. PICK d \in D : \A e \in D : ~(<<e, d>> \in OpToRel(<, Nat))
    BY <1>1, <1>2, WFMin
  <1>4. \A e \in D : ~(e < d)
    BY <1>1, <1>3 DEF OpToRel
  <1>5. PICK n \in T : d = N - n
    BY DEF D
  <1>6. \A m \in T : N - m \in D
    BY DEF D
  <1>7. \A m \in T : ~(N - m < N - n)
    BY <1>4, <1>5, <1>6
  <1> QED
    BY <1>7

LEMMA LastPlaceIsLast ==
    ASSUME NEW N \in Nat, NEW T \in SUBSET Nat, T # {}, \A n \in T : n <= N
    PROVE  LastPlace(T) \in T /\ \A n \in T : n <= LastPlace(T)
  <1>1. \E n \in T : \A m \in T : m <= n
    BY GreatestNumber
  <1> QED
    BY <1>1 DEF LastPlace

(* The entry that counts for a user is the last of its valid ones.         *)
LEMMA GoEntryIsValid ==
    ASSUME NEW e \in Environments, NEW u \in GoUsernames(e),
           NEW own, own = {i \in GoValid(e) : e[i].username = u}
    PROVE  /\ LastPlace(own) \in own /\ \A i \in own : i <= LastPlace(own)
           /\ GoEntryOf(e, u) = e[LastPlace(own)]
  <1>1. own # {}
    BY DEF GoUsernames
  <1>2. own \in SUBSET Nat /\ \A i \in own : i <= MaxSubscribers
    BY GoAccessAssumption DEF GoValid, Read
  <1>3. LastPlace(own) \in own /\ \A i \in own : i <= LastPlace(own)
    BY <1>1, <1>2, LastPlaceIsLast, GoAccessAssumption
  <1> QED
    BY <1>3 DEF GoEntryOf

LEMMA UserRole ==
    ASSUME NEW e \in Environments, NEW u \in GoUsernames(e)
    PROVE  User(e, u).role \in 1..3
  <1> DEFINE own == {i \in GoValid(e) : e[i].username = u}
  <1>1. PICK i \in GoValid(e) : GoEntryOf(e, u) = e[i]
    BY GoEntryIsValid
  <1>2. Atoi(e[i].role) \in 1..3
    BY DEF GoValid
  <1> QED
    BY <1>1, <1>2 DEF User

(* A role survives being written as a property and read again.             *)
LEMMA RoleIsRead ==
    ASSUME NEW r \in 1..3
    PROVE  RoleText(r) \in {"1", "2", "3"} /\ parseSubscriberRole(RoleText(r)) = r
  <1>1. r = 1 \/ r = 2 \/ r = 3
    OBVIOUS
  <1> QED
    BY <1>1 DEF RoleText, parseSubscriberRole

----------------------------------------------------------------------------
LEMMA NewSession ==
    ASSUME env \in Environments, NEW listener, NEW cred \in Credentials,
           NEW s, s = Authenticated(listener, cred), s # Nobody
    PROVE  s \in Sessions /\ Genuine(env, s)
  <1>1. ASSUME cred.username \in GoUsernames(env)
        PROVE  s \in Sessions /\ Genuine(env, s)
    <2> DEFINE role == RoleText(User(env, cred.username).role)
               granted == [clientType |-> "subscriber", role |-> role]
    <2>1. s = [login |-> cred, props |-> Appended(cred.props, granted)]
      BY <1>1 DEF Authenticated, SubscriberSession
    <2>2. role \in {"1", "2", "3"}
      BY <1>1, UserRole, RoleIsRead
    <2>3. granted \in Granted
      <3> HIDE DEF role
      <3> QED
        BY <2>2 DEF Granted
    <2>4. s \in Sessions
      <3> HIDE DEF granted
      <3> QED
        BY <2>1, <2>3 DEF Sessions
    <2>5. s.login = cred /\ s.props = Appended(cred.props, granted)
      <3> HIDE DEF granted
      <3> QED
        BY <2>1
    <2>6. Genuine(env, s)
      BY <1>1, <2>5 DEF Genuine, IsSubscriber, Configured
    <2> QED
      BY <2>4, <2>6
  <1>2. ASSUME cred.username \notin GoUsernames(env)
        PROVE  s \in Sessions /\ Genuine(env, s)
    <2> DEFINE key == ToUpper(cred.username)
               granted == [clientType |-> "publisher", publicKey |-> key]
    <2>1. /\ s = [login |-> cred, props |-> Appended(cred.props, granted)]
          /\ key \in Keys /\ VerifyToken(cred.password, key)
      BY <1>2 DEF Authenticated, PublisherSession
    <2>2. granted \in Granted
      <3> HIDE DEF key
      <3> QED
        BY <2>1 DEF Granted
    <2>3. cred.password.signer = key /\ expectedAudience \in {"", cred.password.aud}
      BY <2>1 DEF VerifyToken, ValidateTokenPayload
    <2>4. s.login = cred /\ s.props = Appended(cred.props, granted)
      <3> HIDE DEF granted, key
      <3> QED
        BY <2>1
    <2>5. s \in Sessions
      <3> HIDE DEF granted, key
      <3> QED
        BY <2>1, <2>2 DEF Sessions
    <2>6. Genuine(env, s)
      <3> HIDE DEF key
      <3> QED
        BY <1>2, <2>3, <2>4 DEF Genuine, IsSubscriber, Proved
    <2> QED
      BY <2>5, <2>6
  <1> QED
    BY <1>1, <1>2

(* A name the client did not send has the value that was appended.         *)
LEMMA AppendedProp ==
    ASSUME NEW f, NEW g, NEW name \in DOMAIN g, name \notin DOMAIN f
    PROVE  name \in DOMAIN Appended(f, g) /\ Appended(f, g)[name] = g[name]
  BY DEF Appended

(* What OnACLCheck reads of a client that left the hook's names to the     *)
(* hook: its type, and the role or the key that were appended.             *)
LEMMA SubscriberProps ==
    ASSUME NEW s, Genuine(env, s), LeftToHook(s), IsSubscriber(env, s),
           env \in Environments
    PROVE  /\ getUserProp(s, "clientType") = "subscriber"
           /\ parseSubscriberRole(getUserProp(s, "role")) = Configured(env, s)
  <1> DEFINE text == RoleText(Configured(env, s))
  <1>1. s.props = Appended(s.login.props, [clientType |-> "subscriber", role |-> text])
    BY DEF Genuine
  <1>2. "clientType" \notin DOMAIN s.login.props /\ "role" \notin DOMAIN s.login.props
    BY DEF LeftToHook, HookNames
  <1>3. parseSubscriberRole(text) = Configured(env, s)
    BY UserRole, RoleIsRead DEF IsSubscriber, Configured
  <1> DEFINE granted == [clientType |-> "subscriber", role |-> text]
  <1> HIDE DEF text
  <1>4. /\ "clientType" \in DOMAIN granted /\ "role" \in DOMAIN granted
        /\ granted["clientType"] = "subscriber" /\ granted["role"] = text
    OBVIOUS
  <1> HIDE DEF granted
  <1>5. s.props = Appended(s.login.props, granted)
    BY <1>1 DEF granted
  <1>6. /\ "clientType" \in DOMAIN s.props /\ "role" \in DOMAIN s.props
        /\ s.props["clientType"] = "subscriber" /\ s.props["role"] = text
    BY <1>2, <1>4, <1>5, AppendedProp
  <1> QED
    BY <1>3, <1>6 DEF getUserProp

LEMMA PublisherProps ==
    ASSUME NEW s, Genuine(env, s), LeftToHook(s), ~IsSubscriber(env, s)
    PROVE  /\ getUserProp(s, "clientType") = "publisher"
           /\ getUserProp(s, "publicKey") = Proved(s)
  <1>1. s.props = Appended(s.login.props, [clientType |-> "publisher", publicKey |-> Proved(s)])
    BY DEF Genuine
  <1>2. "clientType" \notin DOMAIN s.login.props /\ "publicKey" \notin DOMAIN s.login.props
    BY DEF LeftToHook, HookNames
  <1> DEFINE granted == [clientType |-> "publisher", publicKey |-> Proved(s)]
  <1>3. /\ "clientType" \in DOMAIN granted /\ "publicKey" \in DOMAIN granted
        /\ granted["clientType"] = "publisher" /\ granted["publicKey"] = Proved(s)
    OBVIOUS
  <1> HIDE DEF granted
  <1>4. s.props = Appended(s.login.props, granted)
    BY <1>1 DEF granted
  <1>5. /\ "clientType" \in DOMAIN s.props /\ "publicKey" \in DOMAIN s.props
        /\ s.props["clientType"] = "publisher" /\ s.props["publicKey"] = Proved(s)
    BY <1>2, <1>3, <1>4, AppendedProp
  <1> QED
    BY <1>5 DEF getUserProp

LEMMA InsideIsNotInternal ==
    ASSUME NEW t \in Topics, Meshcore(t), ~isInternalTopicPath(t)
    PROVE  ~Outside(t)
  BY GoAccessAssumption DEF Outside, Meshcore, isInternalTopicPath

(* What the check lets through, a client with such a session may do.       *)
LEMMA ReadIsInScope ==
    ASSUME env \in Environments, NEW s, Genuine(env, s), LeftToHook(s),
           NEW t \in Topics, OnACLCheck(s, t, FALSE)
    PROVE  MayRead(env, s, t)
  <1>1. ~isWildcardSubscriptionFilter(t)
    BY GoAccessAssumption DEF isWildcardSubscriptionFilter
  <1>2. ASSUME ~IsSubscriber(env, s)
        PROVE  MayRead(env, s, t)
    <2>1. ReadPublisher(Proved(s), t)
      BY <1>2, PublisherProps DEF OnACLCheck
    <2> QED
      BY <1>2, <2>1 DEF ReadPublisher, MayRead
  <1>3. ASSUME IsSubscriber(env, s)
        PROVE  MayRead(env, s, t)
    <2>1. ReadSubscriber(Configured(env, s), t)
      BY <1>3, SubscriberProps DEF OnACLCheck
    <2>2. \/ Configured(env, s) = 1
          \/ Configured(env, s) = 2 /\ ~isInternalTopicPath(t) /\ Meshcore(t)
      BY <1>1, <2>1 DEF ReadSubscriber
    <2> QED
      BY <1>3, <2>2, InsideIsNotInternal DEF MayRead
  <1> QED
    BY <1>2, <1>3

LEMMA WriteIsInScope ==
    ASSUME env \in Environments, NEW s, Genuine(env, s), LeftToHook(s),
           NEW t \in Topics, OnACLCheck(s, t, TRUE)
    PROVE  MayWrite(env, s, t)
  <1>1. ASSUME ~IsSubscriber(env, s)
        PROVE  MayWrite(env, s, t)
    <2>1. authorizePublish(Proved(s), t)
      BY <1>1, PublisherProps DEF OnACLCheck
    <2>2. expectedAudience \in {"", s.login.password.aud}
      BY <1>1 DEF Genuine
    <2> QED
      BY <1>1, <2>1, <2>2 DEF authorizePublish, MayWrite
  <1>2. ASSUME IsSubscriber(env, s)
        PROVE  MayWrite(env, s, t)
    <2>1. authorizeSubscriberPublish(Configured(env, s), t)
      BY <1>2, SubscriberProps DEF OnACLCheck
    <2> QED
      BY <1>2, <2>1, InsideIsNotInternal DEF authorizeSubscriberPublish, MayWrite
  <1> QED
    BY <1>1, <1>2

----------------------------------------------------------------------------
LEMMA IInvInit == Init => IInv
  BY GoAccessAssumption DEF Init, IInv, TypeOK, SessionsGenuine, ReadScope, WriteScope

LEMMA ConnectStep ==
    ASSUME IInv, NEW c \in Clients, NEW listener, NEW cred \in Credentials,
           Connect(c, listener, cred)
    PROVE  IInv'
  <1> DEFINE s == Authenticated(listener, cred)
  <1>1. /\ env' = env /\ now' = now /\ subscriptions' = subscriptions
        /\ sent' = Nothing /\ s # Nobody
        /\ session' = [session EXCEPT ![c] = s]
    BY DEF Connect
  <1>2. s \in Sessions /\ Genuine(env, s)
    BY <1>1, NewSession DEF IInv, TypeOK
  <1> HIDE DEF s
  <1>3. TypeOK'
    BY <1>1, <1>2 DEF IInv, TypeOK
  <1>4. ASSUME NEW d \in Clients, session'[d] # Nobody
        PROVE  Genuine(env, session'[d])
    BY <1>1, <1>2, <1>4 DEF IInv, TypeOK, SessionsGenuine
  <1>5. SessionsGenuine'
    BY <1>1, <1>4 DEF SessionsGenuine
  <1> QED
    BY <1>1, <1>3, <1>5 DEF IInv, ReadScope, WriteScope

(* A message of any kind, when OnACLCheck was asked about its receivers.   *)
LEMMA MessageInScope ==
    ASSUME IInv, NEW how \in {"publish", "will"}, NEW c \in Clients,
           session[c] # Nobody, NEW t \in Topics,
           NEW receivers \in SUBSET Receivers(t),
           how = "publish" => OnACLCheck(session[c], t, TRUE),
           NEW m, m = Message(how, t, c, receivers)
    PROVE  /\ m \in [how : {"publish", "will"}, topic : Topics,
                      by : Sessions, to : SUBSET Sessions]
           /\ \A s \in m.to : LeftToHook(s) => MayRead(env, s, m.topic)
           /\ m.how = "publish" /\ LeftToHook(m.by) => MayWrite(env, m.by, m.topic)
  <1> DEFINE by == session[c]
             to == {session[d] : d \in receivers}
  <1>1. by \in Sessions /\ Genuine(env, by)
    BY DEF IInv, TypeOK, SessionsGenuine
  <1>2. \A s \in to : s \in Sessions /\ Genuine(env, s) /\ OnACLCheck(s, t, FALSE)
    BY DEF Receivers, OnACLCheck, IInv, TypeOK, SessionsGenuine
  <1>3. m = [how |-> how, topic |-> t, by |-> by, to |-> to]
    BY DEF Message
  <1>4. how = "publish" => OnACLCheck(by, t, TRUE)
    OBVIOUS
  <1> HIDE DEF by
  <1>10. to \in SUBSET Sessions
    BY <1>2
  <1> HIDE DEF to
  <1>5. m.how = how /\ m.topic = t /\ m.by = by /\ m.to = to
    BY <1>3
  <1>6. m \in [how : {"publish", "will"}, topic : Topics, by : Sessions, to : SUBSET Sessions]
    BY <1>1, <1>3, <1>10
  <1>7. env \in Environments
    BY DEF IInv, TypeOK
  <1>8. ASSUME NEW s \in to, LeftToHook(s)
        PROVE  MayRead(env, s, t)
    BY <1>2, <1>7, <1>8, ReadIsInScope
  <1>9. ASSUME how = "publish", LeftToHook(by)
        PROVE  MayWrite(env, by, t)
    BY <1>1, <1>4, <1>7, <1>9, WriteIsInScope
  <1> QED
    BY <1>5, <1>6, <1>8, <1>9

LEMMA PublishStep ==
    ASSUME IInv, NEW c \in Clients, NEW t \in Topics, Publish(c, t)
    PROVE  IInv'
  <1> DEFINE m == Message("publish", t, c, Receivers(t))
  <1>1. /\ OnACLCheck(session[c], t, TRUE) /\ session[c] # Nobody
        /\ sent' = m /\ UNCHANGED <<env, now, session, subscriptions>>
    BY DEF Publish, OnACLCheck
  <1>2. /\ m \in [how : {"publish", "will"}, topic : Topics,
                   by : Sessions, to : SUBSET Sessions]
        /\ \A s \in m.to : LeftToHook(s) => MayRead(env, s, m.topic)
        /\ m.how = "publish" /\ LeftToHook(m.by) => MayWrite(env, m.by, m.topic)
    BY <1>1, MessageInScope
  <1> HIDE DEF m
  <1>3. TypeOK'
    BY <1>1, <1>2 DEF IInv, TypeOK
  <1>4. SessionsGenuine'
    BY <1>1 DEF IInv, SessionsGenuine
  <1> QED
    BY <1>1, <1>2, <1>3, <1>4 DEF IInv, ReadScope, WriteScope

LEMMA EndedStep ==
    ASSUME IInv, NEW c \in Clients, Ended(c)
    PROVE  /\ UNCHANGED <<env, now>> /\ SessionsGenuine'
           /\ session' \in [Clients -> Sessions \union {Nobody}]
           /\ subscriptions' \in [Clients -> SUBSET Filters]
  <1>1. /\ session' = [session EXCEPT ![c] = Nobody] /\ UNCHANGED <<env, now>>
        /\ subscriptions' = [subscriptions EXCEPT ![c] = {}]
    BY DEF Ended
  <1>2. /\ session' \in [Clients -> Sessions \union {Nobody}]
        /\ subscriptions' \in [Clients -> SUBSET Filters]
    BY <1>1 DEF IInv, TypeOK
  <1>3. ASSUME NEW d \in Clients, session'[d] # Nobody
        PROVE  Genuine(env, session'[d])
    BY <1>1, <1>3 DEF IInv, TypeOK, SessionsGenuine
  <1> QED
    BY <1>1, <1>2, <1>3 DEF SessionsGenuine

(* A will is in the credentials, so its topic is one of Topics.            *)
LEMMA ConnectionLostStep ==
    ASSUME IInv, NEW c \in Clients, ConnectionLost(c)
    PROVE  IInv'
  <1> DEFINE will == session[c].login.will
             m == Message("will", will, c, Receivers(will) \ {c})
  <1>1. /\ Ended(c) /\ session[c] # Nobody
        /\ sent' = IF will = Nothing THEN Nothing ELSE m
    BY DEF ConnectionLost, Ended
  <1>2. /\ UNCHANGED <<env, now>> /\ SessionsGenuine'
        /\ session' \in [Clients -> Sessions \union {Nobody}]
        /\ subscriptions' \in [Clients -> SUBSET Filters]
    BY <1>1, EndedStep
  <1>3. will \in Topics \union {Nothing}
    <2>1. session[c] \in Sessions
      BY <1>1 DEF IInv, TypeOK
    <2>2. session[c].login \in Credentials
      BY <2>1 DEF Sessions
    <2> QED
      BY <2>2, GoAccessAssumption
  <1>4. ASSUME will # Nothing
        PROVE  /\ m \in [how : {"publish", "will"}, topic : Topics,
                          by : Sessions, to : SUBSET Sessions]
               /\ \A s \in m.to : LeftToHook(s) => MayRead(env, s, m.topic)
               /\ m.how = "publish" /\ LeftToHook(m.by) => MayWrite(env, m.by, m.topic)
    <2> HIDE DEF will
    <2> QED
      BY <1>1, <1>3, <1>4, MessageInScope
  <1> HIDE DEF will, m
  <1>5. TypeOK'
    BY <1>1, <1>2, <1>4 DEF IInv, TypeOK
  <1>6. ReadScope' /\ WriteScope'
    BY <1>1, <1>2, <1>4 DEF ReadScope, WriteScope
  <1> QED
    BY <1>2, <1>5, <1>6 DEF IInv

LEMMA IInvStep == IInv /\ [Next]_vars => IInv'
  <1> SUFFICES ASSUME IInv, [Next]_vars
               PROVE  IInv'
    OBVIOUS
  <1>1. ASSUME NEW c \in Clients, NEW listener \in {"ws1", "mqtt1"},
               NEW cred \in Credentials, Connect(c, listener, cred)
        PROVE  IInv'
    BY <1>1, ConnectStep
  <1>2. ASSUME NEW c \in Clients, NEW t \in Topics, Publish(c, t)
        PROVE  IInv'
    BY <1>2, PublishStep
  <1>3. ASSUME NEW c \in Clients, NEW f \in Filters, Subscribe(c, f)
        PROVE  IInv'
    <2>1. /\ UNCHANGED <<env, now, session>> /\ sent' = Nothing
          /\ subscriptions' \in [Clients -> SUBSET Filters]
      BY <1>3 DEF Subscribe, IInv, TypeOK
    <2> QED
      BY <2>1 DEF IInv, TypeOK, SessionsGenuine, ReadScope, WriteScope
  <1>4. ASSUME NEW c \in Clients, Disconnect(c)
        PROVE  IInv'
    <2>1. sent' = Nothing /\ Ended(c)
      BY <1>4 DEF Disconnect
    <2> QED
      BY <2>1, EndedStep DEF IInv, TypeOK, ReadScope, WriteScope
  <1>5. ASSUME NEW c \in Clients, ConnectionLost(c)
        PROVE  IInv'
    BY <1>5, ConnectionLostStep
  <1>6. CASE Tick
    <2>1. /\ UNCHANGED <<env, session, subscriptions>> /\ sent' = Nothing
          /\ now' \in 0..MaxNow
      BY <1>6, GoAccessAssumption DEF Tick, IInv, TypeOK
    <2> QED
      BY <2>1 DEF IInv, TypeOK, SessionsGenuine, ReadScope, WriteScope
  <1>7. CASE UNCHANGED vars
    <2>1. UNCHANGED <<env, now, session, subscriptions, sent>>
      BY <1>7 DEF vars
    <2> QED
      BY <2>1 DEF IInv, TypeOK, SessionsGenuine, ReadScope, WriteScope
  <1> QED
    BY <1>1, <1>2, <1>3, <1>4, <1>5, <1>6, <1>7 DEF Next

THEOREM InductiveInvariant == Spec => []IInv
  BY IInvInit, IInvStep, PTL DEF Spec

----------------------------------------------------------------------------
(* What both parsers make of one entry: Atoi reads a number or nothing.    *)
LEMMA RoleReadAlike ==
    ASSUME NEW entry, Atoi(entry.role) \in 1..3
    PROVE  Role(entry) = Atoi(entry.role)
  <1>1. entry.role.clean
    <2>1. NaN \notin 1..3
      <3>1. 1..3 \subseteq Int
        OBVIOUS
      <3> QED
        BY <3>1, GoAccessAssumption
    <2> QED
      BY <2>1 DEF Atoi
  <1> QED
    BY <1>1 DEF Role, Atoi, parseInt

LEMMA LimitReadAlike ==
    ASSUME NEW entry
    PROVE  \/ GoMaxConn(entry) = MaxConn(entry, defaultMaxConn)
           \/ GoMaxConn(entry) = defaultMaxConn /\ ~entry.maxConn.clean
  BY DEF GoMaxConn, MaxConn, Atoi, parseInt

LEMMA Agreement == TypeOK => UsersAgree
  <1> DEFINE Agree(u, last, limit, port) ==
                IF last <= MaxSubscribers /\ Atoi(env[last].role) \in 1..3
                THEN /\ u \in GoUsernames(env)
                     /\ port.password = subscriberUsers(env)[u]
                     /\ port.role = subscriberRoles(env)[u]
                     /\ \/ port.maxConn = limit
                        \/ port.maxConn = defaultMaxConn /\ ~env[last].maxConn.clean
                ELSE u \in GoUsernames(env) =>
                        \E i \in PlacesOf(env, u) :
                           /\ i < last
                           /\ port.password = env[i].password
                           /\ port.role = Role(env[i])
  <1>1. ASSUME env \in Environments, NEW u \in Usernames(env),
               \A i \in Read(env) : env[i].username = u => env[i].password # "",
               NEW last, last = LastPlace(PlacesOf(env, u)),
               NEW limit, limit = subscriberMaxConnections(env, defaultMaxConn)[u],
               NEW port, port = User(env, u)
        PROVE  Agree(u, last, limit, port)
    <2> DEFINE own == {i \in GoValid(env) : env[i].username = u}
               places == PlacesOf(env, u)
    <2>1. u # ""
      BY DEF Usernames, Valid
    <2>2. own = {i \in places : i <= MaxSubscribers /\ Atoi(env[i].role) \in 1..3}
      BY <1>1, <2>1 DEF GoValid, PlacesOf, Valid
    <2>3. places \in SUBSET Nat /\ Len(env) \in Nat /\ \A i \in places : i <= Len(env)
      <3>1. Len(env) \in Nat /\ DOMAIN env = 1..Len(env)
        BY <1>1, GoAccessAssumption
      <3>2. places \subseteq DOMAIN env
        BY DEF PlacesOf, Valid, Read
      <3> HIDE DEF places
      <3> QED
        BY <3>1, <3>2
    <2>4. ASSUME u \in GoUsernames(env)
          PROVE  /\ LastPlace(own) \in own /\ \A i \in own : i <= LastPlace(own)
                 /\ GoEntryOf(env, u) = env[LastPlace(own)]
      BY <1>1, <2>4, GoEntryIsValid
    <2>5. \A i, j \in places : i <= j /\ j <= i => i = j
      BY <2>3
    <2>6. /\ subscriberUsers(env)[u] = env[last].password
          /\ subscriberRoles(env)[u] = Role(env[last])
          /\ limit = MaxConn(env[last], defaultMaxConn)
      BY <1>1 DEF subscriberUsers, subscriberRoles, subscriberMaxConnections,
                  EntryOf, PlacesOf
    <2>7. last \in places /\ \A i \in places : i <= last
      <3>1. places # {}
        BY DEF PlacesOf, Usernames
      <3> HIDE DEF places
      <3> QED
        BY <1>1, <2>3, <3>1, LastPlaceIsLast DEF places
    <2>8. ASSUME last <= MaxSubscribers, Atoi(env[last].role) \in 1..3
          PROVE  Agree(u, last, limit, port)
      <3>1. last \in own
        BY <2>2, <2>7, <2>8
      <3>2. u \in GoUsernames(env)
        BY <3>1 DEF GoUsernames
      <3>3. LastPlace(own) = last
        <4> HIDE DEF own, places
        <4> QED
          BY <2>2, <2>4, <2>5, <2>7, <3>1, <3>2
      <3>4. GoEntryOf(env, u) = env[last]
        BY <2>4, <3>2, <3>3
      <3>5. /\ port.password = env[last].password
            /\ port.role = Role(env[last])
            /\ port.maxConn = GoMaxConn(env[last])
        BY <1>1, <2>8, <3>4, RoleReadAlike DEF User
      <3> HIDE DEF own, places
      <3> QED
        BY <2>6, <2>8, <3>2, <3>5, LimitReadAlike
    <2>9. ASSUME ~(last <= MaxSubscribers /\ Atoi(env[last].role) \in 1..3),
                 u \in GoUsernames(env)
          PROVE  Agree(u, last, limit, port)
      <3> DEFINE i == LastPlace(own)
      <3>1. /\ i \in own /\ GoEntryOf(env, u) = env[i]
            /\ i \in places /\ Atoi(env[i].role) \in 1..3
        BY <2>2, <2>4, <2>9
      <3>2. i < last
        <4>1. i # last
          BY <2>2, <2>9, <3>1
        <4> HIDE DEF i, places
        <4> QED
          BY <2>3, <2>7, <3>1, <4>1
      <3>3. port.password = env[i].password /\ port.role = Role(env[i])
        <4> HIDE DEF i
        <4> QED
          BY <1>1, <3>1, RoleReadAlike DEF User
      <3> HIDE DEF i
      <3> QED
        BY <2>9, <3>1, <3>2, <3>3
    <2> QED
      BY <2>8, <2>9
  <1>2. ASSUME env \in Environments
        PROVE  \A u \in Usernames(env) :
                  (\A i \in Read(env) : env[i].username = u => env[i].password # "") =>
                  Agree(u, LastPlace(PlacesOf(env, u)),
                        subscriberMaxConnections(env, defaultMaxConn)[u], User(env, u))
    <2> HIDE DEF Agree
    <2> QED
      BY <1>1, <1>2
  <1> QED
    BY <1>2 DEF TypeOK, UsersAgree

----------------------------------------------------------------------------
(* Sessions hold the properties of a login and what the hook appended, and *)
(* the message of a step goes from a session to sessions.                  *)
THEOREM TypeCorrect == Spec => []TypeOK
  BY InductiveInvariant, PTL DEF IInv

(* Whatever filters clients subscribe to, OnACLCheck lets a message or a   *)
(* will through only to those who may read it, when they left the hook's   *)
(* properties to the hook (auth.go 134-188, 291-298).                      *)
THEOREM ReadersInScope == Spec => []ReadScope
  BY InductiveInvariant, PTL DEF IInv

(* What such a client publishes under a public key comes from the holder   *)
(* of its private key, an admin or a writer (auth.go 112-132, 190-262).    *)
THEOREM WritersInScope == Spec => []WriteScope
  BY InductiveInvariant, PTL DEF IInv

(* Which numbers config.go and server.ts read alike, and what the port has *)
(* where they do not, whatever the entries of the environment are.         *)
THEOREM SameUsers == Spec => []UsersAgree
  BY Agreement, TypeCorrect, PTL

=============================================================================
