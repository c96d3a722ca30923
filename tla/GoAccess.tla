------------------------------ MODULE GoAccess ------------------------------
(***************************************************************************)
(* Who may connect, publish and read in the Go port: the subscribers of    *)
(* internal/config/config.go, the tokens of internal/auth/token.go and the *)
(* two hooks of internal/server/auth.go, OnConnectAuthenticate and         *)
(* OnACLCheck.  mochi-mqtt (external) asks OnACLCheck when a client        *)
(* subscribes, when it publishes, and again for each client a message      *)
(* matches a filter of.  A last will it publishes unasked.                 *)
(*                                                                         *)
(* What the first hook finds out it appends to the user properties the     *)
(* client sent in CONNECT, and the second takes the first of a name.  The  *)
(* properties of a client are a function from names to that first value.   *)
(*                                                                         *)
(* A topic or a filter is the sequence of its levels.  Two levels that     *)
(* differ only in case are two levels; upper says which is the capital.    *)
(***************************************************************************)
EXTENDS SubscriberConfig

CONSTANTS
    Environments,           \* settings of SUBSCRIBER_1, SUBSCRIBER_2, ...
    MaxSubscribers,         \* how many of them are read, 100 in the code
    defaultMaxConn,         \* SUBSCRIBER_MAX_CONNECTIONS_DEFAULT
    Clients,                \* connections
    Credentials,            \* what CONNECT packets carry
    Topics, Filters,        \* what clients publish to and subscribe to
    Keys,                   \* levels and names pubKeyRegex matches
    upper,                  \* strings.ToUpper of the levels it changes
    Airports,               \* levels iataRegex matches
    expectedAudience,       \* AUTH_EXPECTED_AUDIENCE, "" when it is not set
    skew,                   \* a token may come from this far in the future
    Nobody, Nothing,        \* no client, no message
    MaxNow                  \* bound: the clock stops here

(* The variables of an environment are numbered from 1, NaN stands for no  *)
(* number, no message is published to a wildcard, and a will is one of the *)
(* messages or none.                                                       *)
ASSUME GoAccessAssumption ==
    /\ NaN \notin Int
    /\ \A e \in Environments : Len(e) \in Nat /\ DOMAIN e = 1..Len(e)
    /\ \A t \in Topics : /\ DOMAIN t \subseteq Nat \ {0}
                         /\ \A i \in DOMAIN t : t[i] \notin {"+", "#"}
    /\ \A cred \in Credentials : cred.will \in Topics \union {Nothing}
    /\ defaultMaxConn \in Int /\ MaxSubscribers \in Nat
    /\ skew \in Nat /\ MaxNow \in Nat

VARIABLES
    env,                    \* the environment the process started with
    now,                    \* time.Now().Unix()
    session,                \* each client's properties, and what it logged in with
    subscriptions,          \* its filters
    sent                    \* the message the last step published, and who got it

vars == <<env, now, session, subscriptions, sent>>

ToUpper(level) == IF level \in DOMAIN upper THEN upper[level] ELSE level

----------------------------------------------------------------------------
(* parseSubscriberUser and loadSubscriberConfig.                           *)

\* strconv.Atoi fails, here with NaN, unless the field is a number and
\* nothing else.
Atoi(field) == IF field.clean THEN field.lead ELSE NaN

\* Fault: any number is a role.
GoValidAnyRole(e) == {i \in Read(e) : i <= MaxSubscribers /\ Atoi(e[i].role) # NaN}

\* An entry without a role, or with another one, is skipped.
GoValid(e) == {i \in Read(e) : i <= MaxSubscribers /\ Atoi(e[i].role) \in 1..3}

GoUsernames(e) == {e[i].username : i \in GoValid(e)}

GoEntryOf(e, u) == e[LastPlace({i \in GoValid(e) : e[i].username = u})]

\* Fault: a limit of 0 is a limit.
GoMaxConnZero(entry) ==
    LET parsed == Atoi(entry.maxConn)
    IN  IF parsed # NaN /\ parsed >= 0 THEN parsed ELSE defaultMaxConn

GoMaxConn(entry) ==
    LET parsed == Atoi(entry.maxConn)
    IN  IF parsed # NaN /\ parsed > 0 THEN parsed ELSE defaultMaxConn

User(e, u) ==
    LET entry == GoEntryOf(e, u)
    IN  [password |-> entry.password, role |-> Atoi(entry.role),
         maxConn |-> GoMaxConn(entry)]

----------------------------------------------------------------------------
(* VerifyToken.                                                            *)

\* An exp of NaN is none.
ValidateTokenPayload(token) ==
    /\ expectedAudience # "" => token.aud = expectedAudience
    /\ token.exp # NaN => now <= token.exp
    /\ token.iat <= now + skew

\* Three parts, the header of an Ed25519 JWT, a signature of 64 bytes made
\* with the private key of the username, and that key in the payload.
VerifyToken(token, key) ==
    /\ token.wellFormed
    /\ token.signer = key
    /\ ToUpper(token.publicKey) = key
    /\ ValidateTokenPayload(token)

----------------------------------------------------------------------------
(* OnConnectAuthenticate.                                                  *)

\* isSubscriberOnlyListener: native MQTT, with and without TLS.
SubscriberOnly(listener) == listener \in {"mqtt1", "mqtts1"}

\* fmt.Sprintf("%d", role) of the roles there are, and parseSubscriberRole.
RoleText(role) ==
    CASE role = 1 -> "1" [] role = 2 -> "2" [] role = 3 -> "3" [] OTHER -> "none"

parseSubscriberRole(text) ==
    CASE text = "1" -> 1 [] text = "2" -> 2 [] text = "3" -> 3 [] OTHER -> 0

\* append puts more behind what CONNECT brought: of a name in both, the client's
\* comes first.
Appended(props, more) ==
    [name \in DOMAIN props \union DOMAIN more |->
        IF name \in DOMAIN props THEN props[name] ELSE more[name]]

\* What a client logged in with is history.
SubscriberSession(cred) ==
    [login |-> cred,
     props |-> Appended(cred.props, [clientType |-> "subscriber",
                                     role |-> RoleText(User(env, cred.username).role)])]

PublisherSession(cred) ==
    [login |-> cred,
     props |-> Appended(cred.props, [clientType |-> "publisher",
                                     publicKey |-> ToUpper(cred.username)])]

\* A username that is configured is never taken for a publisher's.
Authenticated(listener, cred) ==
    IF cred.username \in GoUsernames(env)
    THEN IF cred.password = User(env, cred.username).password
         THEN SubscriberSession(cred)
         ELSE Nobody
    ELSE IF /\ ~SubscriberOnly(listener)
            /\ ToUpper(cred.username) \in Keys
            /\ VerifyToken(cred.password, ToUpper(cred.username))
         THEN PublisherSession(cred)
         ELSE Nobody

----------------------------------------------------------------------------
(* OnACLCheck.                                                             *)

isInternalTopicPath(t) == \E i \in DOMAIN t : t[i] = "internal" /\ (i > 1 \/ Len(t) = 1)
isWildcardSubscriptionFilter(t) == \E i \in DOMAIN t : t[i] \in {"+", "#"}
Meshcore(t) == t[1] = "meshcore"

\* meshcore/{IATA}/{PUBLIC_KEY}/serial/commands
Commands(t) == /\ Len(t) = 5 /\ t[1] = "meshcore"
               /\ t[4] = "serial" /\ t[5] = "commands"

ReadPublisher(key, t) == Commands(t) /\ ToUpper(t[3]) = key

\* Fault: role 2 is asked for no more than the meshcore prefix.
ReadSubscriberInternal(role, t) ==
    \/ role = 1
    \/ role = 2 /\ (isWildcardSubscriptionFilter(t) \/ Meshcore(t))
    \/ role = 3 /\ isWildcardSubscriptionFilter(t)

\* Wildcards are let pass for the sake of the client: each message is asked
\* about again, under the topic it was published to.
ReadSubscriber(role, t) ==
    \/ role = 1
    \/ /\ role = 2
       /\ ~isInternalTopicPath(t)
       /\ isWildcardSubscriptionFilter(t) \/ Meshcore(t)
    \/ role = 3 /\ isWildcardSubscriptionFilter(t)

\* Fault: the key in the topic is only looked at for its form.
authorizePublishAnyKey(key, t) ==
    /\ Meshcore(t) /\ Len(t) >= 4
    /\ t[2] # "XXX"
    /\ ToUpper(t[2]) = "TEST" \/ t[2] \in Airports
    /\ ToUpper(t[3]) \in Keys

\* The topic stays as it is written: what passes is published under it.
authorizePublish(key, t) ==
    /\ Meshcore(t) /\ Len(t) >= 4
    /\ t[2] # "XXX"
    /\ ToUpper(t[2]) = "TEST" \/ t[2] \in Airports
    /\ ToUpper(t[3]) = key /\ key \in Keys

authorizeSubscriberPublish(role, t) ==
    \/ role = 1
    \/ role = 3 /\ Meshcore(t) /\ ~isInternalTopicPath(t)

getUserProp(s, name) == IF name \in DOMAIN s.props THEN s.props[name] ELSE ""

\* A client of neither type is refused.
OnACLCheck(s, t, write) ==
    /\ s # Nobody
    /\ LET key  == getUserProp(s, "publicKey")
           role == parseSubscriberRole(getUserProp(s, "role"))
       IN  \/ /\ getUserProp(s, "clientType") = "publisher"
              /\ IF write THEN authorizePublish(key, t) ELSE ReadPublisher(key, t)
           \/ /\ getUserProp(s, "clientType") = "subscriber"
              /\ IF write THEN authorizeSubscriberPublish(role, t)
                          ELSE ReadSubscriber(role, t)

----------------------------------------------------------------------------
\* MQTT: + stands for one level, # for the rest, and a first level that
\* begins with $ for no wildcard.
Matches(f, t) ==
    /\ f[Len(f)] = "#" \/ Len(f) = Len(t)
    /\ \A i \in DOMAIN f :
          \/ f[i] = "#"
          \/ i \in DOMAIN t /\ f[i] \in {"+", t[i]}
    /\ t[1] = "$SYS" => f[1] = "$SYS"

Init ==
    /\ env \in Environments
    /\ now = 0
    /\ session = [c \in Clients |-> Nobody]
    /\ subscriptions = [c \in Clients |-> {}]
    /\ sent = Nothing

Connect(c, listener, cred) ==
    /\ session[c] = Nobody
    /\ Authenticated(listener, cred) # Nobody
    /\ session' = [session EXCEPT ![c] = Authenticated(listener, cred)]
    /\ sent' = Nothing
    /\ UNCHANGED <<env, now, subscriptions>>

Subscribe(c, f) ==
    /\ OnACLCheck(session[c], f, FALSE)
    /\ subscriptions' = [subscriptions EXCEPT ![c] = @ \union {f}]
    /\ sent' = Nothing
    /\ UNCHANGED <<env, now, session>>

Receivers(t) ==
    {c \in Clients : /\ \E f \in subscriptions[c] : Matches(f, t)
                     /\ OnACLCheck(session[c], t, FALSE)}

\* How a message came to be published tells a will from what was asked about.
Message(how, t, c, receivers) ==
    [how |-> how, topic |-> t, by |-> session[c], to |-> {session[d] : d \in receivers}]

Publish(c, t) ==
    /\ OnACLCheck(session[c], t, TRUE)
    /\ sent' = Message("publish", t, c, Receivers(t))
    /\ UNCHANGED <<env, now, session, subscriptions>>

\* The connection ends and its session with it: by a DISCONNECT, which
\* discards the will,
Ended(c) ==
    /\ session[c] # Nobody
    /\ session' = [session EXCEPT ![c] = Nobody]
    /\ subscriptions' = [subscriptions EXCEPT ![c] = {}]
    /\ UNCHANGED <<env, now>>

Disconnect(c) == Ended(c) /\ sent' = Nothing

\* or without one, and the will goes to those who may read it.
ConnectionLost(c) ==
    /\ Ended(c)
    /\ LET will == session[c].login.will
       IN  sent' = IF will = Nothing THEN Nothing
                   ELSE Message("will", will, c, Receivers(will) \ {c})

Tick ==
    /\ now < MaxNow
    /\ now' = now + 1
    /\ sent' = Nothing
    /\ UNCHANGED <<env, session, subscriptions>>

Next ==
    \/ \E c \in Clients :
          \/ \E listener \in {"ws1", "mqtt1"}, cred \in Credentials :
                Connect(c, listener, cred)
          \/ \E f \in Filters : Subscribe(c, f)
          \/ \E t \in Topics : Publish(c, t)
          \/ Disconnect(c)
          \/ ConnectionLost(c)
    \/ Tick

Spec == Init /\ [][Next]_vars

----------------------------------------------------------------------------
HookNames == {"clientType", "role", "publicKey"}

\* What the hook appends.
Granted ==
    [clientType : {"subscriber"}, role : {"1", "2", "3"}] \union
    [clientType : {"publisher"}, publicKey : Keys]

Sessions == {[login |-> cred, props |-> Appended(cred.props, granted)] :
                 cred \in Credentials, granted \in Granted}

\* A client's properties are those of a login and what the hook appended, and a
\* message goes from one such client to others.
TypeOK ==
    /\ env \in Environments /\ now \in 0..MaxNow
    /\ session \in [Clients -> Sessions \union {Nobody}]
    /\ subscriptions \in [Clients -> SUBSET Filters]
    /\ sent \in {Nothing} \union
            [how : {"publish", "will"}, topic : Topics, by : Sessions, to : SUBSET Sessions]

\* Who a client is, by what it logged in with and not by its properties: a
\* subscriber with the role its entry gives, or the holder of a private key.
IsSubscriber(e, s) == s.login.username \in GoUsernames(e)
Configured(e, s) == User(e, s.login.username).role
Proved(s) == s.login.password.signer

\* Its CONNECT named none of the properties the hook appends.
LeftToHook(s) == DOMAIN s.login.props \intersect HookNames = {}

Outside(t) == ~Meshcore(t) \/ \E i \in DOMAIN t : t[i] = "internal"

MayRead(e, s, t) ==
    IF IsSubscriber(e, s)
    THEN Configured(e, s) = 1 \/ (Configured(e, s) = 2 /\ ~Outside(t))
    ELSE Commands(t) /\ ToUpper(t[3]) = Proved(s)

MayWrite(e, s, t) ==
    IF IsSubscriber(e, s)
    THEN Configured(e, s) = 1 \/ (Configured(e, s) = 3 /\ ~Outside(t))
    ELSE /\ Len(t) >= 4 /\ ToUpper(t[3]) = Proved(s)
         /\ t[2] # "XXX"
         /\ expectedAudience \in {"", s.login.password.aud}

(* A message, last wills included, reaches only those who may read it,     *)
(* whatever filter it came by: a publisher receives commands for the key   *)
(* it proved it holds, an admin anything, role 2 what is under meshcore    *)
(* and not internal, role 3 nothing (auth.go 134-183; auth_test.go 22-29). *)
(* That is so of readers that leave clientType, role and publicKey to the  *)
(* hook.  Of one that sent such a property in CONNECT, OnACLCheck believes *)
(* what it sent (auth.go 51, 102, 291-298), and nothing is said here.      *)
ReadScope ==
    sent # Nothing => \A s \in sent.to : LeftToHook(s) => MayRead(env, s, sent.topic)

(* What a client publishes under a public key comes from whoever holds the *)
(* private key, as a token made for this broker showed, from an admin, or  *)
(* from a writer (role 3), which stays out of what is internal.  That is   *)
(* so of clients that leave the hook's properties to the hook, as above,   *)
(* and not of their wills, which OnACLCheck is not asked about.            *)
WriteScope ==
    (sent # Nothing /\ sent.how = "publish" /\ LeftToHook(sent.by))
        => MayWrite(env, sent.by, sent.topic)

PlacesOf(e, u) == {i \in Valid(e) : e[i].username = u}

(* Two parsers read one environment.  server.ts takes the last entry of a  *)
(* user.  If that is among the first MaxSubscribers, with a role that is   *)
(* 1, 2 or 3 and nothing else, config.go takes the same one: the same      *)
(* password, the same number as role, and the same limit, except for a     *)
(* number that goes on as a text, which to config.go is the default.       *)
(* Otherwise the user does not exist in the port, or an earlier entry of   *)
(* it stays in force there (server.ts 56-105, config.go 156-177, 300-335). *)
(* The numbers are compared, and not what they allow, which differs: 3     *)
(* reads in server.ts 41 and only writes in types.go 19, and 2 sees the    *)
(* internal topics in server.ts 40 and not in types.go 18.  Users with an  *)
(* entry without a password are left out: only config.go takes that one.   *)
UsersAgree ==
    \A u \in Usernames(env) :
        (\A i \in Read(env) : env[i].username = u => env[i].password # "") =>
        LET last  == LastPlace(PlacesOf(env, u))
            limit == subscriberMaxConnections(env, defaultMaxConn)[u]
            port  == User(env, u)
        IN  IF last <= MaxSubscribers /\ Atoi(env[last].role) \in 1..3
            THEN /\ u \in GoUsernames(env)
                 /\ port.password = subscriberUsers(env)[u]
                 /\ port.role = subscriberRoles(env)[u]
                 /\ \/ port.maxConn = limit
                    \/ port.maxConn = defaultMaxConn /\ ~env[last].maxConn.clean
            ELSE u \in GoUsernames(env) =>
                    \E i \in PlacesOf(env, u) :
                       /\ i < last
                       /\ port.password = env[i].password /\ port.role = Role(env[i])

=============================================================================
