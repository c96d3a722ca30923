# A verification project for the MeshCore MQTT broker

TLA+ models of the broker in this repository, TLC configurations that check
them on small instances, and TLAPS proofs of what matters most for every
instance. All paths are relative to the repository.

The repository holds two implementations. `src/*.ts` (TypeScript, on the MQTT
library Aedes) is complete; `internal/`, `cmd/` (Go, on mochi-mqtt) is a port in
progress whose abuse detector and connection counting are still stubs. Both are
modelled as far as they go, and where the port does again what the original
does, the two are compared.

## 1. The system

Devices ("publishers") connect over WebSockets, log in with a public key and a
signed token, and publish packets under `meshcore/{IATA}/{PUBLIC_KEY}/...`.
People and programs ("subscribers") log in with a password, and are sent those
packets according to a role. An admin may send a device commands and delete
retained packets. The broker watches publishers for abuse and keeps what it
learns in SQLite.

Node runs one callback at a time. Concurrency comes from three places: a
callback that awaits (`verifyAuthToken`), the order in which Aedes and the
WebSocket library call the handlers of different connections, and the pace at
which Aedes hands packets to each subscriber. The Go port runs goroutines; what
they share is behind mutexes.

### Components

| Component | Source | State | Operations |
|---|---|---|---|
| Failure limiter | `src/rate-limiter.ts` | per address: count, first failure, end of block | `isBlocked`, `recordFailure` |
| Connections and authentication | `src/server.ts` 136-249, 742-794, 830-963 | per connection: phase, socket, identity; client ids per subscriber | WebSocket open and close, `authenticate`, `client`, `clientDisconnect` |
| Publish and subscribe authorization | `src/server.ts` 252-602, `src/airport-utils.ts` | topic and retain flag of a packet, retained packets, tracked locations | `authorizePublish`, `authorizeSubscribe`, wills |
| Forwarding filter | `src/server.ts` 604-739 | newest status time per device, shared by all subscribers | `authorizeForward` |
| Trust state of a publisher | `src/abuse-detector.ts` 404-783 | token bucket, hashes seen, duplicate window, locations, anomalies, status | `recordPacket`, `recordIata` and what they call |
| Abuse detector and persistence | `src/abuse-detector.ts` 190-403 | trust states in memory, statistics, SQLite rows | load, `initializeClient`, periodic save, `shutdown` |
| Signals and shutdown | `src/server.ts` 987-1004 | none | SIGINT, SIGTERM |
| Subscriber configuration | `src/server.ts` 40-130, `src/config.ts` | limits and roles, fixed at start | parsing |
| HTTP server and client address | `src/server.ts`, `src/ip-utils.ts` | none | redirect; which header holds the address |
| Go failure limiter | `internal/ratelimit` | as the TypeScript one, under a mutex | `IsBlocked`, `RecordFailure`, `Cleanup` |
| Go MQTT hooks | `internal/server/auth.go` | properties of a client | `OnConnectAuthenticate`, `OnACLCheck` |
| Go token verification | `internal/auth` | none | `VerifyToken`, `ValidateTokenPayload` |
| Go configuration | `internal/config` | none | environment and role parsing |
| Go abuse detector | `internal/abuse` | trust states under a mutex | token bucket and topics; the rest is a stub |
| Go process and helpers | `cmd/broker`, `internal/server/server.go`, `internal/utils`, `internal/models` | none | start-up, pure helpers |
| Deployment | `manage.sh`, `Dockerfile`, ... | none | scripts |

### How they interact

- A WebSocket `connection` asks the limiter; its `close` reports a failure to it
  when the client has no `clientType`. `authenticate` sets the `clientType`, for
  a publisher only after the await.
- `authenticate` counts and adds client ids to `subscriberActiveConnections`;
  `clientDisconnect` takes them out. Between the two, Aedes registers the
  client, takes over an older client of the same id, or gives the client up.
- `authorizePublish` calls the abuse detector, which changes the trust state of
  the publisher; and publishes a retained `.../internal` record with
  `aedes.publish`, before the message that caused it goes out.
- Every published packet passes `authorizeForward` once per subscriber.
- The detector's trust states live in memory; rows are written every
  `persistenceIntervalMs` and on a signal, and read once at start.

### What is hard, and what would be correct

| Component | Hard because | Correct when |
|---|---|---|
| Limiter | windows and blocks end at different times; a question deletes records | a block stands for enough failures of one window; it lasts; asking changes nothing |
| Connections | closes race logins, the await, registration and takeovers | limits hold; recorded ids are the sessions; slots come back; only failures are charged |
| Go limiter | goroutines share a map; records are removed at other times than in the original | it blocks and counts exactly as the original does |
| Go hooks | wildcard filters are approved before anybody knows what they match; what a login proved is kept behind what the client sent; wills are published unasked | messages reach those who may read them and come from those who may write them |
| Configuration | two parsers, one environment | it is known on which entries they agree, and what happens on the others |
| Authorization | topics come in several spellings, are rewritten after they were looked at; wills run the handler after the client has gone | however location and key are spelled, a place has one topic; a publisher writes only its own; the retained record is current; commands reach their addressee |
| Forwarding | one shared map; subscribers at different paces, with different filters, from different times on; hidden topics that end in `/status` | no status goes back; none is lost but what is superseded; roles hide what they must |
| Trust state | sliding windows trimmed in different places; counters derived from lists | counters agree with what really happened; the threshold mutes |
| Detector | crashes, partial saves, rows of an earlier version, a second signal, packets while closing | memory never behind the rows; a mute is saved in the end, and then for good |

`PROJECT.json` lists the hazards line by line with the properties aimed at each.

## 2. The modules

| Module | Models |
|---|---|
| `RateLimiter` | the two methods of the limiter and the clock; no specification of its own |
| `RateLimiterAudit` | the limiter under every sequence of calls, with the history of failures |
| `GoLimiter` | the Go limiter and its goroutines, beside the limiter of `RateLimiterAudit` (EXTENDS it) |
| `BrokerSessions` | connections, logins, limit and limiter composed (EXTENDS `RateLimiter`) |
| `ConnectionQuota` | abstract: sessions begin and end within a quota |
| `SubscriberConfig` | what the TypeScript broker makes of `SUBSCRIBER_1`, ... and the default limit |
| `ClientAddress` | `getClientIP` |
| `GoAccess` | users, tokens, login and access of the Go port (EXTENDS `SubscriberConfig`) |
| `TopicAccess` | publish and subscribe authorization, retained packets, wills, commands |
| `Forwarding` | the forwarding filter and the subscribers it serves |
| `TrustState` | the trust state of one publisher as operators on a record |
| `PublisherAudit` | one publisher's trust state next to what really happened |
| `AbuseDetector` | the detector in its process, with the database, crashes and restarts (EXTENDS `TrustState`) |
| `LimiterProofs`, `BrokerSessionsProofs`, `TopicAccessProofs`, `ForwardingProofs`, `AbuseDetectorProofs`, `PublisherAuditProofs`, `GoAccessProofs` | theorems and their proofs |
| `TrustStateProofs` | what each operator of `TrustState` does to a trust state, for the two proof modules that EXTEND it |
| `MC*` | instances for TLC |

One step is one callback of Node, with everything it calls; in `GoLimiter` a
method is four steps of its goroutine. Where a definition
has a neighbour such as `ClientDisconnectKeepsSlot` next to `ClientDisconnect`
or `StaleOrSame` next to `Stale`, the neighbour is a *mutant*: the same code with
a plausible bug, which no specification uses. Every property is known to fail when the definition
is replaced by its mutant (`PROJECT.json`, "mutants").

### Failure limiter: `RateLimiter`, `RateLimiterAudit`

`failedConnectionsByIP` maps an address to `[count, firstFailure,
blockedUntil]`; `NoRecord` stands for an absent entry. `IsBlocked` and
`RecordFailure` are the methods, deletions included, with the comparisons of the
source (`>`, `>=`). `RateLimiterAudit` calls them in any order and appends every
failure to `failures`.

### Go limiter: `GoLimiter`

| Action | Code |
|---|---|
| `Call` | a goroutine calls `IsBlocked`, `RecordFailure` or `Cleanup` |
| `Acquire` | `l.mu.RLock()` or `l.mu.Lock()`: `MayLock` says when it returns |
| `Look` | `time.Now()` and the read of the map |
| `Return` | the write, if there is one, and the deferred unlock |

Between any two of these, other goroutines and the clock move. `Look` also calls
the method of the TypeScript limiter (`TypeScript`), at that moment and as one
step, so `RateLimiterAudit` runs beside the Go map and `PortAgrees` compares
them. `Cleanup` corresponds to nothing there: it must not be noticed. In this
commit nothing in the Go server calls the limiter yet, and nothing schedules
`Cleanup`; the model calls all of it in every order.

### Connections: `BrokerSessions`

| Action | Code |
|---|---|
| `Connection` | `wsServer.on('connection')`: `isBlocked`, then terminate or attach handlers |
| `WsClose` | `ws.on('close')`: `recordFailure` when the client has no `clientType` |
| `SubscriberLogin`, `SubscriberOverLimit` | the subscriber branch of `authenticate` |
| `PublisherLogin` | the publisher branch up to `await verifyAuthToken` |
| `PublisherVerified` | the rest of it: `clientType`, tracking, success |
| `LoginFails` | every refusal |
| `ClientRegistered`, `ClientDisconnect` | the Aedes events |
| `DropUnregistered` | Aedes gives up a client whose socket closed before it registered it; no event |

`phase` is the connection's place in this life, `who` its identity, `active` is
`subscriberActiveConnections`, `tracked` the keys given to the detector. The
close of a connection in the constant `Racing` may overtake its CONNECT packet
or the registration of its client, so that Aedes gives it up unannounced; for
the others Aedes registers every subscriber it authenticated. `idOf` gives each
connection its client id, so that runs and theorems can say what depends on ids
being different. `maxConn` comes from the environment by way of
`SubscriberConfig`, and may be `NoLimit`: a default limit that is NaN, which no
count exceeds. `ipOf` comes from the requests by way of `ClientAddress`.

External, modelled from how the code uses it: Aedes registers a client after
`authenticate` succeeded, disconnects a registered client of the same id when it
does (takeover), disconnects clients whose socket closed, and emits
`clientDisconnect` for registered clients only.

### Publish and subscribe: `TopicAccess`

A topic is a record of its location, key and subtopic, each with a spelling
(`exact`, `otherCase`, `padded`); `Elsewhere` is every other topic. `Normalized`
is the rewritten topic: location and key in their one spelling, the subtopic
trimmed but in the case the client wrote, as in the code: `Status` and `status`
are two topics. `Message`,
`SerialResponse`, `AdminCommand`, `AdminDelete` are the branches of
`authorizePublish`; `Passed` what they let pass, with the rewritten topic and
retain flag; `Refused` and `Misplaced` separate the denials that return an error
(after which Aedes closes the client) from those that close it themselves. `Will` runs the
handler for a client that is gone. `tracked` is what the detector is told,
`packets` its packet count, `retained` the retained packets of Aedes, `log`
what was published, `commands` which publisher was handed which command.

External: Aedes stores a retained packet by topic, an empty payload deletes it;
it matches commands exactly; it publishes a will once, after an ungraceful end;
an error of `authorizePublish` may or may not end the client (both are modelled).
The `/internal` record is stored before the message, as it is published from
inside the message's handler. A publisher may publish on its own `/internal` topic
too, retained or not: `InternalUpToDate` names that case and says what the broker's own
records show.

### Forwarding: `Forwarding`

`log` holds what was published, `since[c]` from where on client `c` may get it,
`next[c]` what it is handed next, `lastStatusTimestamps` the shared map. A topic
is a record of its `place`, of which of `$SYS/`, `/internal` and `/serial/` it
`contains`, and of how it `ends`: the tests of the handler are independent, and
`.../internal/status` is both hidden and a status. `Withhold` and `Deliver` are
the two results of `authorizeForward`; `Hidden` holds its role tests, `View` what
it takes out for LIMITED clients. External: a client subscribes at any time
(`Subscribe`) and is handed what is published from then on and matches its
`filter`, in that order and at its own pace; the rest passes it by (`Skip`).
Retained packets, which Aedes hands over at a subscription, are left out.

`LatestReachesAll` and `ClientsAgree` say what the shared map really keeps. A status
that a client cannot see (hidden, outside its filter, from before it subscribed)
raises the time for everybody, and older statuses are then withheld from that
client too; both properties name that case.

### Trust state: `TrustState`, `PublisherAudit`, `AbuseDetector`

The methods of the detector are operators from a trust state to a trust state
(`CheckRateLimit`, `CheckDuplicates`, `CheckIataChange`, `RecordAnomaly`,
`MuteClient`, `ObserveRate`, `RecordPacket`). Tokens are integers: `tokenCost`
units are one token, so fractions of a token are exact. `PublisherAudit` adds
`served` (when packets got a token), `lastSeen` (when a packet was last seen)
and `moves` (changes of location) to compare with. `AbuseDetector` adds memory,
rows and process: `Start` loads, `InitializeClient` is what `authenticate`
calls, `Record` is a packet with its location, `Save` writes any subset of the
rows (a row that fails is skipped), `Shutdown` is the signal handler, `Crash`
may come at any time. The first process may find rows of an earlier version:
a row is a state with the set of fields it `lacks`, and `deserializeTrustState`
fills them in as the code does. All but one: for a row without `clockTracking` the
test at line 346 throws, `loadFromDatabase` skips the row, its publisher begins anew,
and the next save replaces the row, a mute in it included. `Readable` says which rows
those are, and `MemoryNotBehind` and `SavedMuteIsForGood` that nothing else is lost. A packet may still be recorded while Aedes closes after a
signal. The restart reads the rows before anybody connects.

### Access in the Go port: `GoAccess`

| Definition | Code |
|---|---|
| `GoValid`, `GoEntryOf`, `GoMaxConn`, `User` | `loadSubscriberConfig`, `parseSubscriberUser` (`config.go`) |
| `VerifyToken`, `ValidateTokenPayload` | `token.go`; a token is a record that knows who signed it |
| `Authenticated`, `Appended`, `Connect` | `OnConnectAuthenticate`: a session is the user properties of CONNECT with the hook's appended |
| `OnACLCheck`, `getUserProp` and the operators before them | the hook of that name and the functions it calls |
| `Subscribe`, `Publish`, `Receivers` | mochi-mqtt, which asks the hook for the filter, for the publication, and for each delivery |
| `Disconnect`, `ConnectionLost` | mochi-mqtt: the end of a connection, without and with the client's last will |

A topic is the sequence of its levels; upper and lower case are kept apart, and
`upper` says which level is the capital of which. The user properties of a client
are a function from names to the first value of each, since that is what
`getUserProp` returns. The hook appends `clientType` and `role`, or `clientType` and
`publicKey`, behind what the client sent in CONNECT; a name the client sent keeps the
client's value, in the model as in the code. So what `OnACLCheck` believes need not be
what the login proved, and `ReadScope` and `WriteScope` are not true of a client whose
CONNECT names one of the three (`LeftToHook` leaves it out): they say what the hooks
guarantee for all others, whatever else those send. `login` is history: what the client
logged in with, against which the properties judge.

A last will is published without `OnACLCheck`, as the hook provides only
`OnConnectAuthenticate` and `OnACLCheck`: the latter is asked about its readers and not
about its writer. `ReadScope` holds for wills, `WriteScope` does not speak of them.

`UsersAgree` compares the numbers two parsers read: the password, the role's number and
the limit. It does not say that a role allows the same. It does not: role 3 reads with
fields filtered in `server.ts:41,46` and only writes in `types.go:19` and
`.env.example:27`; role 2 sees everything in `server.ts:40` and neither internal topics
nor what is outside `meshcore` in `types.go:18`.

Simplifications: a publisher's username is the key without its prefix `v1_`; a session
ends with its connection, and a will is published at that moment; `ws1` and `mqtt1`
stand for their TLS twins; `sent` holds the message of the last step only, as the
properties are about single messages. The port does not count connections (a
TODO in `auth.go`), so there is no limit to check. External: topic matching, wills, and
that mochi-mqtt asks `OnACLCheck` per delivery, as the comments of the hook expect.

## 3. The runs

Every passing run checks a type invariant. `CHECK_DEADLOCK FALSE` is set where
the system may really stop: every peer is gone and, in a bounded instance, the
clock or the log has reached its bound. The Go limiter and the Go hooks may
always be called, so `rate_limiter` and `go_access` check deadlock: for the
limiter, that no interleaving of the goroutines leaves them waiting for the mutex.

| Run | Shows |
|---|---|
| `rate_limiter` | the Go limiter in every interleaving beside the TypeScript limiter. Of the latter: `BlockEarned`: a block stands for `maxFailedConnections` failures within one window. `RecordMatchesHistory`: the count is that of the latest failures. `BlockHoldsInWindow`: while the window is open nothing changes a block. `CheckIsFree`: what `isBlocked` deletes changes no later answer or record. Of both: `PortAgrees`: they block the same addresses, now and later, and count the next failure alike |
| `broker_sessions` | `ClientsWithinLimit`, `QuotaImplemented` (the sessions implement `ConnectionQuota`), `SlotsMatchSessions` (no session without its id, and no id without its session but those of racing connections), `OnlyFailuresCharged`, `SlotsReleased` (liveness), `OnlyStragglersLiftBlocks` (a block ends early only by the close of a socket let in before it that stayed unauthenticated until the window was over) |
| `topic_access` | `OneTopicPerPlace` (one topic per location, key and subtopic), `TopicsOwned`, `LocationsTracked`, `InternalUpToDate` (the broker's records differ, show no more than was counted, and the last shows all), `CommandsToAddressee` |
| `forwarding` | `NeverBackwards`, `LatestReachesAll` (each client gets the newest status that reaches it, unless a newer one that does not was forwarded to another), `RolesRespected`, `ClientsAgree` (liveness: all whom the newest status reaches end up with it) |
| `publisher_audit` | `BucketLimitsRate` (never more packets served in an interval than capacity and refill allow), `NoDuplicateForgotten`, `CopiesAddUp`, `LocationsBounded`, `ThresholdMutes` (enough anomalies mute, and no step lifts a mute) |
| `abuse_detector` | `MutedCounted`, `MemoryNotBehind` (no save takes back what a readable row holds), `SavedMuteIsForGood` (but for rows that cannot be read), `MutesReachRows` (liveness) |
| `go_access` | `ReadScope`, `WriteScope` (for clients that leave the hook's properties to the hook), `UsersAgree` (for which entries both brokers read the same password, role number and limit, and what the port has for the others) |
| `block_served`, `broker_takeover`, `status_retained`, `peak_decays`, `iata_changes_counted` | the findings of section 5: TLC finds each property violated |

### Bounds

Times are small numbers that keep the order of the real ones, so that every
comparison comes out both ways.

- `rate_limiter`: window 2, threshold 3, block 3, clock up to 7, 5 failures, two
  goroutines: windows and blocks end, failures follow a block, and `Cleanup`
  meets records in every state. One address: the addresses share nothing but
  the mutex, and the proofs are for any number of addresses and goroutines.
- `broker_sessions`: 3 connections, one of them racing; a viewer with a limit of
  two, a guest without one, and a publisher; window 1, block 2, threshold 2 and
  clock 2: two failures block, and the third connection is refused or straggles.
  No symmetry, since it checks liveness. `broker_takeover`: two of four
  connections share a client id.
- `topic_access`: two publishers and an admin, every part of a topic in every
  spelling, subtopics included, one part at a time; a filter and a command with the
  key in another case; a retained message on the publisher's own `/internal`; one packet
  for each reason to be refused; up to 4 packets let pass. Four are enough to
  publish two messages with their `/internal` records under two spellings, from
  two sessions, with a will.
- `forwarding`: a client of each role, the LIMITED one with a narrower filter; two
  devices, one of them heard at two places; times 0 (none) to 3, the newest on a
  hidden topic; logs of 3 packets, subscriptions before, between and after them. Three
  are enough for a status to overtake two others for one client and not for another, and
  for an unseen status to stand between a client and an older one.
- `publisher_audit`: 5 packets, clock 5, every limit (bucket, duplicate window,
  list size, copies, locations, threshold) within reach. `MaxPackets` and
  `MaxNow` are the only bounds that are not limits of the code.
- `abuse_detector`: two publishers of at most 3 packets, two locations, one
  change of the clock; with threshold 1 a publisher is muted by its second
  location, before or after any save, crash or signal. The first table is empty,
  or holds a muted row that lacks all that is repaired, a muted row that lacks
  `clockTracking` and is skipped, or a row that lacks the peak window.
- `go_access`: two connections, since one message has one publisher and a reader
  at a time; two keys, one of them in both cases; a credential, topic, filter and
  entry for each reason to be refused, and for each role; a publisher and a subscriber
  with a will; two that name a property of the hook themselves, with the value it has
  anyway. Five entries are read: of a user each, the last is beyond that, or lacks its role
  while an earlier one has it.

### Fairness

Fairness is stated only for what something really drives:

- `AbuseDetector`: `setInterval` keeps calling `saveToDatabase` while the process
  lives, and not each of these saves fails on a row (weak fairness of a full
  save; `MutesReachRows` excuses a process that ends first).
- `BrokerSessions`: the promise of `verifyAuthToken` settles; Aedes goes on with
  a client it authenticated; it disconnects a client whose socket closed or
  whose id was taken over. Nothing makes a peer connect, log in or leave.
- `Forwarding`: Aedes keeps handing each client its packets (weak fairness of
  `Skip \/ Withhold \/ Deliver` per client). Nothing makes a device publish.
- `TopicAccess` (`status_retained` only): Aedes publishes a pending will.
- `PublisherAudit` (`peak_decays`, `iata_changes_counted`): time goes on or packets
  come. What these two runs violate are safety properties; they do not need it.

## 4. The proofs

TLAPS checks these for every value of the constants that satisfies the named
assumptions, and for behaviours of any length.

**Limiter** (`LimiterProofs`; `LimiterAssumption`: positive window and
block, threshold at least 2, which is what the code is built with). `TypeCorrect`,
`BlocksAreEarned`, `RecordsMatchHistory`, `BlocksHoldInWindow`, `ChecksAreFree`.
The inductive invariant is `TypeOK`, `RecordShape` (an absent record is empty,
no window begins in the future), `RecordMatchesHistory` and `BlockEarned`: that
a block is earned rests on what the count means, and what the count means rests on
the window not beginning in the future. With a threshold of 1 the first failure
would only create a record and not block, hence the 2.

**Go limiter** (`LimiterProofs`; in addition `PortAssumption`: blocks last at
least as long as windows, 300 s and 60 s in the code). `PortAlwaysAgrees`, with
`GoTypeCorrect` and `WritersAlone`. The two maps are not equal: `isBlocked`
deletes what `IsBlocked` leaves for `Cleanup`, and `Cleanup` deletes blocks that
are over whatever their window. They are *alike* (`Alike`): equal, or both
*inert*, past block and window, when no caller can tell them from an absent
record, now or ever (`AlikeAnswers`). That what `Cleanup` removes is inert rests on
`Shaped` (a block ends no earlier than its window) and so on `PortAssumption`.
`PortAgrees` alone says nothing of a goroutine between its look and its write;
the invariant adds `Exclusion` (a writer is alone), hence `Current` (what a writer
saw is still so) and `Recorded` (what it is about to write is what the TypeScript
limiter has). `OriginalRuns` shows that `GoSpec` implements `Spec` of
`RateLimiterAudit`, so the theorems about the limiter hold there too.

**Connections** (`BrokerSessionsProofs`; `SessionsAssumption`: limits are
numbers or `NoLimit`, no name is both subscriber and key). `TypeCorrect`,
`StragglersOnly` and `FailuresAloneCharged` hold for all ids; `LimitHolds`,
`QuotaIsImplemented` and `SlotsAreSessions` assume `DistinctIds`, that every
connection presents a client id of its own: without it they are false (section 5). All hold whichever connections race. The code counts ids and not sessions, so the invariant is
`IdsWithinLimit` (the recorded ids are finite and within the limit) with
`SessionsRecorded` (every session has its id recorded); with distinct ids the
sessions inject into the ids. `SlotsAreSessions` adds `IdsExplained`: every
recorded id is that of a session, or of a racing connection that Aedes gave up.
`FailuresAloneCharged` counts, in `ChargesCounted`, the closed connections of an
address that a record may stand for. `StragglersOnly` needs `BlocksCount`: a
record that blocks has counted failures.

**Authorization** (`TopicAccessProofs`; `TopicAccessAssumption`: types, and no
client is called `"broker"`). `TypeCorrect`, `PlacesHaveOneTopic`,
`TopicsHaveOwners`, `LocationsAreTracked`, `InternalIsUpToDate`,
`CommandsReachAddressee`. The five branches of the handler are first reduced to
what they publish (`SinglePacket`, `MessageAndRecord`): nothing, one packet, or a
message with its record. The invariant adds `TopicsNormal` (what publishers'
packets go out on is normalised, so two spellings of a location or a key cannot
stay apart),
`RecordsCounted` (a retained record shows no more packets than were counted, so
the next one shows a number no other has) and `FiltersOwn`.

**Forwarding** (`ForwardingProofs`; `ForwardingAssumption`: types only).
`TypeCorrect`, `StatusNeverGoesBack`, `LatestStatusReachesAll`,
`RolesAreRespected`, for any clients, roles, filters, packets and logs, and
subscriptions at any time. The inductive invariant adds `ShownByThen` and
`HandedByThen` (what a client was shown or handed is not newer than the time kept),
`TimeIsPublished` (the time kept is that of a message that each client was given, has
still to be handed, or does not see) and `InLog`. `TimeIsPublished` is the heart:
the shared map may withhold a status from a slow client only because a newer one is
on its way to it, or has gone where it does not look.

**Trust state** (`TrustStateProofs`, `PublisherAuditProofs`; `TrustAssumption`:
limits are numbers, those that must be positive are, a bucket has room for a
packet, and an interval is no longer than an hour and an hour no longer than a
day). `TrustStateProofs` says of each method what it changes and what it
leaves (`CheckRateLimitEffect`, `CheckDuplicatesEffect`, `RecordPacketEffect`, ...).
From these follow `TypeCorrect`, `ThresholdIsEnforced`, `BucketLimits`,
`HistoryIsBounded`, `DuplicatesAreKnown` and `CopiesAreCounted`, for any packets
at any times. `BucketLimitsRate` speaks of the packets served and the tokens left
together, which makes it inductive. `HashesInv`: each entry of the
list carries the time its payload was last compared, so that what
`duplicateWindowSize` cuts off at the end is known to make room for others.
`CopiesInv` counts the copies a list shows over all its entries.

**Detector** (`AbuseDetectorProofs`; in addition `DetectorAssumption`: finitely
many publishers, and the rows the first process finds were written before it
started). `TypeCorrect`, `MutesAreCounted`, `MemoryIsNotBehind`,
`SavedMutesAreForGood`, for rows that can be read. The invariant adds that the
states in memory and in the rows are ones the methods can be called with
(`MemorySound`, `RowsSound`).

**Access in the Go port** (`GoAccessProofs`; `GoAccessAssumption`: the clock's and
the limits' numbers are numbers, `NaN` is none, the environment is a finite list,
and nobody publishes to a topic with a wildcard, which MQTT forbids). `TypeCorrect`,
`ReadersInScope`, `WritersInScope`, `SameUsers`, for any environment, credentials,
user properties, wills, topics and filters. `ReadScope` speaks of what a client proved
and `OnACLCheck` of its properties; the invariant adds `SessionsGenuine`: the
properties are those of CONNECT with the role its entry gives, or the key its token was
signed with, appended. `SubscriberProps` and `PublisherProps` are where `LeftToHook` is
needed: only a name the client did not send has the appended value. `SameUsers` needs
no steps: the valid entries of the port are those of the original up to
`MaxSubscribers` with a role that `Atoi` accepts, so both take the same last one, or the
port an earlier one.

Recursive definitions are functions (`Filtered`, the copies of `CopiesUpTo`). The
library's induction principles take a predicate as a parameter, which the
provers cannot choose; `SetInduction` says the same about sets of numbers, from
the well-foundedness of `<`, and shows what `filter` keeps of a list of any length.

Every safety property of the passing runs is proved. Only model-checked:
liveness (`SlotsReleased`, `ClientsAgree`, `MutesReachRows`), which is out of the
reach of the prover, and the findings. What `SlotsMatchSessions` and
`QuotaImplemented` say when client ids are shared is false (section 5). The
modules hold no RECURSIVE operator, so that proofs about them stay possible.

## 5. Findings

1. **A block may end early** (`block_served`, `src/rate-limiter.ts:61`).
   `recordFailure` replaces the whole record, the block in it included, when the
   failure window is over. A socket opened before the block that closes after
   the window lifts it. The proof `StragglersOnly` shows that nothing else does.
2. **A takeover breaks the connection limit** (`broker_takeover`,
   `src/server.ts:788`). The limit compares recorded client ids; the disconnect
   of a client that was taken over strikes off the id its successor uses, so one
   client too many gets in.
3. **A status may be retained** (`status_retained`, `src/server.ts:263`). The
   retain flag is stripped by the topic as written, before the topic is trimmed.
4. **The peak rate never decays** (`peak_decays`, `src/abuse-detector.ts:535`).
   The test for an hour without packets runs after the packet was counted.
5. **Location changes are counted one too high** (`iata_changes_counted`,
   `src/abuse-detector.ts:708`). The first location is counted as a change.

## 6. Not modelled

- Which environment variables must be set, and settings that are plain values.
  Redirects, logging, wording, JSON layout: no state.
- Token signatures, SQLite, the WebSocket library, Aedes and mochi-mqtt themselves: external.
- Trust-state fields the code only shows (IP history, topics, clock fields), and
  `shouldSilencePacket`, which nothing calls.
- A clock that runs backwards: the models' clock does not. `Date.now()` may.
- The loss of `lastStatusTimestamps` in a restart, and origins in several
  spellings, as the hazards say.
- A row of the detector that cannot be parsed at all: it is skipped like one
  without `clockTracking`, which is modelled. Rows are written by this code.
- Retained packets handed over at a subscription, in `Forwarding`; sessions of
  mochi-mqtt that outlive their connection, and delayed wills, in `GoAccess`.
- The abuse detector of the Go port, whose methods are mostly stubs and which
  nothing calls; its start-up and listeners; scripts and containers.
- A capacity or refill rate that is configured anew: known publishers keep the
  ones in their rows.

## 7. Plan

Done, in this order: `RateLimiter` with its proofs, `BrokerSessions` with
`ConnectionQuota` and proofs, `Forwarding` with proofs, `TrustState` with
`PublisherAudit` and `AbuseDetector`, `TopicAccess`, `SubscriberConfig` and
`ClientAddress` composed with `BrokerSessions`, `GoLimiter` with proofs,
`GoAccess`; then the proofs of the last five.

Left for when the code goes on: the Go detector and the Go connection limit, once
they are more than stubs; the Go limiter within its server, once it is called.
Open in the TypeScript broker: origins in several spellings in `Forwarding`.

Proofs: all safety properties are done (section 4). Next:

1. An abstract specification of the authorization (who may make what appear
   where) and of the detector's persistence (a register that only grows), with
   the proof that `TopicAccess` and `AbuseDetector` implement them.
2. What `BrokerSessions` keeps of its limit when client ids are shared: by how
   much a takeover may exceed it.
3. The findings' complements: what bounds the peak rate and the counted changes.

## 8. Running

    tlc -workers 2 -config BrokerSessions.cfg MCBrokerSessions
    tlapm BrokerSessionsProofs.tla

The module and configuration of each run are in `PROJECT.json`. Each run takes
seconds to a minute; `forwarding` is the longest.
