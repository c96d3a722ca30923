----------------------------- MODULE Forwarding -----------------------------
(***************************************************************************)
(* aedes.authorizeForward of src/server.ts (lines 604-739): what happens   *)
(* to each published packet on its way to each subscriber.  The handler    *)
(* hides topics from all but admins, drops a status message older than one *)
(* forwarded before to anybody, and takes fields out for LIMITED clients.  *)
(*                                                                         *)
(* Aedes (external) hands each subscriber the packets that match its       *)
(* filter, from the moment it subscribed, in the order they were published *)
(* and at a pace of its own: packets wait for a slow socket and, with a    *)
(* persistent session, for a reconnection.  lastStatusTimestamps is shared *)
(* by all of them, and by those who came before and have left: a client    *)
(* that leaves is handed nothing more, one that comes anew is another.     *)
(***************************************************************************)
EXTENDS Naturals, Sequences

CONSTANTS
    Clients,                \* subscribers
    role,                   \* the role of each
    filter,                 \* filter[c]: the topics c subscribes to
    Origins,                \* what stands in origin_id, case included
    Places,                 \* what comes before the subtopic in a topic
    Packets,                \* the packets that may be published
    MaxLog                  \* bound: packets published

Roles == {"ADMIN", "FULL_ACCESS", "LIMITED"}

(* What the handler looks at in a topic: what it begins with or contains,  *)
(* $SYS/, /internal or /serial/, and, whatever that is, how it ends:       *)
(* a topic may be an admin's and end in /status.                           *)
Topic ==
    [place : Places,
     contains : SUBSET {"$SYS", "internal", "serial"},
     ends : {"status", "packets", "other"}]

Fields == {"stats", "model", "firmware_version", "SNR", "RSSI", "score"}

(* time is the parsed `timestamp', 0 when there is none, or no origin_id;  *)
(* a payload that is not JSON has neither a time nor fields.               *)
PacketType ==
    [topic : Topic, origin : Origins, time : Nat, fields : SUBSET Fields]

ASSUME ForwardingAssumption ==
    /\ role \in [Clients -> Roles]
    /\ filter \in [Clients -> SUBSET Topic]
    /\ Packets \subseteq PacketType
    /\ MaxLog \in Nat

VARIABLES
    log,                    \* the packets published, in order
    since,                  \* since[c]: the first of them c may get, or 0
    next,                   \* next[c]: index of the packet c is handed next
    lastStatusTimestamps,   \* per origin, 0 when the map does not hold it
    received                \* received[c]: what was delivered to c, in order

vars == <<log, since, next, lastStatusTimestamps, received>>

TypeOK ==
    /\ log \in Seq(Packets)
    /\ since \in [Clients -> Nat] /\ next \in [Clients -> Nat]
    /\ lastStatusTimestamps \in [Origins -> Nat]
    /\ received \in [Clients -> Seq(PacketType)]

Init ==
    /\ log = <<>>
    /\ since = [c \in Clients |-> 0]
    /\ next = [c \in Clients |-> 0]
    /\ lastStatusTimestamps = [o \in Origins |-> 0]
    /\ received = [c \in Clients |-> <<>>]

----------------------------------------------------------------------------
\* Fault: admin topics are hidden from LIMITED clients only.
HiddenFromLimited(r, p) == r = "LIMITED" /\ p.topic.contains # {}

\* $SYS/, /internal and /serial/ topics are for admins.
Hidden(r, p) == r # "ADMIN" /\ p.topic.contains # {}

TimedStatus(p) == p.topic.ends = "status" /\ p.time # 0

\* Fault: equal times are stale too.
StaleOrSame(p) == TimedStatus(p) /\ p.time <= lastStatusTimestamps[p.origin]

\* Older than a status message of the same origin that was forwarded.
Stale(p) == TimedStatus(p) /\ p.time < lastStatusTimestamps[p.origin]

\* Fault: a late message moves the time back.
ObserveAny(p) ==
    lastStatusTimestamps' =
        [lastStatusTimestamps EXCEPT ![p.origin] =
            IF p.topic.ends = "status" THEN p.time ELSE @]

\* lastStatusTimestamps.set(originId, timestamp)
Observe(p) ==
    lastStatusTimestamps' =
        [lastStatusTimestamps EXCEPT ![p.origin] =
            IF TimedStatus(p) THEN p.time ELSE @]

SensitiveFields(topic) ==
    CASE topic.ends = "status"  -> {"stats", "model", "firmware_version"}
      [] topic.ends = "packets" -> {"SNR", "RSSI", "score"}
      [] OTHER                  -> {}

\* Fault: the handler leaves its `filtered' mark in the message.
ViewMarked(r, p) ==
    IF r = "LIMITED"
    THEN [p EXCEPT !.fields = (@ \ SensitiveFields(p.topic)) \union {"filtered"}]
    ELSE p

\* What a client of role r is shown of a packet.
View(r, p) ==
    IF r = "LIMITED"
    THEN [p EXCEPT !.fields = @ \ SensitiveFields(p.topic)]
    ELSE p

----------------------------------------------------------------------------
\* aedes.publish, or a publisher's packet that authorizePublish let pass.
Publish(p) ==
    /\ Len(log) < MaxLog
    /\ log' = Append(log, p)
    /\ UNCHANGED <<since, next, lastStatusTimestamps, received>>

\* A client subscribes: it gets what is published from now on.
Subscribe(c) ==
    /\ since[c] = 0
    /\ since' = [since EXCEPT ![c] = Len(log) + 1]
    /\ next' = [next EXCEPT ![c] = Len(log) + 1]
    /\ UNCHANGED <<log, lastStatusTimestamps, received>>

\* It is the turn of packet p for client c.
Turn(c, p) ==
    /\ since[c] # 0 /\ next[c] <= Len(log)
    /\ p = log[next[c]]
    /\ next' = [next EXCEPT ![c] = @ + 1]
    /\ UNCHANGED <<log, since>>

\* p is not what c subscribed to: authorizeForward is not called.
Skip(c) ==
    \E p \in Packets :
        /\ Turn(c, p)
        /\ p.topic \notin filter[c]
        /\ UNCHANGED <<lastStatusTimestamps, received>>

\* Aedes hands client c the packet p.
Handed(c, p) == Turn(c, p) /\ p.topic \in filter[c]

\* authorizeForward returns null.
Withhold(c) ==
    \E p \in Packets :
        /\ Handed(c, p)
        /\ Hidden(role[c], p) \/ Stale(p)
        /\ UNCHANGED <<lastStatusTimestamps, received>>

\* authorizeForward returns the packet, or a copy without some fields.
Deliver(c) ==
    \E p \in Packets :
        /\ Handed(c, p)
        /\ ~Hidden(role[c], p) /\ ~Stale(p)
        /\ Observe(p)
        /\ received' = [received EXCEPT ![c] = Append(@, View(role[c], p))]

Next ==
    \/ \E p \in Packets : Publish(p)
    \/ \E c \in Clients : Subscribe(c) \/ Skip(c) \/ Withhold(c) \/ Deliver(c)

Spec == Init /\ [][Next]_vars

(* Aedes goes on handing packets to a connected client.                    *)
FairSpec == Spec /\ \A c \in Clients : WF_vars(Skip(c) \/ Withhold(c) \/ Deliver(c))

----------------------------------------------------------------------------
\* The packet at k was published after c subscribed, on a topic c subscribed
\* to and may see.
Reaches(c, k) ==
    /\ since[c] # 0 /\ k >= since[c]
    /\ log[k].topic \in filter[c] /\ ~Hidden(role[c], log[k])

CaughtUp(c) == since[c] # 0 /\ next[c] > Len(log)

(* A client never sees the status of a device go back: of two status       *)
(* messages of one origin the later delivered is not older ("prevent stale *)
(* status messages from overwriting newer ones", server.ts:638).           *)
NeverBackwards ==
    \A c \in Clients : \A i, j \in DOMAIN received[c] :
        /\ i < j
        /\ TimedStatus(received[c][i]) /\ TimedStatus(received[c][j])
        /\ received[c][i].origin = received[c][j].origin
        => received[c][i].time <= received[c][j].time

(* Nothing is lost but what is superseded: a client that has had its turn  *)
(* with everything was given, for each status message that reaches it, that*)
(* one or one of the same origin that is at least as new; unless a newer   *)
(* one that does not reach it was handed to another client, under a topic  *)
(* for admins, outside its filter, or before it subscribed.  For the time  *)
(* is shared by all (605, 654).                                            *)
StatusOf(o, k) == TimedStatus(log[k]) /\ log[k].origin = o

SupersededUnseen(c, k) ==
    \E j \in DOMAIN log :
        /\ StatusOf(log[k].origin, j) /\ log[j].time > log[k].time
        /\ ~Reaches(c, j)
        /\ \E d \in Clients : Reaches(d, j) /\ j < next[d]

LatestReachesAll ==
    \A c \in Clients : CaughtUp(c) =>
        \A k \in DOMAIN log : Reaches(c, k) /\ TimedStatus(log[k]) =>
            \/ \E i \in DOMAIN received[c] :
                  /\ TimedStatus(received[c][i])
                  /\ received[c][i].origin = log[k].origin
                  /\ received[c][i].time >= log[k].time
            \/ SupersededUnseen(c, k)

(* Clients come to agree: in the end any two clients that the newest status*)
(* of an origin reaches show the same last time for it, whatever their     *)
(* roles, filters and paces, and whenever they subscribed.                 *)
StatusTimes(c, o) ==
    {received[c][i].time : i \in {j \in DOMAIN received[c] :
        TimedStatus(received[c][j]) /\ received[c][j].origin = o}}

Newest(S) == {t \in S : \A u \in S : u <= t}

NewestReaches(c, o) ==
    \E k \in DOMAIN log :
        /\ StatusOf(o, k) /\ Reaches(c, k)
        /\ \A j \in DOMAIN log : StatusOf(o, j) => log[j].time <= log[k].time

ClientsAgree ==
    <>[](\A c, d \in Clients, o \in Origins :
            NewestReaches(c, o) /\ NewestReaches(d, o) =>
                Newest(StatusTimes(c, o)) = Newest(StatusTimes(d, o)))

(* What a role may not see it never gets: no admin topic reaches another   *)
(* role, and no LIMITED client is sent a sensitive field.                  *)
RolesRespected ==
    \A c \in Clients : \A i \in DOMAIN received[c] :
        LET p == received[c][i]
        IN  /\ role[c] # "ADMIN" => p.topic.contains = {}
            /\ role[c] = "LIMITED" => p.fields \intersect SensitiveFields(p.topic) = {}

=============================================================================
