---------------------------- MODULE TopicAccess ----------------------------
(***************************************************************************)
(* Who may publish and subscribe where: aedes.authorizePublish (252-557)   *)
(* and authorizeSubscribe (559-602) of src/server.ts, with what they       *)
(* change: the packet's topic and retain flag, the abuse detector, and the *)
(* retained /internal record.  Aedes (external) publishes what they let    *)
(* pass, keeps retained packets, hands commands to the publishers that     *)
(* subscribed, and publishes the will of a client that went away without a *)
(* DISCONNECT, through authorizePublish too.                               *)
(*                                                                         *)
(* A topic meshcore/{IATA}/{PUBLIC_KEY}/subtopic is a record of what its   *)
(* three parts name and how each is spelled; any other topic, too short or *)
(* not under meshcore/, is Elsewhere.                                      *)
(***************************************************************************)
EXTENDS Naturals, Sequences

CONSTANTS
    Clients,                \* MQTT clients that have authenticated
    who,                    \* the public key of a publisher, the role of others
    Keys, NoKey,            \* public keys; a part that is none
    Airports,               \* IATA codes airport-utils knows
    Elsewhere,              \* a topic that is not meshcore/-/-/-
    Packets,                \* what clients may publish
    Filters,                \* what publishers may subscribe to
    will,                   \* the will each client left, or NoWill
    NoWill,
    MaxLog                  \* bound: packets let pass

Roles == {"ADMIN", "FULL_ACCESS", "LIMITED"}

(* As the normalised topic has it; in another case; with blanks around it. *)
Spelling == {"exact", "otherCase", "padded"}

(* "bad" is no code of an airport, "+" the wildcard of a filter.           *)
Codes == Airports \union {"test", "XXX", "bad", "+"}
Subtopics == {"packets", "status", "internal", "serial/commands", "serial/responses"}

MeshTopic ==
    [loc : [code : Codes, as : Spelling],
     key : [key : Keys \union {NoKey}, as : Spelling],
     sub : [name : Subtopics, as : Spelling]]

(* A public key stands for JSON with that origin_id, "jwt" for three base64*)
(* parts, "junk" for any other, or JSON without an origin_id.              *)
Payload == Keys \union {"empty", "jwt", "junk"}

PacketType == [topic : MeshTopic \union {Elsewhere}, retain : BOOLEAN, payload : Payload]

ASSUME TopicAccessAssumption ==
    /\ "broker" \notin Clients
    /\ who \in [Clients -> Keys \union Roles]
    /\ Packets \subseteq PacketType /\ Filters \subseteq MeshTopic
    /\ will \in [Clients -> Packets \union {NoWill}]
    /\ MaxLog \in Nat

VARIABLES
    conn,                   \* open, closing (its will is due) or closed
    subscribed,             \* subscribed[c]: filters of publisher c
    tracked,                \* tracked[k]: locations given to checkIataChange
    packets,                \* packets[k]: totalPacketsReceived
    retained,               \* retained packets, with who published each
    log,                    \* packets let pass, in order
    commands                \* commands[c]: serial commands handed to c

vars == <<conn, subscribed, tracked, packets, retained, log, commands>>

Publishers == {c \in Clients : who[c] \in Keys}
Entry == [topic : MeshTopic \union {Elsewhere}, by : Clients \union {"broker"},
          kind : {"message", "response", "command", "delete", "internal"},
          shows : Nat]

TypeOK ==
    /\ conn \in [Clients -> {"open", "closing", "closed"}]
    /\ subscribed \in [Clients -> SUBSET Filters]
    /\ tracked \in [Keys -> SUBSET (Airports \union {"test"})]
    /\ packets \in [Keys -> Nat]
    /\ retained \subseteq Entry
    /\ log \in Seq(Entry)
    /\ commands \in [Clients -> SUBSET Entry]

Init ==
    /\ conn = [c \in Clients |-> "open"]
    /\ subscribed = [c \in Clients |-> {}]
    /\ tracked = [k \in Keys |-> {}]
    /\ packets = [k \in Keys |-> 0]
    /\ retained = {}
    /\ log = <<>>
    /\ commands = [c \in Clients |-> {}]

----------------------------------------------------------------------------
(* Tests of a topic.                                                       *)

\* packet.topic.endsWith('/status'), before any part is trimmed.
EndsInStatus(t) == t # Elsewhere /\ t.sub = [name |-> "status", as |-> "exact"]

\* A location publishers may use; "test" in any case.
ValidLocation(loc) ==
    \/ loc.code \in Airports /\ loc.as # "otherCase"
    \/ loc.code = "test"

\* Fault: any public key will do.
OwnKeyAny(c, t) == t.key.key # NoKey

\* The key of the topic, trimmed and in upper case, is the client's.
OwnKey(c, t) == t.key.key = who[c]

\* Location and key as admins must give them for a command: any letters,
\* but without blanks.
CommandTopic(t) ==
    /\ t.sub = [name |-> "serial/commands", as |-> "exact"]
    /\ t.loc.code \in Codes \ {"bad", "+"} /\ t.loc.as # "padded"
    /\ t.key.key # NoKey /\ t.key.as # "padded"

Exact(loc, key, sub) ==
    [loc |-> [code |-> loc, as |-> "exact"],
     key |-> [key |-> key, as |-> "exact"],
     sub |-> [name |-> sub, as |-> "exact"]]

\* part.trim()
Trimmed(part) == IF part.as = "padded" THEN [part EXCEPT !.as = "exact"] ELSE part

\* Fault: the public key stays as the client wrote it.
NormalizedButKey(t) ==
    [loc |-> [code |-> t.loc.code, as |-> "exact"], key |-> t.key, sub |-> Trimmed(t.sub)]

\* normalizedTopic: the subtopic keeps its case.
Normalized(t) == [Exact(t.loc.code, t.key.key, t.sub.name) EXCEPT !.sub = Trimmed(t.sub)]

\* subtopic === 'serial/responses', with regard to case.
IsResponse(t) == Trimmed(t.sub) = [name |-> "serial/responses", as |-> "exact"]

\* Fault: the test region is tracked as the client wrote it.
TrackedLocationRaw(t) == IF t.loc.as = "otherCase" THEN "TEST" ELSE t.loc.code

\* normalizedLocation, as given to checkIataChange.
TrackedLocation(t) == t.loc.code

----------------------------------------------------------------------------
(* What Aedes does with a packet that is let pass.                         *)

\* Fault: the record is made before the packet is counted.
InternalPacketsEarly(k) == packets[k]

\* totalPacketsReceived in the record, after recordPacket.
InternalPackets(k) == packets[k] + 1

Stored(R, e) == {r \in R : r.topic # e.topic} \union {e}

Matches(f, t) ==
    /\ t # Elsewhere /\ f.key = t.key /\ f.sub = t.sub
    /\ f.loc = t.loc \/ f.loc.code = "+"

\* The entry e is published: logged, and handed to publishers subscribed.
Passed(e, before) ==
    /\ log' = before \o <<e>>
    /\ commands' = [c \in Clients |->
          IF conn[c] = "open" /\ \E f \in subscribed[c] : Matches(f, e.topic)
          THEN commands[c] \union {e} ELSE commands[c]]

\* e is kept if the packet, its flag stripped from a status, is retained.
Kept(e, p, R) ==
    retained' = IF p.retain /\ ~EndsInStatus(p.topic) THEN Stored(R, e) ELSE R

----------------------------------------------------------------------------
(* authorizePublish, for client c and packet p.                            *)

\* An admin's empty retained packet deletes what is retained on its topic.
AdminDelete(c, p) ==
    /\ who[c] = "ADMIN" /\ p.payload = "empty"
    /\ p.retain /\ ~EndsInStatus(p.topic)
    /\ retained' = {r \in retained : r.topic # p.topic}
    /\ Passed([topic |-> p.topic, by |-> c, kind |-> "delete", shows |-> 0], log)
    /\ UNCHANGED <<tracked, packets>>

AdminCommand(c, p) ==
    /\ who[c] = "ADMIN" /\ ~(p.payload = "empty" /\ p.retain)
    /\ p.topic # Elsewhere /\ CommandTopic(p.topic)
    /\ LET e == [topic |-> p.topic, by |-> c, kind |-> "command", shows |-> 0]
       IN  Passed(e, log) /\ Kept(e, p, retained)
    /\ UNCHANGED <<tracked, packets>>

\* A publisher's topic that does not make the broker close the client.
InPlace(c, p) ==
    /\ who[c] \in Keys
    /\ p.topic # Elsewhere /\ ValidLocation(p.topic.loc) /\ OwnKey(c, p.topic)

SerialResponse(c, p) ==
    /\ InPlace(c, p)
    /\ IsResponse(p.topic) /\ p.payload = "jwt"
    /\ LET e == [topic |-> Normalized(p.topic), by |-> c, kind |-> "response", shows |-> 0]
       IN  Passed(e, log) /\ Kept(e, p, retained)
    /\ UNCHANGED <<tracked, packets>>

\* A message with the publisher's origin_id: checkIataChange, recordPacket,
\* and the retained /internal record, published before the message.
Message(c, p) ==
    /\ InPlace(c, p)
    /\ ~IsResponse(p.topic) /\ p.payload = who[c]
    /\ LET k        == who[c]
           topic    == Normalized(p.topic)
           internal == [topic |-> Exact(p.topic.loc.code, k, "internal"),
                        by |-> "broker", kind |-> "internal",
                        shows |-> InternalPackets(k)]
           e        == [topic |-> topic, by |-> c, kind |-> "message", shows |-> 0]
       IN  /\ tracked' = [tracked EXCEPT ![k] = @ \union {TrackedLocation(p.topic)}]
           /\ packets' = [packets EXCEPT ![k] = @ + 1]
           /\ Passed(e, Append(log, internal))
           /\ Kept(e, p, Stored(retained, internal))

\* callback(new Error(...)), in every other case.
Refused(c, p) ==
    /\ \/ who[c] \in Roles
          /\ ~(/\ who[c] = "ADMIN" /\ p.payload = "empty"
               /\ p.retain /\ ~EndsInStatus(p.topic))
          /\ ~(who[c] = "ADMIN" /\ p.topic # Elsewhere /\ CommandTopic(p.topic))
       \/ who[c] \in Keys /\ p.topic = Elsewhere
       \/ InPlace(c, p)
          /\ p.payload # IF IsResponse(p.topic) THEN "jwt" ELSE who[c]
    /\ UNCHANGED <<tracked, packets, retained, log, commands>>

Allowed(c, p) ==
    AdminDelete(c, p) \/ AdminCommand(c, p) \/ SerialResponse(c, p) \/ Message(c, p)

Misplaced(c, p) == who[c] \in Keys /\ p.topic # Elsewhere /\ ~InPlace(c, p)

----------------------------------------------------------------------------
Room == Len(log) < MaxLog

Publish(c, p) ==
    /\ conn[c] = "open" /\ Room
    /\ Allowed(c, p)
    /\ UNCHANGED <<conn, subscribed>>

\* Whether Aedes closes a client whose packet was refused is its own affair.
PublishRefused(c, p) ==
    /\ conn[c] = "open"
    /\ Refused(c, p)
    /\ conn' \in {conn, [conn EXCEPT ![c] = "closing"]}
    /\ UNCHANGED subscribed

\* A wrong location or key: client.close().
PublishCloses(c, p) ==
    /\ conn[c] = "open"
    /\ Misplaced(c, p)
    /\ conn' = [conn EXCEPT ![c] = "closing"]
    /\ UNCHANGED <<subscribed, tracked, packets, retained, log, commands>>

\* Fault: a publisher may have the commands of others.
MaySubscribeAny(c, f) == f.sub = [name |-> "serial/commands", as |-> "exact"]

\* Publishers may subscribe to their own commands; nothing is trimmed here.
MaySubscribe(c, f) ==
    /\ f.sub = [name |-> "serial/commands", as |-> "exact"]
    /\ f.key.key = who[c] /\ f.key.as # "padded"

\* authorizeSubscribe, for a publisher.
Subscribe(c, f) ==
    /\ conn[c] = "open" /\ who[c] \in Keys
    /\ \/ /\ MaySubscribe(c, f)
          /\ subscribed' = [subscribed EXCEPT ![c] = @ \union {f}]
          /\ UNCHANGED conn
       \/ /\ ~MaySubscribe(c, f)
          /\ conn' = [conn EXCEPT ![c] = "closing"]
          /\ UNCHANGED subscribed
    /\ UNCHANGED <<tracked, packets, retained, log, commands>>

\* The client sends a DISCONNECT (its will is dropped), or is lost.
Leave(c) ==
    /\ conn[c] = "open"
    /\ \E how \in {"closing", "closed"} : conn' = [conn EXCEPT ![c] = how]
    /\ UNCHANGED <<subscribed, tracked, packets, retained, log, commands>>

\* Aedes asks authorizePublish about the will, once.
Will(c) ==
    /\ conn[c] = "closing" /\ Room
    /\ conn' = [conn EXCEPT ![c] = "closed"]
    /\ IF will[c] # NoWill /\ ~Misplaced(c, will[c])
       THEN Allowed(c, will[c]) \/ Refused(c, will[c])
       ELSE UNCHANGED <<tracked, packets, retained, log, commands>>
    /\ UNCHANGED subscribed

Next ==
    \E c \in Clients :
        \/ \E p \in Packets :
              Publish(c, p) \/ PublishRefused(c, p) \/ PublishCloses(c, p)
        \/ \E f \in Filters : Subscribe(c, f)
        \/ Leave(c) \/ Will(c)

Spec == Init /\ [][Next]_vars
FairSpec == Spec /\ \A c \in Clients : WF_vars(Will(c))

----------------------------------------------------------------------------
Logged == {log[i] : i \in DOMAIN log}
OfPublishers == {e \in Logged : e.kind \in {"message", "response", "internal"}}

(* One place, one topic: whatever the case and the blanks in which clients *)
(* write location and key, and the blanks around the subtopic, all that is *)
(* published for a location, a key and a subtopic is published on one      *)
(* topic ("This prevents duplicate topics with different casing",          *)
(* server.ts:399-401).  A subtopic in another case is another subtopic.    *)
OneTopicPerPlace ==
    \A e, f \in OfPublishers :
        /\ e.topic.loc.code = f.topic.loc.code
        /\ e.topic.key.key = f.topic.key.key
        /\ Trimmed(e.topic.sub) = Trimmed(f.topic.sub)
        => e.topic = f.topic

(* Topics have owners: whoever it is that publishes, by packet or by will, *)
(* before or after the broker closed it, what passes or is retained under  *)
(* a public key comes from a client that authenticated with it, from the   *)
(* broker, or is an admin's command.                                       *)
TopicsOwned ==
    \A e \in Logged \union retained :
        \/ e.kind = "internal" /\ e.by = "broker"
        \/ e.kind \in {"command", "delete"} /\ who[e.by] = "ADMIN"
        \/ e.kind \in {"message", "response"} /\ who[e.by] = e.topic.key.key

(* A location is tracked once: the abuse detector has been told of exactly *)
(* the locations under which the messages of the key were published        *)
(* ("consistent tracking regardless of case", server.ts:456-457).          *)
LocationsTracked ==
    \A k \in Keys :
        tracked[k] = {e.topic.loc.code : e \in
            {d \in Logged : d.kind = "message" /\ d.topic.key.key = k}}

(* The newest record wins ("retained so admins can see it later",          *)
(* server.ts:529).  Of the /internal records that the broker wrote and that*)
(* are retained for a key, none shows more packets than were counted and no*)
(* two show the same number; and at the location of the key's last message *)
(* the record that shows them all is retained, unless an admin deleted it  *)
(* since, or that message was itself retained on the topic of the record:  *)
(* nothing keeps a publisher's messages off /internal (319), and there the *)
(* record is published first.                                              *)
RecordsDiffer(k) ==
    LET ofBroker == {r \in retained : r.by = "broker" /\ r.topic.key.key = k}
    IN  /\ \A r \in ofBroker : r.shows <= packets[k]
        /\ \A r, s \in ofBroker : r.shows = s.shows => r = s

LastMessage(k, i) ==
    /\ log[i].kind = "message" /\ log[i].topic.key.key = k
    /\ \A j \in DOMAIN log : j > i =>
          log[j].kind # "message" \/ log[j].topic.key.key # k

LastIsShown(k, i) ==
    LET internal == Exact(log[i].topic.loc.code, k, "internal")
    IN  \/ \E r \in retained :
              r.by = "broker" /\ r.topic = internal /\ r.shows = packets[k]
        \/ log[i].topic = internal /\ log[i] \in retained
        \/ \E j \in DOMAIN log :
              j > i /\ log[j].kind = "delete" /\ log[j].topic = internal

InternalUpToDate ==
    \A k \in Keys :
        /\ RecordsDiffer(k)
        /\ \A i \in DOMAIN log : LastMessage(k, i) => LastIsShown(k, i)

(* Commands reach their addressee only: a publisher is handed what is      *)
(* addressed to its own key, and it comes from an admin or from a client   *)
(* with that key (server.ts:569-584).                                      *)
CommandsToAddressee ==
    \A c \in Publishers : \A e \in commands[c] :
        e.topic.key.key = who[c] /\ who[e.by] \in {"ADMIN", who[c]}

(* A status is never retained ("LWT (offline) messages are also STATUS     *)
(* messages and should NOT be retained", server.ts:261-262).               *)
StatusNotRetained ==
    \A r \in retained : r.topic.sub # [name |-> "status", as |-> "exact"]

=============================================================================
