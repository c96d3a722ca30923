------------------------- MODULE TopicAccessProofs -------------------------
(***************************************************************************)
(* Proofs about TopicAccess, for any clients, keys, airports, packets,     *)
(* filters and wills, and logs of any length.                              *)
(***************************************************************************)
EXTENDS TopicAccess, SequenceTheorems, TLAPS

(* A topic as publishers' packets leave authorizePublish.                  *)
Normal(t) == t = Normalized(t)

(* Publishers subscribe to nothing but their own commands.                 *)
FiltersOwn ==
    \A c \in Clients : \A f \in subscribed[c] : MaySubscribe(c, f)

(* Everything of publishers is logged under a normalised topic.            *)
TopicsNormal == \A e \in OfPublishers : e.topic \in MeshTopic /\ Normal(e.topic)

(* The retained records of the broker are /internal records, and show no   *)
(* more packets than were counted.                                         *)
RecordsCounted ==
    \A r \in retained : r.by = "broker" =>
        /\ r.topic = Exact(r.topic.loc.code, r.topic.key.key, "internal")
        /\ r.topic.key.key \in Keys
        /\ r.shows <= packets[r.topic.key.key]

(* The inductive invariant.                                                *)
IInv ==
    /\ TypeOK /\ FiltersOwn /\ TopicsNormal /\ RecordsCounted
    /\ TopicsOwned /\ LocationsTracked /\ InternalUpToDate /\ CommandsToAddressee

----------------------------------------------------------------------------
(* What a step may do.  Either nothing is published; or one packet is, of  *)
(* an admin or a serial response; or a message with its /internal record.  *)
Published(c, e) ==
    /\ e \in Entry /\ e.by = c
    /\ \/ e.kind \in {"delete", "command"} /\ who[c] = "ADMIN"
       \/ /\ e.kind \in {"message", "response"}
          /\ e.topic \in MeshTopic /\ Normal(e.topic)
          /\ who[c] \in Keys /\ who[c] = e.topic.key.key

SinglePacket(c, e) ==
    /\ Published(c, e) /\ e.kind # "message"
    /\ Passed(e, log)
    /\ retained' \subseteq retained \union {e}
    /\ \A r \in retained :
          \/ r \in retained'
          \/ r.topic = e.topic /\ (e.kind = "delete" \/ e.topic.sub.name # "internal")
    /\ UNCHANGED <<tracked, packets>>

MessageAndRecord(c, e, r) ==
    LET k == who[c] IN
    /\ Published(c, e) /\ e.kind = "message"
    /\ r = [topic |-> Exact(e.topic.loc.code, k, "internal"), by |-> "broker",
            kind |-> "internal", shows |-> packets[k] + 1]
    /\ e.topic.loc.code \in Airports \union {"test"}
    /\ tracked' = [tracked EXCEPT ![k] = @ \union {e.topic.loc.code}]
    /\ packets' = [packets EXCEPT ![k] = @ + 1]
    /\ Passed(e, Append(log, r))
    /\ retained' \in {Stored(retained, r), Stored(Stored(retained, r), e)}

LEMMA NormalizedIsNormal ==
    ASSUME NEW t \in MeshTopic
    PROVE  /\ Normalized(t) \in MeshTopic /\ Normal(Normalized(t))
           /\ Normalized(t).key.key = t.key.key
           /\ Normalized(t).loc.code = t.loc.code
           /\ Normalized(t).sub = Trimmed(t.sub) /\ Trimmed(t.sub).name = t.sub.name
  BY DEF Normalized, Normal, Trimmed, Exact, MeshTopic, Spelling

(* What authorizePublish lets pass.                                        *)
LEMMA AllowedEffect ==
    ASSUME NEW c \in Clients, NEW p \in Packets, Allowed(c, p)
    PROVE  \E e \in Entry : \/ SinglePacket(c, e)
                            \/ \E r : MessageAndRecord(c, e, r)
  <1>1. p.topic \in MeshTopic \union {Elsewhere}
    BY TopicAccessAssumption DEF PacketType
  <1> DEFINE sent(t, kind) == [topic |-> t, by |-> c, kind |-> kind, shows |-> 0]
  <1>2. \A t \in MeshTopic \union {Elsewhere} :
            /\ sent(t, "delete") \in Entry /\ sent(t, "command") \in Entry
            /\ sent(t, "response") \in Entry /\ sent(t, "message") \in Entry
    BY DEF Entry
  <1>3. CASE AdminDelete(c, p)
    <2>1. SinglePacket(c, sent(p.topic, "delete"))
      BY <1>1, <1>2, <1>3 DEF AdminDelete, SinglePacket, Published
    <2> QED
      BY <1>1, <1>2, <2>1
  <1>4. CASE AdminCommand(c, p)
    <2>1. SinglePacket(c, sent(p.topic, "command"))
      <3> DEFINE e == sent(p.topic, "command")
      <3>1. /\ e \in Entry /\ Published(c, e) /\ e.kind = "command"
            /\ e.topic.sub.name # "internal"
        <4>1. /\ p.topic \in MeshTopic /\ p.topic.sub.name = "serial/commands"
              /\ who[c] = "ADMIN"
          BY <1>1, <1>4 DEF AdminCommand, CommandTopic
        <4>2. e \in Entry
          BY <1>2, <4>1
        <4> QED
          BY <4>1, <4>2 DEF Published
      <3>2. /\ Passed(e, log) /\ retained' \in {retained, Stored(retained, e)}
            /\ UNCHANGED <<tracked, packets>>
        BY <1>4 DEF AdminCommand, Kept
      <3> HIDE DEF e
      <3>3. SinglePacket(c, e)
        BY <3>1, <3>2 DEF SinglePacket, Stored
      <3> QED
        BY <3>3 DEF e
    <2> QED
      BY <1>1, <1>2, <2>1
  <1>5. CASE SerialResponse(c, p)
    <2>1. /\ p.topic \in MeshTopic
          /\ Normalized(p.topic) \in MeshTopic /\ Normal(Normalized(p.topic))
          /\ Normalized(p.topic).key.key = who[c]
          /\ Normalized(p.topic).sub.name = "serial/responses"
      <3>1. p.topic \in MeshTopic /\ p.topic.key.key = who[c]
        BY <1>1, <1>5 DEF SerialResponse, InPlace, OwnKey
      <3>2. Trimmed(p.topic.sub).name = "serial/responses"
        BY <1>5 DEF SerialResponse, IsResponse
      <3> QED
        BY <3>1, <3>2, NormalizedIsNormal
    <2>2. SinglePacket(c, sent(Normalized(p.topic), "response"))
      BY <1>2, <1>5, <2>1 DEF SerialResponse, InPlace, SinglePacket, Published, Kept, Stored
    <2> QED
      BY <1>2, <2>1, <2>2
  <1>6. CASE Message(c, p)
    <2>1. /\ p.topic \in MeshTopic
          /\ Normalized(p.topic) \in MeshTopic /\ Normal(Normalized(p.topic))
          /\ Normalized(p.topic).key.key = who[c]
          /\ Normalized(p.topic).loc.code = p.topic.loc.code
          /\ p.topic.loc.code \in Airports \union {"test"}
      <3>1. /\ p.topic \in MeshTopic /\ p.topic.key.key = who[c]
            /\ p.topic.loc.code \in Airports \union {"test"}
        BY <1>1, <1>6 DEF Message, InPlace, OwnKey, ValidLocation
      <3> QED
        BY <3>1, NormalizedIsNormal
    <2> DEFINE e == sent(Normalized(p.topic), "message")
               r == [topic |-> Exact(p.topic.loc.code, who[c], "internal"),
                     by |-> "broker", kind |-> "internal", shows |-> packets[who[c]] + 1]
    <2>2. e \in Entry
      BY <1>2, <2>1
    <2>3. Published(c, e)
      BY <1>6, <2>1, <2>2 DEF Message, InPlace, Published
    <2>4. retained' \in {Stored(retained, r), Stored(Stored(retained, r), e)}
      BY <1>6 DEF Message, Kept, InternalPackets
    <2>5. MessageAndRecord(c, e, r)
      BY <1>6, <2>1, <2>3, <2>4
         DEF Message, MessageAndRecord, InternalPackets, TrackedLocation
    <2> QED
      BY <2>2, <2>5
  <1> QED
    BY <1>3, <1>4, <1>5, <1>6 DEF Allowed

LEMMA StepEffect ==
    ASSUME [Next]_vars
    PROVE  \/ UNCHANGED <<tracked, packets, retained, log, commands>>
           \/ /\ UNCHANGED subscribed
              /\ \E c \in Clients, e \in Entry :
                    \/ SinglePacket(c, e)
                    \/ \E r : MessageAndRecord(c, e, r)
  <1>1. ASSUME NEW c \in Clients, NEW p \in Packets, Publish(c, p)
        PROVE  /\ UNCHANGED subscribed
               /\ \E e \in Entry : \/ SinglePacket(c, e)
                                   \/ \E r : MessageAndRecord(c, e, r)
    BY <1>1, AllowedEffect DEF Publish
  <1>2. ASSUME NEW c \in Clients, Will(c)
        PROVE  \/ UNCHANGED <<tracked, packets, retained, log, commands>>
               \/ /\ UNCHANGED subscribed
                  /\ \E e \in Entry : \/ SinglePacket(c, e)
                                      \/ \E r : MessageAndRecord(c, e, r)
    <2>1. UNCHANGED subscribed
      BY <1>2 DEF Will
    <2>2. CASE will[c] # NoWill /\ Allowed(c, will[c])
      BY <2>1, <2>2, AllowedEffect, TopicAccessAssumption
    <2>3. CASE will[c] # NoWill /\ Refused(c, will[c])
      BY <2>3 DEF Refused
    <2>4. CASE UNCHANGED <<tracked, packets, retained, log, commands>>
      BY <2>4
    <2> QED
      BY <1>2, <2>2, <2>3, <2>4 DEF Will
  <1>3. ASSUME NEW c \in Clients, NEW p \in Packets,
               PublishRefused(c, p) \/ PublishCloses(c, p)
        PROVE  UNCHANGED <<tracked, packets, retained, log, commands>>
    BY <1>3 DEF PublishRefused, Refused, PublishCloses
  <1>4. ASSUME NEW c \in Clients,
               Leave(c) \/ \E f \in Filters : Subscribe(c, f)
        PROVE  UNCHANGED <<tracked, packets, retained, log, commands>>
    BY <1>4 DEF Leave, Subscribe
  <1>5. CASE UNCHANGED vars
    BY <1>5 DEF vars
  <1> QED
    BY <1>1, <1>2, <1>3, <1>4, <1>5 DEF Next

----------------------------------------------------------------------------
(* The log after a packet, and after a message with its record.            *)
LEMMA LogGrows ==
    ASSUME log \in Seq(Entry), NEW e \in Entry
    PROVE  /\ log' = log \o <<e>> =>
                /\ log' \in Seq(Entry) /\ Len(log') = Len(log) + 1
                /\ \A i \in 1..Len(log) : log'[i] = log[i]
                /\ log'[Len(log) + 1] = e
                /\ Logged' = Logged \union {e}
           /\ \A r \in Entry : log' = Append(log, r) \o <<e>> =>
                /\ log' \in Seq(Entry) /\ Len(log') = Len(log) + 2
                /\ \A i \in 1..Len(log) : log'[i] = log[i]
                /\ log'[Len(log) + 1] = r /\ log'[Len(log) + 2] = e
                /\ Logged' = Logged \union {r, e}
  <1>1. ASSUME log' = log \o <<e>>
        PROVE  /\ log' \in Seq(Entry) /\ Len(log') = Len(log) + 1
               /\ \A i \in 1..Len(log) : log'[i] = log[i]
               /\ log'[Len(log) + 1] = e
               /\ Logged' = Logged \union {e}
    <2>1. /\ log' \in Seq(Entry) /\ Len(log') = Len(log) + 1
          /\ \A i \in 1..Len(log) : log'[i] = log[i]
          /\ log'[Len(log) + 1] = e
      BY <1>1
    <2>2. DOMAIN log = 1..Len(log) /\ DOMAIN log' = 1..(Len(log) + 1) /\ Len(log) \in Nat
      BY <2>1
    <2>3. Logged' \subseteq Logged \union {e}
      BY <2>1, <2>2 DEF Logged
    <2>4. Logged \union {e} \subseteq Logged'
      BY <2>1, <2>2 DEF Logged
    <2> QED
      BY <2>1, <2>3, <2>4
  <1>2. ASSUME NEW r \in Entry, log' = Append(log, r) \o <<e>>
        PROVE  /\ log' \in Seq(Entry) /\ Len(log') = Len(log) + 2
               /\ \A i \in 1..Len(log) : log'[i] = log[i]
               /\ log'[Len(log) + 1] = r /\ log'[Len(log) + 2] = e
               /\ Logged' = Logged \union {r, e}
    <2>1. /\ log' \in Seq(Entry) /\ Len(log') = Len(log) + 2
          /\ \A i \in 1..Len(log) : log'[i] = log[i]
          /\ log'[Len(log) + 1] = r /\ log'[Len(log) + 2] = e
      BY <1>2
    <2>2. DOMAIN log = 1..Len(log) /\ DOMAIN log' = 1..(Len(log) + 2) /\ Len(log) \in Nat
      BY <2>1
    <2>3. Logged' \subseteq Logged \union {r, e}
      BY <2>1, <2>2 DEF Logged
    <2>4. Logged \union {r, e} \subseteq Logged'
      BY <2>1, <2>2 DEF Logged
    <2> QED
      BY <2>1, <2>3, <2>4
  <1> QED
    BY <1>1, <1>2

(* The record made for a message is an entry.                              *)
LEMMA RecordIsEntry ==
    ASSUME TypeOK, NEW c \in Clients, NEW e, NEW r, MessageAndRecord(c, e, r)
    PROVE  /\ r \in Entry /\ r.topic \in MeshTopic /\ Normal(r.topic)
           /\ who[c] \in Keys /\ r.by = "broker" /\ r.kind = "internal"
           /\ r.topic.key.key = who[c] /\ r.shows = packets[who[c]] + 1
           /\ r.topic.loc = e.topic.loc
           /\ e.topic.key.key = who[c] /\ e.topic.loc.code \in Airports \union {"test"}
  <1> DEFINE k == who[c]
             t == Exact(e.topic.loc.code, k, "internal")
  <1>1. k \in Keys /\ packets[k] + 1 \in Nat
    BY DEF MessageAndRecord, Published, TypeOK
  <1>2. t \in MeshTopic /\ Normal(t)
    BY <1>1 DEF MessageAndRecord, Exact, MeshTopic, Codes, Spelling, Subtopics, Normal,
                Normalized, Trimmed
  <1>3. r = [topic |-> t, by |-> "broker", kind |-> "internal", shows |-> packets[k] + 1]
    BY DEF MessageAndRecord
  <1>4. t.loc = e.topic.loc /\ t.key.key = k
    BY DEF MessageAndRecord, Published, Normal, Normalized, Exact
  <1> HIDE DEF t
  <1>5. r \in Entry
    BY <1>1, <1>2, <1>3 DEF Entry
  <1> QED
    BY <1>1, <1>2, <1>3, <1>4, <1>5 DEF MessageAndRecord, Published

----------------------------------------------------------------------------
(* Type correctness.                                                       *)
LEMMA TypeInit == Init => TypeOK
  BY DEF Init, TypeOK

LEMMA ConnectionsTyped ==
    ASSUME TypeOK, [Next]_vars
    PROVE  /\ conn' \in [Clients -> {"open", "closing", "closed"}]
           /\ subscribed' \in [Clients -> SUBSET Filters]
  BY DEF TypeOK, Next, Publish, PublishRefused, PublishCloses, Subscribe, Leave, Will, vars

LEMMA TypeStep == TypeOK /\ [Next]_vars => TypeOK'
  <1> SUFFICES ASSUME TypeOK, [Next]_vars
               PROVE  TypeOK'
    OBVIOUS
  <1> USE DEF TypeOK
  <1>1. CASE UNCHANGED <<tracked, packets, retained, log, commands>>
    BY <1>1, ConnectionsTyped
  <1>2. ASSUME NEW c \in Clients, NEW e \in Entry, SinglePacket(c, e)
        PROVE  TypeOK'
    <2>1. log' \in Seq(Entry)
      BY <1>2, LogGrows DEF SinglePacket, Passed
    <2>2. commands' \in [Clients -> SUBSET Entry]
      BY <1>2 DEF SinglePacket, Passed
    <2> QED
      BY <1>2, <2>1, <2>2, ConnectionsTyped DEF SinglePacket
  <1>3. ASSUME NEW c \in Clients, NEW e \in Entry, NEW r, MessageAndRecord(c, e, r)
        PROVE  TypeOK'
    <2>1. r \in Entry
      BY <1>3, RecordIsEntry
    <2>2. log' \in Seq(Entry)
      BY <1>3, <2>1, LogGrows DEF MessageAndRecord, Passed
    <2>3. commands' \in [Clients -> SUBSET Entry]
      BY <1>3 DEF MessageAndRecord, Passed
    <2>4. retained' \subseteq Entry
      BY <1>3, <2>1 DEF MessageAndRecord, Stored
    <2>5. tracked' \in [Keys -> SUBSET (Airports \union {"test"})] /\ packets' \in [Keys -> Nat]
      <3>1. /\ tracked' = [tracked EXCEPT ![who[c]] = @ \union {e.topic.loc.code}]
            /\ packets' = [packets EXCEPT ![who[c]] = @ + 1]
        BY <1>3 DEF MessageAndRecord
      <3>2. who[c] \in Keys /\ e.topic.loc.code \in Airports \union {"test"}
        BY <1>3, RecordIsEntry
      <3> QED
        BY <3>1, <3>2
    <2> QED
      BY <2>2, <2>3, <2>4, <2>5, ConnectionsTyped
  <1> QED
    BY <1>1, <1>2, <1>3, StepEffect

(* Type correctness of the authorization (server.ts 252-602): whatever is  *)
(* published and retained is an entry, and locations that are tracked are  *)
(* airports or the test region.                                            *)
THEOREM TypeCorrect == Spec => []TypeOK
  BY TypeInit, TypeStep, PTL DEF Spec

----------------------------------------------------------------------------
(* The steps of the invariant: what each keeps, given the rest.            *)
LEMMA FiltersOwnStep == FiltersOwn /\ TypeOK /\ [Next]_vars => FiltersOwn'
  <1> SUFFICES ASSUME FiltersOwn, TypeOK, [Next]_vars,
                      NEW d \in Clients, NEW g \in subscribed'[d]
               PROVE  MaySubscribe(d, g)
    BY DEF FiltersOwn
  <1>1. \/ g \in subscribed[d]
        \/ \E c \in Clients, f \in Filters :
              /\ MaySubscribe(c, f)
              /\ subscribed' = [subscribed EXCEPT ![c] = @ \union {f}]
    BY DEF Next, Publish, PublishRefused, PublishCloses, Subscribe, Leave, Will, vars
  <1> QED
    BY <1>1 DEF FiltersOwn, TypeOK

(* What is logged by a step, and what is retained.                         *)
LEMMA NewEntries ==
    ASSUME TypeOK, [Next]_vars
    PROVE  /\ \A e \in Logged' \union retained' :
                 \/ e \in Logged \union retained
                 \/ \E c \in Clients : Published(c, e)
                 \/ /\ e.by = "broker" /\ e.kind = "internal"
                    /\ e.topic \in MeshTopic /\ Normal(e.topic)
           /\ \A e \in Logged' :
                 \/ e \in Logged
                 \/ \E c \in Clients : Published(c, e)
                 \/ /\ e.by = "broker" /\ e.kind = "internal"
                    /\ e.topic \in MeshTopic /\ Normal(e.topic)
  <1>1. CASE UNCHANGED <<tracked, packets, retained, log, commands>>
    BY <1>1 DEF Logged
  <1>2. ASSUME NEW c \in Clients, NEW e \in Entry, SinglePacket(c, e)
        PROVE  /\ Logged' = Logged \union {e} /\ retained' \subseteq retained \union {e}
               /\ Published(c, e)
    BY <1>2, LogGrows DEF SinglePacket, Passed, TypeOK
  <1>3. ASSUME NEW c \in Clients, NEW e \in Entry, NEW r, MessageAndRecord(c, e, r)
        PROVE  /\ Logged' = Logged \union {r, e} /\ retained' \subseteq retained \union {r, e}
               /\ Published(c, e) /\ r.by = "broker" /\ r.kind = "internal"
               /\ r.topic \in MeshTopic /\ Normal(r.topic)
    <2>1. /\ r \in Entry /\ r.topic \in MeshTopic /\ Normal(r.topic)
          /\ r.by = "broker" /\ r.kind = "internal"
      BY <1>3, RecordIsEntry
    <2>2. log' = Append(log, r) \o <<e>> /\ retained' \subseteq Stored(retained, r) \union {e}
      BY <1>3 DEF MessageAndRecord, Passed, Stored
    <2>3. Logged' = Logged \union {r, e}
      BY <2>1, <2>2, LogGrows DEF TypeOK
    <2> QED
      BY <1>3, <2>1, <2>2, <2>3 DEF Stored, MessageAndRecord
  <1> QED
    BY <1>1, <1>2, <1>3, StepEffect

LEMMA TopicsNormalStep == TopicsNormal /\ TypeOK /\ [Next]_vars => TopicsNormal'
  <1> SUFFICES ASSUME TopicsNormal, TypeOK, [Next]_vars,
                      NEW e \in Logged', e.kind \in {"message", "response", "internal"}
               PROVE  e.topic \in MeshTopic /\ Normal(e.topic)
    BY DEF TopicsNormal, OfPublishers
  <1> QED
    BY NewEntries DEF TopicsNormal, OfPublishers, Published

LEMMA TopicsOwnedStep == TopicsOwned /\ TypeOK /\ [Next]_vars => TopicsOwned'
  <1> SUFFICES ASSUME TopicsOwned, TypeOK, [Next]_vars,
                      NEW e \in Logged' \union retained'
               PROVE  \/ e.kind = "internal" /\ e.by = "broker"
                      \/ e.kind \in {"command", "delete"} /\ who[e.by] = "ADMIN"
                      \/ e.kind \in {"message", "response"} /\ who[e.by] = e.topic.key.key
    BY DEF TopicsOwned
  <1> QED
    BY NewEntries DEF TopicsOwned, Published

(* The locations of the messages of a key.                                 *)
LEMMA LocationsTrackedStep ==
    LocationsTracked /\ TypeOK /\ [Next]_vars => LocationsTracked'
  <1> SUFFICES ASSUME LocationsTracked, TypeOK, [Next]_vars, NEW k \in Keys
               PROVE  tracked'[k] = {e.topic.loc.code : e \in
                         {d \in Logged' : d.kind = "message" /\ d.topic.key.key = k}}
    BY DEF LocationsTracked
  <1>0. tracked[k] = {e.topic.loc.code : e \in
            {d \in Logged : d.kind = "message" /\ d.topic.key.key = k}}
    BY DEF LocationsTracked
  <1>1. CASE UNCHANGED <<tracked, packets, retained, log, commands>>
    BY <1>0, <1>1 DEF Logged
  <1>2. ASSUME NEW c \in Clients, NEW e \in Entry, SinglePacket(c, e)
        PROVE  tracked'[k] = {f.topic.loc.code : f \in
                  {d \in Logged' : d.kind = "message" /\ d.topic.key.key = k}}
    <2>1. Logged' = Logged \union {e}
      BY <1>2, LogGrows DEF SinglePacket, Passed, TypeOK
    <2>2. e.kind # "message" /\ tracked' = tracked
      BY <1>2 DEF SinglePacket
    <2> QED
      BY <1>0, <2>1, <2>2
  <1>3. ASSUME NEW c \in Clients, NEW e \in Entry, NEW r, MessageAndRecord(c, e, r)
        PROVE  tracked'[k] = {f.topic.loc.code : f \in
                  {d \in Logged' : d.kind = "message" /\ d.topic.key.key = k}}
    <2>1. /\ r \in Entry /\ r.kind = "internal"
          /\ who[c] \in Keys /\ e.topic.key.key = who[c]
      BY <1>3, RecordIsEntry
    <2>2. /\ e.kind = "message" /\ log' = Append(log, r) \o <<e>>
          /\ tracked' = [tracked EXCEPT ![who[c]] = @ \union {e.topic.loc.code}]
      BY <1>3 DEF MessageAndRecord, Passed
    <2>3. Logged' = Logged \union {r, e}
      BY <2>1, <2>2, LogGrows DEF TypeOK
    <2>4. CASE k = who[c]
      <3>1. tracked'[k] = tracked[k] \union {e.topic.loc.code}
        BY <2>1, <2>2, <2>4 DEF TypeOK
      <3>2. {d \in Logged' : d.kind = "message" /\ d.topic.key.key = k}
              = {d \in Logged : d.kind = "message" /\ d.topic.key.key = k} \union {e}
        BY <2>1, <2>2, <2>3, <2>4
      <3> QED
        BY <1>0, <3>1, <3>2
    <2>5. CASE k # who[c]
      <3>1. tracked'[k] = tracked[k]
        BY <2>1, <2>2, <2>5 DEF TypeOK
      <3>2. {d \in Logged' : d.kind = "message" /\ d.topic.key.key = k}
              = {d \in Logged : d.kind = "message" /\ d.topic.key.key = k}
        BY <2>1, <2>2, <2>3, <2>5
      <3> QED
        BY <1>0, <3>1, <3>2
    <2> QED
      BY <2>4, <2>5
  <1> QED
    BY <1>1, <1>2, <1>3, StepEffect

(* Commands: a packet is handed to those whose filters match its topic.    *)
LEMMA CommandsStep ==
    CommandsToAddressee /\ FiltersOwn /\ TypeOK /\ [Next]_vars => CommandsToAddressee'
  <1> SUFFICES ASSUME CommandsToAddressee, FiltersOwn, TypeOK, [Next]_vars,
                      NEW d \in Publishers, NEW e \in commands'[d]
               PROVE  e.topic.key.key = who[d] /\ who[e.by] \in {"ADMIN", who[d]}
    BY DEF CommandsToAddressee, Publishers
  <1>1. d \in Clients
    BY DEF Publishers
  <1>2. \/ e \in commands[d]
        \/ \E c \in Clients, f \in subscribed[d] :
              Published(c, e) /\ Matches(f, e.topic)
    <2>1. \A c \in Clients, f \in Entry :
              (\/ SinglePacket(c, f) \/ \E r : MessageAndRecord(c, f, r)) =>
                  /\ Published(c, f)
                  /\ commands' = [b \in Clients |->
                        IF conn[b] = "open" /\ \E g \in subscribed[b] : Matches(g, f.topic)
                        THEN commands[b] \union {f} ELSE commands[b]]
      BY DEF SinglePacket, MessageAndRecord, Passed
    <2>2. CASE commands' = commands
      BY <2>2
    <2>3. CASE commands' # commands
      <3>1. PICK c \in Clients, f \in Entry :
                  \/ SinglePacket(c, f) \/ \E r : MessageAndRecord(c, f, r)
        BY <2>3, StepEffect
      <3>2. commands'[d] = IF conn[d] = "open" /\ \E g \in subscribed[d] : Matches(g, f.topic)
                           THEN commands[d] \union {f} ELSE commands[d]
        BY <1>1, <2>1, <3>1
      <3>3. Published(c, f)
        BY <2>1, <3>1
      <3> QED
        BY <3>2, <3>3
    <2> QED
      BY <2>2, <2>3
  <1>3. CASE e \in commands[d]
    BY <1>3 DEF CommandsToAddressee
  <1>4. ASSUME NEW c \in Clients, NEW f \in subscribed[d],
               Published(c, e), Matches(f, e.topic)
        PROVE  e.topic.key.key = who[d] /\ who[e.by] \in {"ADMIN", who[d]}
    <2>1. f.key.key = who[d]
      BY <1>1 DEF FiltersOwn, MaySubscribe
    <2>2. e.topic.key.key = who[d]
      BY <1>4, <2>1 DEF Matches
    <2> QED
      BY <1>4, <2>2 DEF Published
  <1> QED
    BY <1>2, <1>3, <1>4

----------------------------------------------------------------------------
(* The records of the broker after a step: no client's packet is one.      *)
LEMMA BrokerRecords ==
    ASSUME NEW c \in Clients, NEW e \in Entry, NEW q \in retained', q.by = "broker"
    PROVE  /\ SinglePacket(c, e) => q \in retained
           /\ \A r : MessageAndRecord(c, e, r) =>
                        q = r \/ (q \in retained /\ q.topic # r.topic)
  BY TopicAccessAssumption DEF SinglePacket, MessageAndRecord, Published, Stored

LEMMA RecordsCountedStep == RecordsCounted /\ TypeOK /\ [Next]_vars => RecordsCounted'
  <1> SUFFICES ASSUME RecordsCounted, TypeOK, [Next]_vars,
                      NEW q \in retained', q.by = "broker"
               PROVE  /\ q.topic = Exact(q.topic.loc.code, q.topic.key.key, "internal")
                      /\ q.topic.key.key \in Keys
                      /\ q.shows <= packets'[q.topic.key.key]
    BY DEF RecordsCounted
  <1>1. CASE UNCHANGED <<tracked, packets, retained, log, commands>>
    BY <1>1 DEF RecordsCounted
  <1>2. ASSUME NEW c \in Clients, NEW e \in Entry, SinglePacket(c, e)
        PROVE  /\ q.topic = Exact(q.topic.loc.code, q.topic.key.key, "internal")
               /\ q.topic.key.key \in Keys
               /\ q.shows <= packets'[q.topic.key.key]
    <2>1. q \in retained
      BY <1>2, BrokerRecords
    <2> QED
      BY <1>2, <2>1 DEF RecordsCounted, SinglePacket
  <1>3. ASSUME NEW c \in Clients, NEW e \in Entry, NEW r, MessageAndRecord(c, e, r)
        PROVE  /\ q.topic = Exact(q.topic.loc.code, q.topic.key.key, "internal")
               /\ q.topic.key.key \in Keys
               /\ q.shows <= packets'[q.topic.key.key]
    <2>1. /\ packets' = [packets EXCEPT ![who[c]] = @ + 1] /\ who[c] \in Keys
          /\ packets \in [Keys -> Nat]
      BY <1>3, RecordIsEntry DEF MessageAndRecord, TypeOK
    <2>2. CASE q = r
      <3>1. /\ q.topic = Exact(e.topic.loc.code, who[c], "internal")
            /\ q.shows = packets[who[c]] + 1
        BY <1>3, <2>2 DEF MessageAndRecord
      <3>2. q.topic.loc.code = e.topic.loc.code /\ q.topic.key.key = who[c]
        BY <3>1 DEF Exact
      <3> QED
        BY <2>1, <3>1, <3>2
    <2>3. CASE q \in retained
      <3>1. /\ q.topic = Exact(q.topic.loc.code, q.topic.key.key, "internal")
            /\ q.topic.key.key \in Keys
            /\ q.shows <= packets[q.topic.key.key]
            /\ q.shows \in Nat
        BY <2>3 DEF RecordsCounted, TypeOK, Entry
      <3> QED
        BY <2>1, <3>1
    <2> QED
      BY <1>3, <2>2, <2>3, BrokerRecords
  <1> QED
    BY <1>1, <1>2, <1>3, StepEffect

(* InternalUpToDate for one key: two records never show the same number.   *)
RecordOf(k, r) == r \in retained /\ r.by = "broker" /\ r.topic.key.key = k

LEMMA RecordsDifferStep ==
    ASSUME InternalUpToDate, RecordsCounted, TypeOK, [Next]_vars, NEW k \in Keys
    PROVE  \A p, q : RecordOf(k, p)' /\ RecordOf(k, q)' /\ p.shows = q.shows => p = q
  <1> DEFINE Goal == \A p, q : RecordOf(k, p)' /\ RecordOf(k, q)' /\ p.shows = q.shows => p = q
  <1>1. /\ \A p, q : RecordOf(k, p) /\ RecordOf(k, q) /\ p.shows = q.shows => p = q
        /\ \A q : RecordOf(k, q) => q.shows \in Nat /\ q.shows <= packets[k]
    BY DEF InternalUpToDate, RecordsDiffer, RecordOf, RecordsCounted, TypeOK, Entry
  <1>2. CASE \A q : RecordOf(k, q)' => RecordOf(k, q)
    BY <1>1, <1>2
  <1>3. CASE UNCHANGED <<tracked, packets, retained, log, commands>>
    BY <1>2, <1>3 DEF RecordOf
  <1>4. ASSUME NEW c \in Clients, NEW e \in Entry, SinglePacket(c, e)
        PROVE  Goal
    BY <1>2, <1>4, BrokerRecords DEF RecordOf
  <1>5. ASSUME NEW c \in Clients, NEW e \in Entry, NEW r, MessageAndRecord(c, e, r)
        PROVE  Goal
    <2>1. r.topic.key.key = who[c] /\ r.shows = packets[who[c]] + 1 /\ packets[k] \in Nat
      BY <1>5, RecordIsEntry DEF TypeOK
    <2>2. \A q : RecordOf(k, q)' => q = r \/ RecordOf(k, q)
      BY <1>5, BrokerRecords DEF RecordOf
    <2>3. CASE k = who[c]
      <3>1. \A q : RecordOf(k, q) => q.shows # r.shows
        BY <1>1, <2>1, <2>3
      <3> QED
        BY <1>1, <2>2, <3>1
    <2>4. CASE k # who[c]
      BY <1>2, <2>1, <2>2, <2>4 DEF RecordOf
    <2> QED
      BY <2>3, <2>4
  <1> QED
    BY <1>3, <1>4, <1>5, StepEffect

(* And the last message of the key stays shown, unless it is replaced or   *)
(* deleted; LastShown(k, i) is what is asked of the place i of the log.    *)
LastShown(k, i) == LastMessage(k, i) => LastIsShown(k, i)

(* A step that logs no message of k, and replaces no record of k: what is  *)
(* retained on an /internal topic of k stays there or is deleted.          *)
LEMMA LastStaysShown ==
    ASSUME NEW k \in Keys, \A i \in DOMAIN log : LastShown(k, i),
           DOMAIN log \subseteq DOMAIN log',
           \A i \in DOMAIN log : log'[i] = log[i],
           \A i \in DOMAIN log' : i \in DOMAIN log \/
                log'[i].kind # "message" \/ log'[i].topic.key.key # k,
           packets'[k] = packets[k],
           \A q \in retained : \A loc : q.topic = Exact(loc, k, "internal") =>
                \/ q \in retained'
                \/ \E j \in DOMAIN log' :
                      /\ log'[j].kind = "delete" /\ log'[j].topic = q.topic
                      /\ \A i \in DOMAIN log : j > i
    PROVE  \A i \in DOMAIN log' : LastShown(k, i)'
  <1> SUFFICES ASSUME NEW i \in DOMAIN log', LastMessage(k, i)'
               PROVE  LastIsShown(k, i)'
    BY DEF LastShown
  <1>1. i \in DOMAIN log /\ log'[i] = log[i]
    BY DEF LastMessage
  <1>2. LastMessage(k, i)
    BY <1>1 DEF LastMessage
  <1>3. LastIsShown(k, i)
    BY <1>1, <1>2 DEF LastShown
  <1> QED
    BY <1>1, <1>3 DEF LastIsShown

LEMMA LastShownStep ==
    ASSUME InternalUpToDate, TypeOK, [Next]_vars, NEW k \in Keys
    PROVE  \A i \in DOMAIN log' : LastShown(k, i)'
  <1> DEFINE Goal == \A i \in DOMAIN log' : LastShown(k, i)'
  <1>0. \A i \in DOMAIN log : LastShown(k, i)
    BY DEF InternalUpToDate, LastShown
  <1>1. CASE UNCHANGED <<tracked, packets, retained, log, commands>>
    BY <1>0, <1>1 DEF LastShown, LastMessage, LastIsShown
  <1>2. ASSUME NEW c \in Clients, NEW e \in Entry, SinglePacket(c, e)
        PROVE  Goal
    <2>1. /\ Len(log') = Len(log) + 1 /\ log' \in Seq(Entry)
          /\ \A i \in 1..Len(log) : log'[i] = log[i]
          /\ log'[Len(log) + 1] = e
      BY <1>2, LogGrows DEF SinglePacket, Passed, TypeOK
    <2>2. DOMAIN log = 1..Len(log) /\ DOMAIN log' = 1..(Len(log) + 1) /\ Len(log) \in Nat
      BY <2>1 DEF TypeOK
    <2>3. e.kind # "message" /\ packets' = packets
      BY <1>2 DEF SinglePacket
    <2>4. ASSUME NEW q \in retained, NEW loc, q.topic = Exact(loc, k, "internal")
          PROVE  \/ q \in retained'
                 \/ \E j \in DOMAIN log' :
                       /\ log'[j].kind = "delete" /\ log'[j].topic = q.topic
                       /\ \A i \in DOMAIN log : j > i
      <3>1. q.topic.sub.name = "internal"
        BY <2>4 DEF Exact
      <3>2. q \in retained' \/ (e.kind = "delete" /\ e.topic = q.topic)
        BY <1>2, <3>1 DEF SinglePacket
      <3> QED
        BY <2>1, <2>2, <3>2
    <2> QED
      BY <1>0, <2>1, <2>2, <2>3, <2>4, LastStaysShown
  <1>3. ASSUME NEW c \in Clients, NEW e \in Entry, NEW r, MessageAndRecord(c, e, r)
        PROVE  Goal
    <2>1. /\ r \in Entry /\ r.by = "broker" /\ r.kind = "internal"
          /\ r.topic.key.key = who[c] /\ r.shows = packets[who[c]] + 1
          /\ who[c] \in Keys /\ e.topic.key.key = who[c]
      BY <1>3, RecordIsEntry
    <2>2. /\ r.topic = Exact(e.topic.loc.code, who[c], "internal")
          /\ packets' = [packets EXCEPT ![who[c]] = @ + 1]
          /\ retained' \in {Stored(retained, r), Stored(Stored(retained, r), e)}
          /\ e.kind = "message"
      BY <1>3 DEF MessageAndRecord
    <2>3. packets'[k] = IF k = who[c] THEN packets[k] + 1 ELSE packets[k]
      BY <2>1, <2>2 DEF TypeOK
    <2>4. /\ Len(log') = Len(log) + 2 /\ log' \in Seq(Entry)
          /\ \A i \in 1..Len(log) : log'[i] = log[i]
          /\ log'[Len(log) + 1] = r /\ log'[Len(log) + 2] = e
      BY <1>3, <2>1, LogGrows DEF MessageAndRecord, Passed, TypeOK
    <2>5. DOMAIN log = 1..Len(log) /\ DOMAIN log' = 1..(Len(log) + 2) /\ Len(log) \in Nat
      BY <2>4 DEF TypeOK
    <2>6. CASE k # who[c]
      <3>1. ASSUME NEW q \in retained, NEW loc, q.topic = Exact(loc, k, "internal")
            PROVE  q \in retained'
        <4>1. q.topic.key.key = k
          BY <3>1 DEF Exact
        <4>2. q.topic # r.topic /\ q.topic # e.topic
          BY <2>1, <2>6, <4>1
        <4> QED
          BY <2>2, <4>2 DEF Stored
      <3>2. \A i \in DOMAIN log' : i \in DOMAIN log \/
                log'[i].kind # "message" \/ log'[i].topic.key.key # k
        BY <2>1, <2>4, <2>5, <2>6
      <3> QED
        BY <1>0, <2>3, <2>4, <2>5, <2>6, <3>1, <3>2, LastStaysShown
    <2>7. CASE k = who[c]
      <3> SUFFICES ASSUME NEW i \in DOMAIN log', LastMessage(k, i)'
                   PROVE  LastIsShown(k, i)'
        BY DEF LastShown
      <3>1. i = Len(log) + 2
        BY <2>1, <2>2, <2>4, <2>5, <2>7 DEF LastMessage
      <3>2. log'[i] = e /\ r.topic = Exact(log'[i].topic.loc.code, k, "internal")
        BY <2>2, <2>4, <2>7, <3>1
      <3>3. \/ r \in retained'
            \/ e \in retained' /\ e.topic = r.topic
        BY <2>2 DEF Stored
      <3>4. r.by = "broker" /\ r.shows = packets'[k]
        BY <2>1, <2>3, <2>7
      <3> QED
        BY <3>2, <3>3, <3>4 DEF LastIsShown
    <2> QED
      BY <2>6, <2>7
  <1> QED
    BY <1>1, <1>2, <1>3, StepEffect

LEMMA InternalStep ==
    InternalUpToDate /\ RecordsCounted /\ TypeOK /\ [Next]_vars => InternalUpToDate'
  <1> SUFFICES ASSUME InternalUpToDate, RecordsCounted, TypeOK, [Next]_vars,
                      NEW k \in Keys
               PROVE  /\ RecordsDiffer(k)'
                      /\ \A i \in DOMAIN log' : LastMessage(k, i)' => LastIsShown(k, i)'
    BY DEF InternalUpToDate
  <1>1. RecordsDiffer(k)'
    BY RecordsDifferStep, RecordsCountedStep DEF RecordsDiffer, RecordOf, RecordsCounted
  <1> QED
    BY <1>1, LastShownStep DEF LastShown

----------------------------------------------------------------------------
(* The inductive invariant holds at first, and every step keeps it.        *)
LEMMA InvInit == Init => IInv
  <1> SUFFICES ASSUME Init
               PROVE  IInv
    OBVIOUS
  <1>1. Logged = {} /\ OfPublishers = {}
    BY DEF Init, Logged, OfPublishers
  <1> QED
    BY <1>1, TypeInit
       DEF Init, IInv, FiltersOwn, TopicsNormal, RecordsCounted, TopicsOwned,
           LocationsTracked, InternalUpToDate, RecordsDiffer, CommandsToAddressee, Publishers

LEMMA InvStep == IInv /\ [Next]_vars => IInv'
  BY TypeStep, FiltersOwnStep, TopicsNormalStep, RecordsCountedStep, TopicsOwnedStep,
     LocationsTrackedStep, InternalStep, CommandsStep
     DEF IInv

LEMMA InvAlways == Spec => []IInv
  BY InvInit, InvStep, PTL DEF Spec

(* All that publishers publish for a location, a key and a subtopic goes   *)
(* out on one topic, in whatever case they write location and key and with *)
(* whatever blanks; only the case of the subtopic is theirs                *)
(* (OneTopicPerPlace, server.ts:399-403).                                  *)
THEOREM PlacesHaveOneTopic == Spec => []OneTopicPerPlace
  <1>1. IInv => OneTopicPerPlace
    <2> SUFFICES ASSUME TopicsNormal, NEW e \in OfPublishers, NEW f \in OfPublishers,
                        e.topic.loc.code = f.topic.loc.code,
                        e.topic.key.key = f.topic.key.key,
                        Trimmed(e.topic.sub) = Trimmed(f.topic.sub)
                 PROVE  e.topic = f.topic
      BY DEF IInv, OneTopicPerPlace
    <2>1. e.topic = Normalized(e.topic) /\ f.topic = Normalized(f.topic)
      BY DEF TopicsNormal, Normal
    <2>2. \A t \in MeshTopic : Normalized(t) =
              [loc |-> [code |-> t.loc.code, as |-> "exact"],
               key |-> [key |-> t.key.key, as |-> "exact"], sub |-> Trimmed(t.sub)]
      BY DEF Normalized, Exact
    <2>3. e.topic \in MeshTopic /\ f.topic \in MeshTopic
      BY DEF TopicsNormal
    <2> QED
      BY <2>1, <2>2, <2>3
  <1> QED
    BY <1>1, InvAlways, PTL

(* What passes or is retained under a public key comes from its owner, the *)
(* broker or an admin, wills included (TopicsOwned).                       *)
THEOREM TopicsHaveOwners == Spec => []TopicsOwned
  BY InvAlways, PTL DEF IInv

(* The abuse detector is told of exactly the locations published under     *)
(* (LocationsTracked, server.ts:456-457).                                  *)
THEOREM LocationsAreTracked == Spec => []LocationsTracked
  BY InvAlways, PTL DEF IInv

(* The broker's retained /internal records of a key show different numbers *)
(* of packets, none more than were counted; at the location of the key's   *)
(* last message one that shows them all is retained, unless that message   *)
(* was itself retained in its place or an admin deleted it since           *)
(* (InternalUpToDate, server.ts:487-529).                                  *)
THEOREM InternalIsUpToDate == Spec => []InternalUpToDate
  BY InvAlways, PTL DEF IInv

(* Publishers are handed commands addressed to them only, from an admin or *)
(* from a client with their key (CommandsToAddressee, server.ts:569-584).  *)
THEOREM CommandsReachAddressee == Spec => []CommandsToAddressee
  BY InvAlways, PTL DEF IInv

=============================================================================
