-------------------------- MODULE ForwardingProofs --------------------------
(***************************************************************************)
(* Proofs about Forwarding, for every set of clients, roles, filters,      *)
(* origins and packets, and for logs of every length.                      *)
(***************************************************************************)
EXTENDS Forwarding, SequenceTheorems, TLAPS

(* What a client was shown of an origin is not newer than the time kept.   *)
ShownByThen ==
    \A c \in Clients : \A i \in DOMAIN received[c] :
        TimedStatus(received[c][i]) =>
            received[c][i].time <= lastStatusTimestamps[received[c][i].origin]

(* Client c has been given a status of origin o at least as new as t.      *)
Given(c, o, t) ==
    \E i \in DOMAIN received[c] :
        /\ TimedStatus(received[c][i])
        /\ received[c][i].origin = o
        /\ received[c][i].time >= t

(* Client c has still to be handed a status of origin o exactly as new as  *)
(* t, which reaches it.                                                    *)
Pending(c, o, t) ==
    \E k \in DOMAIN log :
        /\ k >= next[c] /\ Reaches(c, k)
        /\ StatusOf(o, k) /\ log[k].time = t

(* A status of o exactly as new as t was handed to another client, and does*)
(* not reach c.                                                            *)
Unseen(c, o, t) ==
    \E k \in DOMAIN log :
        /\ ~Reaches(c, k)
        /\ \E d \in Clients : Reaches(d, k) /\ k < next[d]
        /\ StatusOf(o, k) /\ log[k].time = t

(* The time kept for an origin is that of a message every client was given,*)
(* has still to be handed, or is out of the reach of.                      *)
TimeIsPublished ==
    \A c \in Clients, o \in Origins :
        lastStatusTimestamps[o] # 0 =>
            \/ Given(c, o, lastStatusTimestamps[o])
            \/ Pending(c, o, lastStatusTimestamps[o])
            \/ Unseen(c, o, lastStatusTimestamps[o])

(* What a client has been handed is not newer than the time kept, and it   *)
(* was given one as new unless the time kept is newer.                     *)
HandedByThen ==
    \A c \in Clients : \A k \in DOMAIN log :
        k < next[c] /\ Reaches(c, k) /\ TimedStatus(log[k]) =>
            /\ log[k].time <= lastStatusTimestamps[log[k].origin]
            /\ \/ Given(c, log[k].origin, log[k].time)
               \/ log[k].time < lastStatusTimestamps[log[k].origin]

(* No client is ahead of the log, and none that has not subscribed has a   *)
(* place in it.                                                            *)
InLog ==
    \A c \in Clients :
        /\ next[c] <= Len(log) + 1 /\ since[c] <= next[c]
        /\ since[c] = 0 => next[c] = 0

(* The inductive invariant.                                                *)
IInv ==
    /\ TypeOK
    /\ InLog
    /\ NeverBackwards
    /\ ShownByThen
    /\ TimeIsPublished
    /\ HandedByThen

----------------------------------------------------------------------------
(* The parts of a packet.                                                  *)
LEMMA PacketParts ==
    ASSUME NEW p \in PacketType
    PROVE  /\ p.origin \in Origins /\ p.time \in Nat
           /\ \A r : /\ View(r, p) \in PacketType
                     /\ View(r, p).topic = p.topic
                     /\ View(r, p).origin = p.origin
                     /\ View(r, p).time = p.time
                     /\ TimedStatus(View(r, p)) <=> TimedStatus(p)
  BY DEF PacketType, View, TimedStatus

(* A turn, for whatever becomes of the packet.                             *)
LEMMA TurnFacts ==
    ASSUME TypeOK, InLog, NEW c \in Clients, NEW p \in Packets, Turn(c, p)
    PROVE  /\ log \in Seq(Packets) /\ DOMAIN log = 1..Len(log) /\ Len(log) \in Nat
           /\ next \in [Clients -> Nat] /\ since \in [Clients -> Nat]
           /\ since[c] # 0 /\ next[c] \in DOMAIN log /\ log[next[c]] = p
           /\ \A d \in Clients : next'[d] = IF d = c THEN next[c] + 1 ELSE next[d]
           /\ UNCHANGED <<log, since>>
           /\ InLog'
           /\ \A d \in Clients, k \in DOMAIN log : Reaches(d, k)' <=> Reaches(d, k)
  <1>1. /\ log \in Seq(Packets) /\ DOMAIN log = 1..Len(log) /\ Len(log) \in Nat
        /\ next \in [Clients -> Nat] /\ since \in [Clients -> Nat]
        /\ since[c] # 0 /\ next[c] <= Len(log) /\ log[next[c]] = p
        /\ \A d \in Clients : next'[d] = IF d = c THEN next[c] + 1 ELSE next[d]
        /\ log' = log /\ since' = since
    BY DEF TypeOK, Turn
  <1>2. /\ since[c] \in Nat /\ next[c] \in Nat /\ since[c] <= next[c]
        /\ \A d \in Clients : next[d] \in Nat /\ since[d] \in Nat
    BY <1>1 DEF InLog
  <1>3. next[c] \in DOMAIN log
    BY <1>1, <1>2
  <1>4. InLog'
    BY <1>1, <1>2 DEF InLog
  <1>5. \A d \in Clients, k \in DOMAIN log : Reaches(d, k)' <=> Reaches(d, k)
    BY <1>1 DEF Reaches
  <1> QED
    BY <1>1, <1>3, <1>4, <1>5

(* Type correctness.                                                       *)
LEMMA TypeStep == TypeOK /\ [Next]_vars => TypeOK'
  <1> SUFFICES ASSUME TypeOK, [Next]_vars
               PROVE  TypeOK'
    OBVIOUS
  <1> USE DEF TypeOK
  <1>1. ASSUME NEW p \in Packets, Publish(p)
        PROVE  TypeOK'
    BY <1>1, AppendProperties DEF Publish
  <1>2. ASSUME NEW c \in Clients, Skip(c) \/ Withhold(c)
        PROVE  TypeOK'
    <2>1. PICK p \in Packets : Turn(c, p) /\ UNCHANGED <<lastStatusTimestamps, received>>
      BY <1>2 DEF Skip, Withhold, Handed
    <2>2. /\ next' = [next EXCEPT ![c] = @ + 1]
          /\ UNCHANGED <<log, since, lastStatusTimestamps, received>>
      BY <2>1 DEF Turn
    <2>3. next' \in [Clients -> Nat]
      BY <2>2
    <2> QED
      BY <2>2, <2>3
  <1>3. ASSUME NEW c \in Clients, Deliver(c)
        PROVE  TypeOK'
    <2>1. PICK p \in Packets :
              /\ Handed(c, p)
              /\ Observe(p)
              /\ received' = [received EXCEPT ![c] = Append(@, View(role[c], p))]
      BY <1>3 DEF Deliver
    <2>2. p \in PacketType /\ View(role[c], p) \in PacketType
      BY ForwardingAssumption, PacketParts
    <2>3. lastStatusTimestamps' \in [Origins -> Nat]
      BY <2>1, <2>2, PacketParts DEF Observe
    <2>4. received' \in [Clients -> Seq(PacketType)]
      BY <2>1, <2>2, AppendProperties
    <2> QED
      BY <2>1, <2>3, <2>4 DEF Handed, Turn
  <1>4. ASSUME NEW c \in Clients, Subscribe(c)
        PROVE  TypeOK'
    BY <1>4 DEF Subscribe
  <1>5. CASE UNCHANGED vars
    BY <1>5 DEF vars
  <1> QED
    BY <1>1, <1>2, <1>3, <1>4, <1>5 DEF Next

(* Type correctness: times stay naturals, what is delivered is a packet.   *)
THEOREM TypeCorrect == Spec => []TypeOK
  <1>1. Init => TypeOK
    BY EmptySeq DEF Init, TypeOK
  <1> QED
    BY <1>1, TypeStep, PTL DEF Spec

----------------------------------------------------------------------------
LEMMA IInvInit == Init => IInv
  <1> SUFFICES ASSUME Init PROVE IInv
    OBVIOUS
  <1>1. TypeOK
    BY EmptySeq DEF Init, TypeOK
  <1>2. /\ log = <<>>
        /\ \A c \in Clients : received[c] = <<>> /\ next[c] = 0 /\ since[c] = 0
    BY DEF Init
  <1>3. DOMAIN << >> = {} /\ Len(<< >>) = 0
    OBVIOUS
  <1>4. \A o \in Origins : lastStatusTimestamps[o] = 0
    BY DEF Init
  <1> QED
    BY <1>1, <1>2, <1>3, <1>4
    DEF IInv, InLog, NeverBackwards, ShownByThen, TimeIsPublished, HandedByThen

(* Publishing adds to the log and touches nothing else.                    *)
LEMMA PublishStep ==
    ASSUME IInv, TypeOK', NEW p \in Packets, Publish(p)
    PROVE  IInv'
  <1>1. /\ UNCHANGED <<since, next, lastStatusTimestamps, received>>
        /\ log' = Append(log, p)
        /\ log \in Seq(Packets)
        /\ \A c \in Clients : next[c] \in Nat /\ since[c] \in Nat
    BY DEF Publish, IInv, TypeOK
  <1>2. /\ DOMAIN log' = 1..(Len(log) + 1)
        /\ DOMAIN log = 1..Len(log) /\ Len(log) \in Nat
        /\ \A k \in 1..Len(log) : log'[k] = log[k]
    BY <1>1, AppendProperties
  <1>3. NeverBackwards' /\ ShownByThen'
    BY <1>1 DEF IInv, NeverBackwards, ShownByThen, TimedStatus
  <1>4. \A c \in Clients : \A k \in DOMAIN log :
            /\ k \in DOMAIN log' /\ log'[k] = log[k]
            /\ Reaches(c, k)' <=> Reaches(c, k)
    BY <1>1, <1>2 DEF Reaches
  <1>5. \A c \in Clients : \A o, t :
            /\ Given(c, o, t) => Given(c, o, t)'
            /\ Pending(c, o, t) => Pending(c, o, t)'
            /\ Unseen(c, o, t) => Unseen(c, o, t)'
    BY <1>1, <1>4 DEF Given, Pending, Unseen, StatusOf, TimedStatus
  <1>6. TimeIsPublished'
    <2> SUFFICES ASSUME NEW c \in Clients, NEW o \in Origins,
                        lastStatusTimestamps[o] # 0
                 PROVE  \/ Given(c, o, lastStatusTimestamps[o])'
                        \/ Pending(c, o, lastStatusTimestamps[o])'
                        \/ Unseen(c, o, lastStatusTimestamps[o])'
      BY <1>1 DEF TimeIsPublished
    <2> DEFINE t == lastStatusTimestamps[o]
    <2>1. t' = t
      BY <1>1
    <2>2. Given(c, o, t) \/ Pending(c, o, t) \/ Unseen(c, o, t)
      BY DEF IInv, TimeIsPublished
    <2> QED
      BY <1>1, <1>4, <2>2 DEF Given, Pending, Unseen, StatusOf, TimedStatus
  <1>7. HandedByThen'
    <2> SUFFICES ASSUME NEW c \in Clients, NEW k \in DOMAIN log',
                        k < next[c], Reaches(c, k)', TimedStatus(log'[k])
                 PROVE  /\ log'[k].time <= lastStatusTimestamps[log'[k].origin]
                        /\ \/ Given(c, log[k].origin, log[k].time)'
                           \/ log'[k].time < lastStatusTimestamps[log'[k].origin]
      BY <1>1 DEF HandedByThen, TimedStatus
    <2>1. k \in DOMAIN log /\ log'[k] = log[k]
      BY <1>1, <1>2 DEF IInv, InLog
    <2>2. Reaches(c, k)
      BY <1>4, <2>1
    <2>3. /\ log[k].time <= lastStatusTimestamps[log[k].origin]
          /\ \/ Given(c, log[k].origin, log[k].time)
             \/ log[k].time < lastStatusTimestamps[log[k].origin]
      BY <2>1, <2>2 DEF IInv, HandedByThen
    <2> QED
      BY <1>1, <2>1, <2>3 DEF Given, TimedStatus
  <1>8. InLog'
    BY <1>1, <1>2, AppendProperties DEF IInv, InLog
  <1> QED
    BY <1>3, <1>6, <1>7, <1>8 DEF IInv

(* A client that subscribes is reached by nothing published before.        *)
LEMMA SubscribeStep ==
    ASSUME IInv, TypeOK', NEW c \in Clients, Subscribe(c)
    PROVE  IInv'
  <1>1. /\ UNCHANGED <<log, lastStatusTimestamps, received>> /\ since[c] = 0
        /\ \A d \in Clients :
              /\ since'[d] = IF d = c THEN Len(log) + 1 ELSE since[d]
              /\ next'[d] = IF d = c THEN Len(log) + 1 ELSE next[d]
        /\ DOMAIN log = 1..Len(log) /\ Len(log) \in Nat
        /\ \A d \in Clients : since[d] \in Nat /\ next[d] \in Nat
    BY DEF Subscribe, IInv, TypeOK
  <1>2. \A d \in Clients : \A k \in DOMAIN log : Reaches(d, k)' <=> Reaches(d, k)
    BY <1>1 DEF Reaches
  <1>3. \A k \in DOMAIN log : ~Reaches(c, k)
    BY <1>1 DEF Reaches
  <1>4. NeverBackwards' /\ ShownByThen'
    BY <1>1 DEF IInv, NeverBackwards, ShownByThen, TimedStatus
  <1>5. TimeIsPublished'
    <2> SUFFICES ASSUME NEW d \in Clients, NEW o \in Origins,
                        lastStatusTimestamps[o] # 0
                 PROVE  \/ Given(d, o, lastStatusTimestamps[o])'
                        \/ Pending(d, o, lastStatusTimestamps[o])'
                        \/ Unseen(d, o, lastStatusTimestamps[o])'
      BY <1>1 DEF TimeIsPublished
    <2>1. CASE Given(d, o, lastStatusTimestamps[o])
      BY <1>1, <2>1 DEF Given, TimedStatus
    <2>2. CASE Pending(d, o, lastStatusTimestamps[o])
      <3>1. PICK k \in DOMAIN log :
                /\ k >= next[d] /\ Reaches(d, k)
                /\ StatusOf(o, k) /\ log[k].time = lastStatusTimestamps[o]
        BY <2>2 DEF Pending
      <3>2. d # c
        BY <1>3, <3>1
      <3> QED
        BY <1>1, <1>2, <3>1, <3>2 DEF Pending, StatusOf, TimedStatus
    <2>3. CASE Unseen(d, o, lastStatusTimestamps[o])
      <3>1. PICK k \in DOMAIN log, e \in Clients :
                /\ ~Reaches(d, k) /\ Reaches(e, k) /\ k < next[e]
                /\ StatusOf(o, k) /\ log[k].time = lastStatusTimestamps[o]
        BY <2>3 DEF Unseen
      <3>2. e # c
        BY <1>3, <3>1
      <3> QED
        BY <1>1, <1>2, <3>1, <3>2 DEF Unseen, StatusOf, TimedStatus
    <2> QED
      BY <2>1, <2>2, <2>3 DEF IInv, TimeIsPublished
  <1>6. HandedByThen'
    <2> SUFFICES ASSUME NEW d \in Clients, NEW k \in DOMAIN log,
                        k < next'[d], Reaches(d, k)', TimedStatus(log[k])
                 PROVE  /\ log[k].time <= lastStatusTimestamps[log[k].origin]
                        /\ \/ Given(d, log[k].origin, log[k].time)'
                           \/ log[k].time < lastStatusTimestamps[log[k].origin]
      BY <1>1 DEF HandedByThen, TimedStatus
    <2>1. d # c /\ Reaches(d, k)
      BY <1>2, <1>3
    <2>2. k < next[d]
      BY <1>1, <2>1
    <2>3. /\ log[k].time <= lastStatusTimestamps[log[k].origin]
          /\ \/ Given(d, log[k].origin, log[k].time)
             \/ log[k].time < lastStatusTimestamps[log[k].origin]
      BY <2>1, <2>2 DEF IInv, HandedByThen
    <2> QED
      BY <1>1, <2>3 DEF Given, TimedStatus
  <1>7. InLog'
    BY <1>1 DEF IInv, InLog
  <1> QED
    BY <1>4, <1>5, <1>6, <1>7 DEF IInv

(* A packet skipped or withheld does not reach the client, or is older than*)
(* the time kept.                                                          *)
LEMMA WithholdStep ==
    ASSUME IInv, TypeOK', NEW c \in Clients, Skip(c) \/ Withhold(c)
    PROVE  IInv'
  <1>1. PICK p \in Packets :
            /\ Turn(c, p)
            /\ p.topic \notin filter[c] \/ Hidden(role[c], p) \/ Stale(p)
            /\ UNCHANGED <<lastStatusTimestamps, received>>
    BY DEF Skip, Withhold, Handed
  <1>2. /\ p.origin \in Origins /\ p.time \in Nat
        /\ lastStatusTimestamps[p.origin] \in Nat
    BY ForwardingAssumption, PacketParts DEF IInv, TypeOK
  <1>3. /\ DOMAIN log = 1..Len(log) /\ Len(log) \in Nat
        /\ next \in [Clients -> Nat]
        /\ next[c] \in DOMAIN log /\ log[next[c]] = p
        /\ \A d \in Clients : next'[d] = IF d = c THEN next[c] + 1 ELSE next[d]
        /\ UNCHANGED <<log, since>>
        /\ InLog'
        /\ \A d \in Clients, k \in DOMAIN log : Reaches(d, k)' <=> Reaches(d, k)
    BY <1>1, TurnFacts DEF IInv
  <1>4. Reaches(c, next[c]) /\ TimedStatus(p) => p.time < lastStatusTimestamps[p.origin]
    BY <1>1, <1>3 DEF Reaches, Stale
  <1>5. NeverBackwards' /\ ShownByThen'
    BY <1>1 DEF IInv, NeverBackwards, ShownByThen, TimedStatus
  <1>6. TimeIsPublished'
    <2> SUFFICES ASSUME NEW d \in Clients, NEW o \in Origins,
                        lastStatusTimestamps[o] # 0
                 PROVE  \/ Given(d, o, lastStatusTimestamps[o])'
                        \/ Pending(d, o, lastStatusTimestamps[o])'
                        \/ Unseen(d, o, lastStatusTimestamps[o])'
      BY <1>1 DEF TimeIsPublished
    <2>1. CASE Given(d, o, lastStatusTimestamps[o])
      BY <1>1, <2>1 DEF Given, TimedStatus
    <2>2. CASE Pending(d, o, lastStatusTimestamps[o])
      <3>1. PICK k \in DOMAIN log :
                /\ k >= next[d] /\ Reaches(d, k)
                /\ StatusOf(o, k) /\ log[k].time = lastStatusTimestamps[o]
        BY <2>2 DEF Pending
      <3>2. ~(d = c /\ k = next[c])
        BY <1>2, <1>3, <1>4, <3>1 DEF StatusOf
      <3>3. k >= next'[d]
        BY <1>3, <3>1, <3>2
      <3> QED
        BY <1>1, <1>3, <3>1, <3>3 DEF Pending, StatusOf, TimedStatus
    <2>3. CASE Unseen(d, o, lastStatusTimestamps[o])
      <3>1. PICK k \in DOMAIN log, e \in Clients :
                /\ ~Reaches(d, k) /\ Reaches(e, k) /\ k < next[e]
                /\ StatusOf(o, k) /\ log[k].time = lastStatusTimestamps[o]
        BY <2>3 DEF Unseen
      <3>2. k < next'[e]
        BY <1>3, <3>1
      <3> QED
        BY <1>1, <1>3, <3>1, <3>2 DEF Unseen, StatusOf, TimedStatus
    <2> QED
      BY <2>1, <2>2, <2>3 DEF IInv, TimeIsPublished
  <1>7. HandedByThen'
    <2> SUFFICES ASSUME NEW d \in Clients, NEW k \in DOMAIN log,
                        k < next'[d], Reaches(d, k)', TimedStatus(log[k])
                 PROVE  /\ log[k].time <= lastStatusTimestamps[log[k].origin]
                        /\ \/ Given(d, log[k].origin, log[k].time)'
                           \/ log[k].time < lastStatusTimestamps[log[k].origin]
      BY <1>1, <1>3 DEF HandedByThen, TimedStatus
    <2>1. Reaches(d, k)
      BY <1>3
    <2>2. CASE d = c /\ k = next[c]
      BY <1>2, <1>3, <1>4, <2>1, <2>2
    <2>3. CASE ~(d = c /\ k = next[c])
      <3>1. k < next[d]
        BY <1>3, <2>3
      <3>2. /\ log[k].time <= lastStatusTimestamps[log[k].origin]
            /\ \/ Given(d, log[k].origin, log[k].time)
               \/ log[k].time < lastStatusTimestamps[log[k].origin]
        BY <2>1, <3>1 DEF IInv, HandedByThen
      <3> QED
        BY <1>1, <1>3, <3>2 DEF Given, TimedStatus
    <2> QED
      BY <2>2, <2>3
  <1> QED
    BY <1>3, <1>5, <1>6, <1>7 DEF IInv

(* A packet delivered is as new as anything delivered before, and becomes  *)
(* the time kept.                                                          *)
LEMMA DeliverStep ==
    ASSUME IInv, TypeOK', NEW c \in Clients, Deliver(c)
    PROVE  IInv'
  <1>1. PICK p \in Packets :
            /\ Turn(c, p) /\ p.topic \in filter[c]
            /\ ~Hidden(role[c], p) /\ ~Stale(p)
            /\ Observe(p)
            /\ received' = [received EXCEPT ![c] = Append(@, View(role[c], p))]
    BY DEF Deliver, Handed
  <1> DEFINE v == View(role[c], p)
             time == lastStatusTimestamps
  <1>2. /\ p \in PacketType /\ p.origin \in Origins /\ p.time \in Nat
        /\ v \in PacketType /\ v.origin = p.origin /\ v.time = p.time
        /\ TimedStatus(v) <=> TimedStatus(p)
        /\ time \in [Origins -> Nat]
    BY ForwardingAssumption, PacketParts DEF IInv, TypeOK
  <1> HIDE DEF v
  <1>3. /\ \A d \in Clients : received[d] \in Seq(PacketType)
        /\ \A k \in DOMAIN log : log[k] \in PacketType
    BY ForwardingAssumption, ElementOfSeq DEF IInv, TypeOK
  <1>4. /\ DOMAIN log = 1..Len(log) /\ Len(log) \in Nat
        /\ next \in [Clients -> Nat] /\ since[c] # 0 /\ since \in [Clients -> Nat]
        /\ next[c] \in DOMAIN log /\ log[next[c]] = p
        /\ \A d \in Clients : next'[d] = IF d = c THEN next[c] + 1 ELSE next[d]
        /\ UNCHANGED <<log, since>>
        /\ InLog'
        /\ \A d \in Clients, k \in DOMAIN log : Reaches(d, k)' <=> Reaches(d, k)
    BY <1>1, TurnFacts DEF IInv
  <1>5. /\ TimedStatus(p) => p.time >= time[p.origin]
        /\ \A o \in Origins :
              time'[o] = IF o = p.origin /\ TimedStatus(p) THEN p.time ELSE time[o]
    BY <1>1, <1>2 DEF Stale, Observe
  <1>6. \A d \in Clients :
            received'[d] = IF d = c THEN Append(received[c], v) ELSE received[d]
    BY <1>1 DEF IInv, TypeOK, v
  <1>7. /\ Len(received[c]) \in Nat
        /\ DOMAIN received[c] = 1..Len(received[c])
        /\ DOMAIN received'[c] = 1..(Len(received[c]) + 1)
        /\ received'[c][Len(received[c]) + 1] = v
        /\ \A i \in DOMAIN received[c] : received'[c][i] = received[c][i]
    <2>1. received[c] \in Seq(PacketType) /\ v \in PacketType
      BY <1>2, <1>3
    <2>2. received'[c] = Append(received[c], v)
      BY <1>6
    <2> QED
      BY <2>1, <2>2, AppendProperties
  <1>8. \A d \in Clients : \A i \in DOMAIN received[d] :
            received[d][i].time \in Nat /\ received[d][i].origin \in Origins
    BY <1>3, PacketParts, ElementOfSeq
  <1>9. ShownByThen'
    <2> SUFFICES ASSUME NEW d \in Clients, NEW i \in DOMAIN received'[d],
                        TimedStatus(received'[d][i])
                 PROVE  received'[d][i].time <= time'[received'[d][i].origin]
      BY DEF ShownByThen, TimedStatus
    <2>1. CASE d = c /\ i = Len(received[c]) + 1
      BY <1>2, <1>5, <1>7, <2>1
    <2>2. CASE ~(d = c /\ i = Len(received[c]) + 1)
      <3>1. i \in DOMAIN received[d] /\ received'[d][i] = received[d][i]
        BY <1>6, <1>7, <2>2
      <3>2. received[d][i].time <= time[received[d][i].origin]
        BY <3>1 DEF IInv, ShownByThen
      <3> QED
        BY <1>2, <1>5, <1>8, <3>1, <3>2
    <2> QED
      BY <2>1, <2>2
  <1>10. NeverBackwards'
    <2> SUFFICES ASSUME NEW d \in Clients,
                        NEW i \in DOMAIN received'[d],
                        NEW j \in DOMAIN received'[d],
                        i < j,
                        TimedStatus(received'[d][i]),
                        TimedStatus(received'[d][j]),
                        received'[d][i].origin = received'[d][j].origin
                 PROVE  received'[d][i].time <= received'[d][j].time
      BY DEF NeverBackwards, TimedStatus
    <2>1. CASE d = c /\ j = Len(received[c]) + 1
      <3>1. i \in DOMAIN received[c] /\ received'[c][i] = received[c][i]
        BY <1>7, <2>1
      <3>2. received[c][i].time <= time[p.origin]
        BY <1>2, <1>7, <2>1, <3>1 DEF IInv, ShownByThen
      <3> QED
        BY <1>2, <1>5, <1>7, <1>8, <2>1, <3>1, <3>2
    <2>2. CASE ~(d = c /\ j = Len(received[c]) + 1)
      <3>1. /\ i \in DOMAIN received[d] /\ received'[d][i] = received[d][i]
            /\ j \in DOMAIN received[d] /\ received'[d][j] = received[d][j]
        BY <1>6, <1>7, <2>2
      <3> QED
        BY <3>1 DEF IInv, NeverBackwards
    <2> QED
      BY <2>1, <2>2
  <1>11. ASSUME NEW d \in Clients, NEW o \in Origins, NEW t,
                Given(d, o, t)
         PROVE  \E i \in DOMAIN received'[d] :
                    /\ TimedStatus(received'[d][i])
                    /\ received'[d][i].origin = o
                    /\ received'[d][i].time >= t
    <2>1. PICK i \in DOMAIN received[d] :
              /\ TimedStatus(received[d][i])
              /\ received[d][i].origin = o
              /\ received[d][i].time >= t
      BY <1>11 DEF Given
    <2>2. i \in DOMAIN received'[d] /\ received'[d][i] = received[d][i]
      BY <1>6, <1>7
    <2> QED
      BY <2>1, <2>2 DEF TimedStatus
  <1>12. TimedStatus(p) =>
            \E i \in DOMAIN received'[c] :
                /\ TimedStatus(received'[c][i])
                /\ received'[c][i].origin = p.origin
                /\ received'[c][i].time >= p.time
    BY <1>2, <1>7 DEF TimedStatus
  <1>13. TimeIsPublished'
    <2> SUFFICES ASSUME NEW d \in Clients, NEW o \in Origins, time'[o] # 0
                 PROVE  \/ Given(d, o, lastStatusTimestamps[o])'
                        \/ Pending(d, o, lastStatusTimestamps[o])'
                        \/ Unseen(d, o, lastStatusTimestamps[o])'
      BY DEF TimeIsPublished
    <2>1. CASE time'[o] = time[o]
      <3>1. CASE Given(d, o, time[o])
        BY <1>11, <2>1, <3>1 DEF Given, TimedStatus
      <3>2. CASE Pending(d, o, time[o])
        <4>1. PICK k \in DOMAIN log :
                  /\ k >= next[d] /\ Reaches(d, k)
                  /\ StatusOf(o, k) /\ log[k].time = time[o]
          BY <3>2 DEF Pending
        <4>2. CASE d = c /\ k = next[c]
          BY <1>4, <1>12, <2>1, <4>1, <4>2 DEF Given, StatusOf, TimedStatus
        <4>3. CASE ~(d = c /\ k = next[c])
          <5>1. k >= next'[d]
            BY <1>4, <4>1, <4>3
          <5> QED
            BY <1>4, <2>1, <4>1, <5>1 DEF Pending, StatusOf, TimedStatus
        <4> QED
          BY <4>2, <4>3
      <3>3. CASE Unseen(d, o, time[o])
        <4>1. PICK k \in DOMAIN log, e \in Clients :
                  /\ ~Reaches(d, k) /\ Reaches(e, k) /\ k < next[e]
                  /\ StatusOf(o, k) /\ log[k].time = time[o]
          BY <3>3 DEF Unseen
        <4>2. k < next'[e]
          BY <1>4, <4>1
        <4> QED
          BY <1>4, <2>1, <4>1, <4>2 DEF Unseen, StatusOf, TimedStatus
      <3> QED
        BY <2>1, <3>1, <3>2, <3>3 DEF IInv, TimeIsPublished
    <2>2. CASE time'[o] # time[o]
      <3>1. o = p.origin /\ TimedStatus(p) /\ time'[o] = p.time /\ p.time > time[o]
        BY <1>2, <1>5, <2>2
      <3>2. Reaches(c, next[c])
        BY <1>1, <1>4 DEF Reaches, IInv, InLog
      <3>3. CASE d = c
        BY <1>12, <3>1, <3>3 DEF Given, TimedStatus
      <3>4. CASE d # c /\ Reaches(d, next[c])
        \* d has not been handed p: what it was handed is not newer than time[o].
        <4>1. ~(next[c] < next[d])
          BY <1>2, <1>4, <3>1, <3>4 DEF IInv, HandedByThen
        <4>2. next[c] >= next'[d]
          BY <1>4, <3>4, <4>1
        <4> QED
          BY <1>4, <3>1, <3>4, <4>2 DEF Pending, StatusOf, TimedStatus
      <3>5. CASE ~Reaches(d, next[c])
        <4>1. next[c] < next'[c]
          BY <1>4
        <4> QED
          BY <1>4, <3>1, <3>2, <3>5, <4>1 DEF Unseen, StatusOf, TimedStatus
      <3> QED
        BY <3>3, <3>4, <3>5
    <2> QED
      BY <2>1, <2>2
  <1>14. HandedByThen'
    <2> SUFFICES ASSUME NEW d \in Clients, NEW k \in DOMAIN log,
                        k < next'[d], Reaches(d, k)', TimedStatus(log[k])
                 PROVE  /\ log[k].time <= time'[log[k].origin]
                        /\ \/ Given(d, log[k].origin, log[k].time)'
                           \/ log[k].time < time'[log[k].origin]
      BY <1>4 DEF HandedByThen, TimedStatus
    <2>1. log[k].time \in Nat /\ log[k].origin \in Origins /\ Reaches(d, k)
      BY <1>3, <1>4, PacketParts
    <2>2. CASE d = c /\ k = next[c]
      BY <1>2, <1>4, <1>5, <1>12, <2>2 DEF Given, TimedStatus
    <2>3. CASE ~(d = c /\ k = next[c])
      <3>1. k < next[d]
        BY <1>4, <2>3
      <3>2. /\ log[k].time <= time[log[k].origin]
            /\ \/ Given(d, log[k].origin, log[k].time)
               \/ log[k].time < time[log[k].origin]
        BY <2>1, <3>1 DEF IInv, HandedByThen
      <3>3. time[log[k].origin] <= time'[log[k].origin]
        BY <1>2, <1>5, <2>1
      <3>4. time[log[k].origin] \in Nat /\ time'[log[k].origin] \in Nat
        BY <1>2, <1>5, <2>1
      <3>5. log[k].time <= time'[log[k].origin]
        BY <2>1, <3>2, <3>3, <3>4
      <3>6. CASE Given(d, log[k].origin, log[k].time)
        <4>1. Given(d, log[k].origin, log[k].time)'
          BY <1>4, <1>11, <2>1, <3>6 DEF Given, TimedStatus
        <4> QED
          BY <3>5, <4>1
      <3>7. CASE log[k].time < time[log[k].origin]
        BY <2>1, <3>3, <3>4, <3>7
      <3> QED
        BY <3>2, <3>6, <3>7
    <2> QED
      BY <2>2, <2>3
  <1> QED
    BY <1>4, <1>9, <1>10, <1>13, <1>14 DEF IInv

LEMMA IInvHolds == Spec => []IInv
  <1>1. IInv /\ [Next]_vars => IInv'
    <2> SUFFICES ASSUME IInv, [Next]_vars
                 PROVE  IInv'
      OBVIOUS
    <2>1. TypeOK'
      BY TypeStep DEF IInv
    <2>2. CASE \E p \in Packets : Publish(p)
      BY <2>1, <2>2, PublishStep
    <2>3. CASE \E c \in Clients : Skip(c) \/ Withhold(c)
      BY <2>1, <2>3, WithholdStep
    <2>4. CASE \E c \in Clients : Deliver(c)
      BY <2>1, <2>4, DeliverStep
    <2>5. CASE \E c \in Clients : Subscribe(c)
      BY <2>1, <2>5, SubscribeStep
    <2>6. CASE UNCHANGED vars
      BY <2>1, <2>6
      DEF vars, IInv, InLog, NeverBackwards, ShownByThen, TimeIsPublished,
          HandedByThen, Given, Pending, Unseen, Reaches, StatusOf, TimedStatus
    <2> QED
      BY <2>2, <2>3, <2>4, <2>5, <2>6 DEF Next
  <1> QED
    BY <1>1, IInvInit, PTL DEF Spec

----------------------------------------------------------------------------
(* A client never sees the status of a device go back in time, whatever    *)
(* the other clients do and however messages are delayed.                  *)
THEOREM StatusNeverGoesBack == Spec => []NeverBackwards
  <1>1. IInv => NeverBackwards
    BY DEF IInv
  <1> QED
    BY <1>1, IInvHolds, PTL

(* The stale filter loses nothing but what is superseded: whoever has had  *)
(* its turn with everything was given every status that reaches it or one  *)
(* at least as new, unless one that is newer and does not reach it was     *)
(* handed to another client (LatestReachesAll).                            *)
THEOREM LatestStatusReachesAll == Spec => []LatestReachesAll
  <1>1. IInv => LatestReachesAll
    <2> SUFFICES ASSUME IInv, NEW c \in Clients, CaughtUp(c),
                        NEW k \in DOMAIN log, Reaches(c, k), TimedStatus(log[k])
                 PROVE  Given(c, log[k].origin, log[k].time) \/ SupersededUnseen(c, k)
      BY DEF LatestReachesAll, Given
    <2> DEFINE o == log[k].origin
               t == lastStatusTimestamps[o]
    <2>1. /\ DOMAIN log = 1..Len(log) /\ Len(log) \in Nat
          /\ next[c] \in Nat
          /\ \A j \in DOMAIN log : log[j] \in PacketType
      BY ForwardingAssumption, ElementOfSeq DEF IInv, TypeOK
    <2>2. o \in Origins /\ log[k].time \in Nat /\ log[k].time # 0 /\ t \in Nat
      BY <2>1, PacketParts DEF TimedStatus, IInv, TypeOK
    <2>3. log[k].time <= t /\ (Given(c, o, log[k].time) \/ log[k].time < t)
      BY <2>1 DEF CaughtUp, IInv, HandedByThen
    <2>4. ~Pending(c, o, t)
      BY <2>1 DEF CaughtUp, Pending
    <2>5. Given(c, o, t) \/ Unseen(c, o, t)
      BY <2>2, <2>3, <2>4 DEF IInv, TimeIsPublished
    <2>6. \A i \in DOMAIN received[c] : received[c][i].time \in Nat
      BY PacketParts, ElementOfSeq DEF IInv, TypeOK
    <2>7. CASE Given(c, o, log[k].time)
      BY <2>7
    <2>8. CASE Given(c, o, t)
      BY <2>2, <2>3, <2>6, <2>8 DEF Given
    <2>9. CASE log[k].time < t /\ Unseen(c, o, t)
      <3>1. SupersededUnseen(c, k)
        BY <2>2, <2>9 DEF Unseen, SupersededUnseen
      <3> QED
        BY <3>1
    <2> QED
      BY <2>3, <2>5, <2>7, <2>8, <2>9
  <1> QED
    BY <1>1, IInvHolds, PTL

(* No admin topic reaches another role, and no LIMITED client is sent a    *)
(* sensitive field.                                                        *)
THEOREM RolesAreRespected == Spec => []RolesRespected
  <1> DEFINE Proper(c, p) ==
        /\ role[c] # "ADMIN" => p.topic.contains = {}
        /\ role[c] = "LIMITED" => p.fields \intersect SensitiveFields(p.topic) = {}
  <1>1. Init => RolesRespected
    BY DEF Init, RolesRespected
  <1>2. TypeOK /\ RolesRespected /\ [Next]_vars => RolesRespected'
    <2> SUFFICES ASSUME TypeOK, RolesRespected, [Next]_vars
                 PROVE  RolesRespected'
      OBVIOUS
    <2>1. CASE received' = received
      BY <2>1 DEF RolesRespected
    <2>2. ASSUME NEW c \in Clients, Deliver(c)
          PROVE  RolesRespected'
      <3>1. PICK p \in Packets :
                /\ ~Hidden(role[c], p)
                /\ received' = [received EXCEPT
                                  ![c] = Append(@, View(role[c], p))]
        BY <2>2 DEF Deliver
      <3>2. p \in PacketType /\ View(role[c], p) \in PacketType
        BY ForwardingAssumption, PacketParts
      <3>3. Proper(c, View(role[c], p))
        BY <3>1, <3>2 DEF Hidden, View, PacketType
      <3>4. ASSUME NEW d \in Clients, NEW i \in DOMAIN received'[d]
            PROVE  Proper(d, received'[d][i])
        <4>1. CASE d # c
          BY <3>1, <4>1 DEF RolesRespected, TypeOK
        <4>2. CASE d = c
          <5>1. /\ received'[c] = Append(received[c], View(role[c], p))
                /\ received[c] \in Seq(PacketType)
            BY <3>1 DEF TypeOK
          <5>2. CASE i = Len(received[c]) + 1
            BY <3>2, <3>3, <4>2, <5>1, <5>2, AppendProperties
          <5>3. CASE i # Len(received[c]) + 1
            <6>1. /\ i \in DOMAIN received[c]
                  /\ received'[c][i] = received[c][i]
              BY <3>2, <4>2, <5>1, <5>3, AppendProperties
            <6> QED
              BY <4>2, <6>1 DEF RolesRespected
          <5> QED
            BY <5>2, <5>3
        <4> QED
          BY <4>1, <4>2
      <3> QED
        BY <3>4 DEF RolesRespected
    <2> QED
      BY <2>1, <2>2 DEF Next, Publish, Subscribe, Skip, Withhold, vars
  <1> QED
    BY <1>1, <1>2, TypeCorrect, PTL DEF Spec

=============================================================================
