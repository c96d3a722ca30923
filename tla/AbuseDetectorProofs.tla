------------------------ MODULE AbuseDetectorProofs ------------------------
(***************************************************************************)
(* What holds of the detector's process for any publishers, any packets,   *)
(* any limits and any table an earlier process may have left: memory is    *)
(* typed, mutes are counted, and no crash, restart or save takes back what *)
(* a row says.                                                             *)
(***************************************************************************)
EXTENDS AbuseDetector, TrustStateProofs

----------------------------------------------------------------------------
(* The states in memory and in the rows are ones the methods of TrustState *)
(* can be called with now.                                                 *)
MemorySound == \A k \in DOMAIN clients : Sound(clients[k], now)

RowsSound == \A k \in DOMAIN db : Sound(db[k].state, now)

TypeInv == TypeOK /\ MemorySound /\ RowsSound /\ MutedCounted

----------------------------------------------------------------------------
LEMMA NewClientSound ==
    ASSUME NEW t \in Nat
    PROVE  Sound(NewClient(t), t) /\ NewClient(t).status # "muted"
  <1>1. IsFiniteSet({})
    BY FS_EmptySet
  <1> QED
    BY <1>1, TrustAssumption DEF Sound, NewClient, ClientTrustState

LEMMA SoundLater ==
    ASSUME NEW t \in Nat, NEW s, Sound(s, t)
    PROVE  Sound(s, t + 1)
  BY DEF Sound, ClientTrustState

LEMMA DeserializeEffect ==
    ASSUME NEW row \in Row, now \in Nat, Sound(row.state, now)
    PROVE  LET s == deserializeTrustState(row) IN
           /\ Sound(s, now)
           /\ s.status = row.state.status
           /\ s.totalPacketsReceived = row.state.totalPacketsReceived
           /\ s.duplicateCount = row.state.duplicateCount
           /\ s.anomalyCount = row.state.anomalyCount \/ "clockVersion" \in row.lacks
  <1> DEFINE old    == row.state
             window == IF "duplicateRateWindow" \in row.lacks
                       THEN [total |-> 0, duplicates |-> 0, start |-> now]
                       ELSE old.window
             times  == IF "peakRateWindow" \in row.lacks THEN <<>> ELSE old.packetTimes
             peak   == IF "peakRateWindow" \in row.lacks THEN 0 ELSE old.peakRateObserved
             anomalies == IF "clockVersion" \in row.lacks THEN 0 ELSE old.anomalyCount
             s == deserializeTrustState(row)
  <1>1. /\ old \in ClientTrustState
        /\ window \in [total : Nat, duplicates : Nat, start : Nat]
        /\ peak \in Nat /\ anomalies \in Nat
        /\ anomalies = old.anomalyCount \/ "clockVersion" \in row.lacks
    BY DEF Sound, ClientTrustState
  <1>2. times \in Seq(Nat)
    BY DEF Sound, ClientTrustState
  <1>3. s = [old EXCEPT !.window = window, !.packetTimes = times,
                        !.peakRateObserved = peak, !.anomalyCount = anomalies]
    BY DEF deserializeTrustState
  <1> HIDE DEF old, window, times, peak, anomalies, s
  <1>4. /\ s \in ClientTrustState
        /\ s.status = old.status /\ s.totalPacketsReceived = old.totalPacketsReceived
        /\ s.duplicateCount = old.duplicateCount /\ s.anomalyCount = anomalies
        /\ s.lastRefill = old.lastRefill /\ s.iataHistory = old.iataHistory
    BY <1>1, <1>2, <1>3 DEF ClientTrustState
  <1> QED
    BY <1>1, <1>4 DEF Sound, old, s

(* What Record makes of a state.                                           *)
LEMMA RecordEffect ==
    ASSUME now \in Nat, NEW s, Sound(s, now), NEW p \in Payloads, NEW iata \in Iatas
    PROVE  LET r == RecordPacket(CheckIataChange(s, now, iata), now, p) IN
           /\ Sound(r, now)
           /\ s.totalPacketsReceived <= r.totalPacketsReceived
           /\ s.anomalyCount <= r.anomalyCount
           /\ s.duplicateCount <= r.duplicateCount
           /\ s.status = "muted" => r.status = "muted"
  <1> DEFINE located == CheckIataChange(s, now, iata)
             r == RecordPacket(located, now, p)
             ok == CheckRateLimit(located, now).ok
  <1>1. /\ located \in ClientTrustState /\ IsFiniteSet(located.iataHistory)
        /\ Harder(located, s) /\ SameBucket(located, s)
        /\ SameDuplicates(located, s) /\ SameTotal(located, s)
    BY CheckIataChangeEffect DEF Sound
  <1>2. located.lastRefill <= now
    BY <1>1 DEF Sound, SameBucket
  <1> HIDE DEF located
  <1>3. /\ r \in ClientTrustState
        /\ r.totalPacketsReceived = located.totalPacketsReceived + 1
        /\ Harder(r, located) /\ SameLocations(r, located)
        /\ r.lastRefill = now
        /\ ~ok => SameDuplicates(r, located)
        /\ ok => Compared(r, located, now, p)
    BY <1>1, <1>2, RecordPacketEffect
  <1> HIDE DEF r
  <1>4. /\ s.totalPacketsReceived \in Nat /\ s.anomalyCount \in Nat
        /\ s.duplicateCount \in Nat /\ located.anomalyCount \in Nat
        /\ r.anomalyCount \in Nat
    BY <1>1, <1>3 DEF Sound, ClientTrustState
  <1>5. Sound(r, now)
    BY <1>1, <1>3 DEF Sound, SameLocations
  <1>6. s.duplicateCount <= r.duplicateCount
    BY <1>1, <1>3, <1>4 DEF SameDuplicates, Compared
  <1>7. /\ s.anomalyCount <= r.anomalyCount
        /\ s.status = "muted" => r.status = "muted"
        /\ s.totalPacketsReceived <= r.totalPacketsReceived
    BY <1>1, <1>3, <1>4 DEF Harder, SameTotal
  <1> QED
    BY <1>5, <1>6, <1>7 DEF r, located
----------------------------------------------------------------------------
LEMMA NoMuteAtFirst ==
    Cardinality(Muted(NoStates)) = 0 /\ DOMAIN NoStates = {}
  BY FS_EmptySet DEF Muted, NoStates

LEMMA MutedFinite ==
    ASSUME NEW f, DOMAIN f \subseteq Keys
    PROVE  /\ IsFiniteSet(Muted(f))
           /\ Cardinality(Muted(f)) \in 0..Cardinality(Keys)
  <1>1. Muted(f) \subseteq Keys
    BY DEF Muted
  <1>2. IsFiniteSet(Muted(f)) /\ Cardinality(Muted(f)) <= Cardinality(Keys)
    BY <1>1, FS_Subset, DetectorAssumption
  <1> QED
    BY <1>2, FS_CardinalityType, DetectorAssumption

----------------------------------------------------------------------------
LEMMA TypeInvInit == Init => TypeInv
  <1> SUFFICES ASSUME Init
               PROVE  TypeInv
    OBVIOUS
  <1> USE DEF Init
  <1>1. DOMAIN clients = {}
    BY NoMuteAtFirst
  <1>2. DOMAIN db \subseteq Keys /\ \A k \in DOMAIN db : db[k] \in Row
    BY DetectorAssumption
  <1>3. RowsSound
    <2> SUFFICES ASSUME NEW k \in DOMAIN db
                 PROVE  Sound(db[k].state, now)
      BY DEF RowsSound
    <2>1. /\ db[k] \in Row /\ db[k].state.lastRefill = 0
          /\ IsFiniteSet(db[k].state.iataHistory)
      BY DetectorAssumption
    <2> QED
      BY <2>1 DEF Sound, Row
  <1>4. 0 \in 0..Cardinality(Keys)
    BY FS_CardinalityType, DetectorAssumption
  <1> QED
    BY <1>1, <1>2, <1>3, <1>4 DEF TypeInv, TypeOK, TrustStates, MemorySound, MutedCounted

LEMMA StartKeepsType == TypeInv /\ Start => TypeInv'
  <1> SUFFICES ASSUME TypeInv, Start
               PROVE  TypeInv'
    OBVIOUS
  <1> USE DEF TypeInv
  <1>1. /\ DOMAIN clients' \subseteq DOMAIN db
        /\ \A k \in DOMAIN clients' : clients'[k] = deserializeTrustState(db[k])
    BY DEF Start
  <1>2. \A k \in DOMAIN clients' : Sound(clients'[k], now)
    BY <1>1, DeserializeEffect DEF TypeOK, RowsSound
  <1>3. MemorySound' /\ RowsSound'
    BY <1>1, <1>2 DEF MemorySound, RowsSound, Start
  <1>4. MutedCounted'
    BY DEF MutedCounted, Start
  <1>5. DOMAIN clients' \subseteq Keys
    BY <1>1 DEF TypeOK
  <1>6. totalClientsMuted' \in 0..Cardinality(Keys)
    BY <1>5, MutedFinite DEF Start
  <1>7. TypeOK'
    BY <1>1, <1>2, <1>5, <1>6 DEF TypeOK, TrustStates, Sound, Start
  <1> QED
    BY <1>3, <1>4, <1>7

LEMMA CrashKeepsType == TypeInv /\ Crash => TypeInv'
  <1> SUFFICES ASSUME TypeInv, Crash
               PROVE  TypeInv'
    OBVIOUS
  <1>1. DOMAIN clients' = {}
    BY NoMuteAtFirst DEF Crash
  <1>2. 0 \in 0..Cardinality(Keys)
    BY FS_CardinalityType, DetectorAssumption
  <1> QED
    BY <1>1, <1>2 DEF TypeInv, TypeOK, TrustStates, MemorySound, RowsSound, MutedCounted, Crash

LEMMA TickKeepsType == TypeInv /\ Tick => TypeInv'
  <1> SUFFICES ASSUME TypeInv, Tick
               PROVE  TypeInv'
    OBVIOUS
  <1>1. MemorySound' /\ RowsSound'
    BY SoundLater DEF TypeInv, TypeOK, MemorySound, RowsSound, Tick
  <1> QED
    BY <1>1 DEF TypeInv, TypeOK, TrustStates, MutedCounted, Muted, Tick

LEMMA InitializeClientKeepsType ==
    ASSUME TypeInv, NEW k \in Keys, InitializeClient(k)
    PROVE  TypeInv'
  <1> USE DEF TypeInv
  <1> DEFINE new == [j \in {k} |-> NewClient(now)]
  <1>1. /\ DOMAIN clients' = DOMAIN clients \union {k}
        /\ clients'[k] = NewClient(now)
        /\ \A j \in DOMAIN clients : j # k /\ clients'[j] = clients[j]
    <2>1. clients' = Updated(clients, new, {k}) /\ k \notin DOMAIN clients /\ new[k] = NewClient(now)
      BY DEF InitializeClient
    <2> HIDE DEF new
    <2> QED
      BY <2>1 DEF Updated
  <1>2. Sound(clients'[k], now) /\ clients'[k].status # "muted"
    BY <1>1, NewClientSound DEF TypeOK
  <1>3. MemorySound' /\ RowsSound'
    BY <1>1, <1>2 DEF MemorySound, RowsSound, InitializeClient
  <1>4. Muted(clients') = Muted(clients)
    BY <1>1, <1>2 DEF Muted
  <1> QED
    BY <1>1, <1>2, <1>3, <1>4
       DEF TypeOK, TrustStates, Sound, MutedCounted, InitializeClient

LEMMA RecordKeepsType ==
    ASSUME TypeInv, NEW k \in Keys, NEW p \in Payloads, NEW iata \in Iatas,
           Record(k, p, iata)
    PROVE  TypeInv'
  <1> USE DEF TypeInv
  <1> DEFINE after == RecordPacket(CheckIataChange(clients[k], now, iata), now, p)
  <1>1. /\ k \in DOMAIN clients
        /\ DOMAIN clients' = DOMAIN clients
        /\ clients'[k] = after
        /\ \A j \in DOMAIN clients : j # k => clients'[j] = clients[j]
    BY DEF Record
  <1>2. Sound(after, now) /\ (clients[k].status = "muted" => after.status = "muted")
    BY <1>1, RecordEffect DEF TypeOK, MemorySound
  <1>3. CountMute(clients[k], after) /\ now' = now /\ process' = process /\ db' = db
        /\ process # "down"
    BY DEF Record
  <1> HIDE DEF after
  <1>4. MemorySound' /\ RowsSound'
    BY <1>1, <1>2, <1>3 DEF MemorySound, RowsSound
  <1>5. IsFiniteSet(Muted(clients)) /\ totalClientsMuted = Cardinality(Muted(clients))
    BY <1>3, MutedFinite DEF TypeOK, TrustStates, MutedCounted
  <1>6. totalClientsMuted' = Cardinality(Muted(clients'))
    <2>1. CASE clients[k].status # "muted" /\ after.status = "muted"
      <3>1. Muted(clients') = Muted(clients) \union {k} /\ k \notin Muted(clients)
        BY <1>1, <2>1 DEF Muted
      <3>2. Cardinality(Muted(clients')) = Cardinality(Muted(clients)) + 1
        BY <1>5, <3>1, FS_AddElement
      <3> QED
        BY <1>3, <1>5, <2>1, <3>2 DEF CountMute
    <2>2. CASE ~(clients[k].status # "muted" /\ after.status = "muted")
      <3>1. Muted(clients') = Muted(clients)
        BY <1>1, <1>2, <2>2 DEF Muted
      <3>2. totalClientsMuted' = totalClientsMuted + 0
        BY <1>3, <2>2 DEF CountMute
      <3> QED
        BY <1>5, <3>1, <3>2 DEF TypeOK
    <2> QED
      BY <2>1, <2>2
  <1>7. TypeOK'
    <2>1. DOMAIN clients' \subseteq Keys
      BY <1>1 DEF TypeOK, TrustStates
    <2>2. totalClientsMuted' \in 0..Cardinality(Keys)
      BY <1>6, <2>1, MutedFinite
    <2> QED
      BY <1>1, <1>2, <1>3, <2>1, <2>2 DEF TypeOK, TrustStates, Sound
  <1> QED
    BY <1>4, <1>6, <1>7 DEF MutedCounted

(* A save, by the timer or at the signal.                                  *)
LEMMA SavedRows ==
    ASSUME NEW S \in SUBSET DOMAIN clients, db' = Saved(S)
    PROVE  /\ DOMAIN db' = DOMAIN db \union S
           /\ \A k \in S : db'[k] = [state |-> clients[k], lacks |-> {}]
           /\ \A k \in DOMAIN db \ S : db'[k] = db[k]
  <1> DEFINE rows == [k \in DOMAIN clients |-> [state |-> clients[k], lacks |-> {}]]
  <1>1. \A k \in S : rows[k] = [state |-> clients[k], lacks |-> {}]
    OBVIOUS
  <1>2. db' = Updated(db, rows, S)
    BY DEF Saved
  <1> HIDE DEF rows
  <1> QED
    BY <1>1, <1>2 DEF Updated

LEMMA SaveKeepsType ==
    ASSUME TypeInv, NEW S \in SUBSET DOMAIN clients, Save(S) \/ Shutdown(S)
    PROVE  TypeInv'
  <1> USE DEF TypeInv
  <1>1. /\ db' = Saved(S) /\ process = "up" /\ process' \in {"up", "closing"}
        /\ now' = now /\ clients' = clients /\ totalClientsMuted' = totalClientsMuted
    BY DEF Save, Shutdown
  <1>2. /\ DOMAIN db' = DOMAIN db \union S
        /\ \A k \in S : db'[k] = [state |-> clients[k], lacks |-> {}]
        /\ \A k \in DOMAIN db \ S : db'[k] = db[k]
    BY <1>1, SavedRows
  <1>3. ASSUME NEW k \in DOMAIN db'
        PROVE  db'[k] \in Row /\ Sound(db'[k].state, now)
    <2>1. CASE k \in S
      BY <1>2, <2>1 DEF TypeOK, TrustStates, Row, MemorySound
    <2>2. CASE k \notin S
      BY <1>2, <1>3, <2>2 DEF TypeOK, RowsSound
    <2> QED
      BY <2>1, <2>2
  <1>4. DOMAIN db' \subseteq Keys
    BY <1>2 DEF TypeOK, TrustStates
  <1> QED
    BY <1>1, <1>3, <1>4 DEF TypeOK, TrustStates, MemorySound, RowsSound, MutedCounted, Muted

LEMMA TypeInvStep == TypeInv /\ [Next]_vars => TypeInv'
  <1> SUFFICES ASSUME TypeInv, [Next]_vars
               PROVE  TypeInv'
    OBVIOUS
  <1>1. CASE UNCHANGED vars
    BY <1>1 DEF vars, TypeInv, TypeOK, TrustStates, MemorySound, RowsSound, MutedCounted, Muted
  <1>2. CASE Next
    BY <1>2, StartKeepsType, CrashKeepsType, TickKeepsType, InitializeClientKeepsType,
       RecordKeepsType, SaveKeepsType DEF Next
  <1> QED
    BY <1>1, <1>2

(* The state keeps its types, whatever rows the first process found.       *)
THEOREM TypeCorrect == Spec => []TypeOK
  <1>1. TypeInv => TypeOK
    BY DEF TypeInv
  <1> QED
    BY TypeInvInit, TypeInvStep, <1>1, PTL DEF Spec

(* The statistic of muted publishers counts those that are muted, for any  *)
(* number of them (stats, abuse-detector.ts:205-209).                      *)
THEOREM MutesAreCounted == Spec => []MutedCounted
  <1>1. TypeInv => MutedCounted
    BY DEF TypeInv
  <1> QED
    BY TypeInvInit, TypeInvStep, <1>1, PTL DEF Spec

----------------------------------------------------------------------------
(* What MemoryNotBehind says of one key: s is not behind the row.          *)
NotBehind(s, row) ==
    /\ s.totalPacketsReceived >= row.state.totalPacketsReceived
    /\ s.anomalyCount >= row.state.anomalyCount \/ "clockVersion" \in row.lacks
    /\ s.duplicateCount >= row.state.duplicateCount
    /\ row.state.status = "muted" => s.status = "muted"

LEMMA MemoryByKey ==
    MemoryNotBehind <=>
        (process # "down" => \A k \in DOMAIN db : Readable(db[k]) =>
            k \in DOMAIN clients /\ NotBehind(clients[k], db[k]))
  BY DEF MemoryNotBehind, NotBehind, Readable

LEMMA MemoryByKeyNext ==
    MemoryNotBehind' <=>
        (process' # "down" => \A k \in DOMAIN db' : Readable(db'[k]) =>
            k \in DOMAIN clients' /\ NotBehind(clients'[k], db'[k]))
  BY DEF MemoryNotBehind, NotBehind, Readable

LEMMA StatesAreCounted ==
    ASSUME NEW s \in ClientTrustState
    PROVE  /\ s.totalPacketsReceived \in Nat
           /\ s.anomalyCount \in Nat /\ s.duplicateCount \in Nat
  BY DEF ClientTrustState

LEMMA StartKeepsMemory == TypeInv /\ Start => MemoryNotBehind'
  <1> SUFFICES ASSUME TypeInv, Start,
                      NEW k \in DOMAIN db', Readable(db'[k])
               PROVE  k \in DOMAIN clients' /\ NotBehind(clients'[k], db'[k])
    BY MemoryByKeyNext
  <1> DEFINE row == db[k]
             s == deserializeTrustState(row)
  <1>1. k \in DOMAIN db /\ db' = db /\ k \in DOMAIN clients' /\ clients'[k] = s
    BY DEF Start
  <1>2. row \in Row /\ Sound(row.state, now)
    BY <1>1 DEF TypeInv, TypeOK, RowsSound
  <1>3. /\ Sound(s, now)
        /\ s.status = row.state.status
        /\ s.totalPacketsReceived = row.state.totalPacketsReceived
        /\ s.duplicateCount = row.state.duplicateCount
        /\ s.anomalyCount = row.state.anomalyCount \/ "clockVersion" \in row.lacks
    BY <1>2, DeserializeEffect DEF TypeInv, TypeOK
  <1>4. row.state \in ClientTrustState
    BY <1>2 DEF Sound
  <1> HIDE DEF s, row
  <1>5. NotBehind(s, row)
    BY <1>3, <1>4, StatesAreCounted DEF NotBehind
  <1> QED
    BY <1>1, <1>5 DEF s, row

LEMMA RecordKeepsMemory ==
    ASSUME TypeInv, MemoryNotBehind,
           NEW k \in Keys, NEW p \in Payloads, NEW iata \in Iatas, Record(k, p, iata)
    PROVE  MemoryNotBehind'
  <1> SUFFICES ASSUME NEW j \in DOMAIN db', Readable(db'[j])
               PROVE  j \in DOMAIN clients' /\ NotBehind(clients'[j], db'[j])
    BY MemoryByKeyNext
  <1> DEFINE s == clients[k]
             after == RecordPacket(CheckIataChange(s, now, iata), now, p)
  <1>1. /\ k \in DOMAIN clients /\ DOMAIN clients' = DOMAIN clients
        /\ clients'[k] = after /\ process # "down"
        /\ \A i \in DOMAIN clients : i # k => clients'[i] = clients[i]
        /\ db' = db
    BY DEF Record
  <1>2. j \in DOMAIN clients /\ NotBehind(clients[j], db[j])
    BY <1>1, MemoryByKey
  <1>3. Sound(s, now) /\ Sound(db[j].state, now)
    BY <1>1 DEF TypeInv, MemorySound, RowsSound
  <1>4. /\ Sound(after, now)
        /\ s.totalPacketsReceived <= after.totalPacketsReceived
        /\ s.anomalyCount <= after.anomalyCount
        /\ s.duplicateCount <= after.duplicateCount
        /\ s.status = "muted" => after.status = "muted"
    BY <1>3, RecordEffect DEF TypeInv, TypeOK
  <1> HIDE DEF after
  <1>5. CASE j = k
    <2>1. /\ s \in ClientTrustState /\ after \in ClientTrustState
          /\ db[j].state \in ClientTrustState
      BY <1>3, <1>4 DEF Sound
    <2>2. NotBehind(s, db[j])
      BY <1>2, <1>5
    <2> HIDE DEF s
    <2>3. NotBehind(after, db[j])
      BY <1>4, <2>1, <2>2, StatesAreCounted DEF NotBehind
    <2> QED
      BY <1>1, <1>2, <1>5, <2>3
  <1>6. CASE j # k
    BY <1>1, <1>2, <1>6
  <1> QED
    BY <1>5, <1>6

LEMMA SaveKeepsMemory ==
    ASSUME TypeInv, MemoryNotBehind,
           NEW S \in SUBSET DOMAIN clients, Save(S) \/ Shutdown(S)
    PROVE  MemoryNotBehind'
  <1> SUFFICES ASSUME NEW k \in DOMAIN db', Readable(db'[k])
               PROVE  k \in DOMAIN clients' /\ NotBehind(clients'[k], db'[k])
    BY MemoryByKeyNext
  <1>1. db' = Saved(S) /\ process = "up" /\ clients' = clients
    BY DEF Save, Shutdown
  <1>2. /\ DOMAIN db' = DOMAIN db \union S
        /\ \A j \in S : db'[j] = [state |-> clients[j], lacks |-> {}]
        /\ \A j \in DOMAIN db \ S : db'[j] = db[j]
    BY <1>1, SavedRows
  <1>3. CASE k \in S
    <2>1. clients[k] \in ClientTrustState
      BY <1>3 DEF TypeInv, TypeOK, TrustStates
    <2> QED
      BY <1>1, <1>2, <1>3, <2>1, StatesAreCounted DEF NotBehind
  <1>4. CASE k \notin S
    BY <1>1, <1>2, <1>4, MemoryByKey
  <1> QED
    BY <1>3, <1>4

LEMMA MemoryStep == TypeInv /\ MemoryNotBehind /\ [Next]_vars => MemoryNotBehind'
  <1> SUFFICES ASSUME TypeInv, MemoryNotBehind, [Next]_vars
               PROVE  MemoryNotBehind'
    OBVIOUS
  <1>1. CASE Start
    BY <1>1, StartKeepsMemory
  <1>2. CASE Crash
    BY <1>2 DEF MemoryNotBehind, Crash
  <1>3. CASE Tick
    BY <1>3 DEF MemoryNotBehind, Tick
  <1>4. ASSUME NEW k \in Keys, InitializeClient(k)
        PROVE  MemoryNotBehind'
    <2>1. /\ k \notin DOMAIN clients /\ db' = db /\ process = "up"
          /\ DOMAIN clients' = DOMAIN clients \union {k}
          /\ \A j \in DOMAIN clients : clients'[j] = clients[j]
      BY <1>4 DEF InitializeClient, Updated
    <2> QED
      BY <2>1, MemoryByKey, MemoryByKeyNext
  <1>5. ASSUME NEW k \in Keys, NEW p \in Payloads, NEW iata \in Iatas, Record(k, p, iata)
        PROVE  MemoryNotBehind'
    BY <1>5, RecordKeepsMemory
  <1>6. ASSUME NEW S \in SUBSET DOMAIN clients, Save(S) \/ Shutdown(S)
        PROVE  MemoryNotBehind'
    BY <1>6, SaveKeepsMemory
  <1>7. CASE UNCHANGED vars
    BY <1>7 DEF MemoryNotBehind, vars
  <1> QED
    BY <1>1, <1>2, <1>3, <1>4, <1>5, <1>6, <1>7 DEF Next

LEMMA MemoryInit == Init => MemoryNotBehind
  BY DEF Init, MemoryNotBehind

(* Memory is never behind the rows that can be read: no save takes back a  *)
(* packet, an anomaly, a duplicate or a mute of one, after any crashes and *)
(* partial saves.                                                          *)
THEOREM MemoryIsNotBehind == Spec => []MemoryNotBehind
  BY TypeInvInit, TypeInvStep, MemoryInit, MemoryStep, PTL DEF Spec

(* A save writes only what memory has, and memory has the mute of every    *)
(* row that was loaded.                                                    *)
LEMMA MutedRowsStay ==
    TypeInv /\ MemoryNotBehind /\ [Next]_vars =>
        \A k \in MutedRows \ MutedRows' : ~Readable(db[k])
  <1> SUFFICES ASSUME TypeInv, MemoryNotBehind, [Next]_vars
               PROVE  \A k \in MutedRows \ MutedRows' : ~Readable(db[k])
    OBVIOUS
  <1>1. CASE db' = db
    BY <1>1 DEF MutedRows
  <1>2. ASSUME NEW S \in SUBSET DOMAIN clients, Save(S) \/ Shutdown(S)
        PROVE  \A k \in MutedRows \ MutedRows' : ~Readable(db[k])
    <2>1. db' = Saved(S) /\ process = "up"
      BY <1>2 DEF Save, Shutdown
    <2>2. /\ DOMAIN db' = DOMAIN db \union S
          /\ \A k \in S : db'[k] = [state |-> clients[k], lacks |-> {}]
          /\ \A k \in DOMAIN db \ S : db'[k] = db[k]
      BY <2>1, SavedRows
    <2>3. \A k \in MutedRows : Readable(db[k]) =>
              k \in DOMAIN db' /\ db'[k].state.status = "muted"
      BY <2>1, <2>2 DEF MutedRows, MemoryNotBehind
    <2> QED
      BY <2>3 DEF MutedRows
  <1>3. db' = db \/ \E S \in SUBSET DOMAIN clients : Save(S) \/ Shutdown(S)
    BY DEF Next, Start, Crash, Tick, InitializeClient, Record, vars
  <1> QED
    BY <1>1, <1>2, <1>3

(* A saved mute is for good: no step of the process lifts the mute of a row*)
(* that can be read (SavedMuteIsForGood).                                  *)
THEOREM SavedMutesAreForGood == Spec => SavedMuteIsForGood
  <1>1. TypeInv /\ MemoryNotBehind /\ [Next]_vars =>
            [\A k \in MutedRows \ MutedRows' : ~Readable(db[k])]_vars
    BY MutedRowsStay
  <1> QED
    BY TypeInvInit, TypeInvStep, MemoryInit, MemoryStep, <1>1, PTL DEF Spec, SavedMuteIsForGood

=============================================================================
