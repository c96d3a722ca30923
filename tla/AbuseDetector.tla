--------------------------- MODULE AbuseDetector ---------------------------
(***************************************************************************)
(* The AbuseDetector object of src/abuse-detector.ts in its process: trust *)
(* states in memory, rows in a SQLite table, a save every persistence-     *)
(* IntervalMs, a last save on SIGINT or SIGTERM (server.ts:987-1004), and  *)
(* crashes, which may come at any moment and lose what is only in memory.  *)
(* The table may hold rows of an earlier version, which lack fields:       *)
(* loading a row fills most of them in, and skips a row that lacks the     *)
(* clock tracking altogether, as it skips any row it cannot read.          *)
(***************************************************************************)
EXTENDS TrustState

CONSTANTS
    Keys,                   \* public keys of publishers
    firstRows,              \* tables the first process may find
    MaxPackets,             \* bound: packets recorded of each
    MaxNow                  \* bound: the clock stops here

VARIABLES
    now,
    process,                \* the broker: down, up, or closing after a signal
    clients,                \* trust states in memory, of the keys known
    totalClientsMuted,      \* of the statistics
    db                      \* rows of trust_states, of the keys saved

vars == <<now, process, clients, totalClientsMuted, db>>

NoStates == [k \in {} |-> NewClient(0)]

(* What a row of an earlier version may lack, or, peakRateWindow, have     *)
(* without a version; clockVersion is the version of its clockTracking.    *)
Additions == {"duplicateRateWindow", "peakRateWindow", "clockVersion", "clockTracking"}

Row == [state : ClientTrustState, lacks : SUBSET Additions]

(* The clock starts with the first process, after the rows it finds were   *)
(* written.                                                                *)
ASSUME DetectorAssumption ==
    /\ IsFiniteSet(Keys)
    /\ \A f \in firstRows :
          /\ DOMAIN f \subseteq Keys
          /\ \A k \in DOMAIN f : /\ f[k] \in Row
                                 /\ f[k].state.lastRefill = 0
                                 /\ IsFiniteSet(f[k].state.iataHistory)
    /\ MaxPackets \in Nat /\ MaxNow \in Nat

TrustStates(f) == DOMAIN f \subseteq Keys /\ \A k \in DOMAIN f : f[k] \in ClientTrustState

TypeOK ==
    /\ now \in Nat
    /\ process \in {"down", "up", "closing"}
    /\ TrustStates(clients)
    /\ DOMAIN db \subseteq Keys /\ \A k \in DOMAIN db : db[k] \in Row
    /\ totalClientsMuted \in 0..Cardinality(Keys)

Init ==
    /\ now = 0
    /\ process = "down"
    /\ clients = NoStates
    /\ totalClientsMuted = 0
    /\ db \in firstRows

Muted(f) == {k \in DOMAIN f : f[k].status = "muted"}
MutedRows == {k \in DOMAIN db : db[k].state.status = "muted"}

\* f with the states that g has of the keys S.
Updated(f, g, S) ==
    [k \in DOMAIN f \union S |-> IF k \in S THEN g[k] ELSE f[k]]

----------------------------------------------------------------------------
(* The rows.                                                               *)

\* Fault: what an earlier version counted is begun again, mute and all.
deserializeTrustStateAnew(row) ==
    IF row.lacks = {} THEN row.state ELSE NewClient(now)

\* Without clockTracking, reading its version throws, and loadFromDatabase
\* goes on with the next row.
Readable(row) == "clockTracking" \notin row.lacks

\* deserializeTrustState: a missing window is empty; peaks measured without a
\* window are forgotten; so are the anomalies of the old clock tracking.
deserializeTrustState(row) ==
    [row.state EXCEPT
        !.window = IF "duplicateRateWindow" \in row.lacks
                   THEN [total |-> 0, duplicates |-> 0, start |-> now] ELSE @,
        !.packetTimes = IF "peakRateWindow" \in row.lacks THEN <<>> ELSE @,
        !.peakRateObserved = IF "peakRateWindow" \in row.lacks THEN 0 ELSE @,
        !.anomalyCount = IF "clockVersion" \in row.lacks THEN 0 ELSE @]

\* saveToDatabase: each row is written by itself, and one that cannot be
\* written is skipped.
Saved(S) ==
    Updated(db, [k \in DOMAIN clients |-> [state |-> clients[k], lacks |-> {}]], S)

----------------------------------------------------------------------------
\* The constructor: loadFromDatabase.
Start ==
    /\ process = "down"
    /\ process' = "up"
    /\ clients' = [k \in {j \in DOMAIN db : Readable(db[j])} |->
                      deserializeTrustState(db[k])]
    /\ totalClientsMuted' = Cardinality(Muted(clients'))
    /\ UNCHANGED <<now, db>>

\* Fault: a publisher that comes back begins again.
InitializeClientAnew(k) ==
    /\ process = "up"
    /\ clients' = Updated(clients, [j \in {k} |-> NewClient(now)], {k})
    /\ UNCHANGED <<now, process, totalClientsMuted, db>>

\* initializeClient: a publisher that comes back keeps its state.
InitializeClient(k) ==
    /\ process = "up"
    /\ k \notin DOMAIN clients
    /\ clients' = Updated(clients, [j \in {k} |-> NewClient(now)], {k})
    /\ UNCHANGED <<now, process, totalClientsMuted, db>>

\* Fault: muteClient without its early return counts every call.
CountMuteAgain(before, after) ==
    totalClientsMuted' =
        totalClientsMuted + (IF after.status = "muted" THEN 1 ELSE 0)

\* muteClient: this.stats.totalClientsMuted++
CountMute(before, after) ==
    totalClientsMuted' =
        totalClientsMuted
          + (IF before.status # "muted" /\ after.status = "muted" THEN 1 ELSE 0)

\* A packet authorizePublish accepts, muted or not: after the signal too, as
\* long as Aedes is closing its clients and publishing their wills.
Record(k, p, iata) ==
    LET after == RecordPacket(CheckIataChange(clients[k], now, iata), now, p)
    IN  /\ process \in {"up", "closing"}
        /\ k \in DOMAIN clients
        /\ clients[k].totalPacketsReceived < MaxPackets
        /\ clients' = [clients EXCEPT ![k] = after]
        /\ CountMute(clients[k], after)
        /\ UNCHANGED <<now, process, db>>

\* Fault: UPDATE, where the code says INSERT OR REPLACE.
SaveKnown(S) ==
    /\ process = "up"
    /\ db' = Saved(S \intersect DOMAIN db)
    /\ UNCHANGED <<now, process, clients, totalClientsMuted>>

\* saveToDatabase, by the interval timer.
Save(S) ==
    /\ process = "up"
    /\ db' = Saved(S)
    /\ UNCHANGED <<now, process, clients, totalClientsMuted>>

\* SIGINT or SIGTERM: shutdown saves, and closes the database.
Shutdown(S) ==
    /\ process = "up"
    /\ process' = "closing"
    /\ db' = Saved(S)
    /\ UNCHANGED <<now, clients, totalClientsMuted>>

\* The process ends: a crash, also in the middle of a save (Save with some of
\* the keys, then Crash), a second signal, which finds the database closed
\* and throws, or the exit once Aedes has closed.
Crash ==
    /\ process # "down"
    /\ process' = "down"
    /\ clients' = NoStates
    /\ totalClientsMuted' = 0
    /\ UNCHANGED <<now, db>>

Tick ==
    /\ now < MaxNow
    /\ now' = now + 1
    /\ UNCHANGED <<process, clients, totalClientsMuted, db>>

Next ==
    \/ Start \/ Crash \/ Tick
    \/ \E k \in Keys : InitializeClient(k)
    \/ \E k \in Keys, p \in Payloads, iata \in Iatas : Record(k, p, iata)
    \/ \E S \in SUBSET DOMAIN clients : Save(S) \/ Shutdown(S)

Spec == Init /\ [][Next]_vars

(* Fairness: setInterval keeps calling saveToDatabase while the process    *)
(* lives, and not every one of the calls fails to write a row.             *)
FairSpec == Spec /\ WF_vars(Save(DOMAIN clients))

----------------------------------------------------------------------------
(* The statistic is right: as long as the process lives it counts exactly  *)
(* the publishers that are muted, whichever of the ways led to each mute   *)
(* and whatever was loaded (stats, abuse-detector.ts:205-209).             *)
MutedCounted ==
    process # "down" => totalClientsMuted = Cardinality(Muted(clients))

(* Memory is never behind the rows: after any crash and any partial save,  *)
(* a state in memory has every packet, every anomaly and the mute of its   *)
(* row, so no save takes anything back.  Only the anomalies of a row with  *)
(* the old clock tracking are dropped, and its mute is not.  It says       *)
(* nothing of rows that cannot be read: their publishers begin again.      *)
MemoryNotBehind ==
    process # "down" =>
        \A k \in DOMAIN db : Readable(db[k]) =>
            LET row == db[k].state IN
            /\ k \in DOMAIN clients
            /\ clients[k].totalPacketsReceived >= row.totalPacketsReceived
            /\ \/ clients[k].anomalyCount >= row.anomalyCount
               \/ "clockVersion" \in db[k].lacks
            /\ clients[k].duplicateCount >= row.duplicateCount
            /\ row.status = "muted" => clients[k].status = "muted"

(* A mute that was saved is for good: no restart, reconnection, save or    *)
(* crash lifts it, and no repair of its row; but for a row that cannot be  *)
(* read, which the next save of its publisher replaces (256-258).          *)
SavedMuteIsForGood ==
    [][\A k \in MutedRows \ MutedRows' : ~Readable(db[k])]_vars

(* A mute gets saved: a publisher that is muted in memory is muted in its  *)
(* row sooner or later, whichever rows single saves skip, unless the       *)
(* process ends before the timer fires (abuse-detector.ts 177-180).        *)
MutesReachRows ==
    \A k \in Keys : k \in Muted(clients) ~> k \in MutedRows \/ process # "up"

=============================================================================
