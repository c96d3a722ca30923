----------------------------- MODULE TrustState -----------------------------
(***************************************************************************)
(* What src/abuse-detector.ts makes of one publisher's trust state: the    *)
(* operators are the methods of AbuseDetector that take a state, with the  *)
(* time t they read from Date.now().                                       *)
(*                                                                         *)
(* Left out of a state: the identity, topic, clock and IP fields, which    *)
(* are only shown, the sizes behind avgPacketSize, and the text of reasons *)
(* and anomalies.  Time is in ticks.  The bucket holds fractions of tokens *)
(* in the code; here it is counted in units, tokenCost of them a token.    *)
(***************************************************************************)
EXTENDS Integers, Sequences, FiniteSets

CONSTANTS
    Payloads,               \* packet payloads (their hashes)
    Oversized,              \* those whose raw packet exceeds maxPacketSize
    Iatas, NoIata,          \* location codes; currentIata undefined
    tokenCost,              \* units in a token
    bucketCapacity,         \* in units
    bucketRefillRate,       \* units a tick
    duplicateWindowMs, duplicateWindowSize, maxDuplicatesPerPacket,
    duplicateRateWindowMs,
    rateNum, rateDen,       \* duplicateRateThreshold = rateNum / rateDen
    minPackets,             \* packets needed to judge a rate (20)
    maxIataChanges24h,
    day, hour, interval,    \* 24 h, one hour and the ten seconds of a rate
    anomalyThreshold,
    enforcementEnabled

ASSUME TrustAssumption ==
    /\ Oversized \subseteq Payloads
    /\ NoIata \notin Iatas
    /\ tokenCost \in Nat \ {0} /\ bucketRefillRate \in Nat
    /\ bucketCapacity \in Nat /\ bucketCapacity >= tokenCost
    /\ duplicateWindowMs \in Nat \ {0} /\ duplicateWindowSize \in Nat \ {0}
    /\ duplicateRateWindowMs \in Nat /\ maxDuplicatesPerPacket \in Nat
    /\ rateNum \in Nat /\ rateDen \in Nat \ {0} /\ minPackets \in Nat
    /\ maxIataChanges24h \in Nat /\ anomalyThreshold \in Nat \ {0}
    /\ interval \in Nat \ {0} /\ hour \in Nat /\ day \in Nat
    /\ interval <= hour /\ hour <= day
    /\ enforcementEnabled \in BOOLEAN

Lesser(a, b) == IF a < b THEN a ELSE b

PacketHash == [hash : Payloads, timestamp : Nat, count : Nat \ {0}]
IataVisit == [iata : Iatas, lastSeen : Nat]

ClientTrustState ==
    [status : {"allowed", "muted"},
     tokens : 0..bucketCapacity, lastRefill : Nat,
     recentPacketHashes : Seq(PacketHash), duplicateCount : Nat,
     window : [total : Nat, duplicates : Nat, start : Nat],
     iataHistory : SUBSET IataVisit, currentIata : Iatas \union {NoIata},
     iataChangeCount24h : Nat,
     anomalyCount : Nat,
     totalPacketsReceived : Nat,
     packetTimes : Seq(Nat), peakRateObserved : Nat]

\* The state initializeClient makes for a key it does not know.
NewClient(t) ==
    [status |-> "allowed",
     tokens |-> bucketCapacity, lastRefill |-> t,
     recentPacketHashes |-> <<>>, duplicateCount |-> 0,
     window |-> [total |-> 0, duplicates |-> 0, start |-> t],
     iataHistory |-> {}, currentIata |-> NoIata,
     iataChangeCount24h |-> 0,
     anomalyCount |-> 0,
     totalPacketsReceived |-> 0,
     packetTimes |-> <<>>, peakRateObserved |-> 0]

----------------------------------------------------------------------------
\* Array.prototype.filter: the entries of s at the places kept, in their order;
\* Picking(s, kept)[n] are those among the first n.
Picking(s, kept) ==
    LET picked[n \in 0..Len(s)] ==
            IF n = 0 THEN <<>>
            ELSE IF n \in kept THEN Append(picked[n - 1], s[n])
            ELSE picked[n - 1]
    IN  picked

Filtered(s, kept) == Picking(s, kept)[Len(s)]

----------------------------------------------------------------------------
\* muteClient: only with enforcement.
MuteClient(s) ==
    IF enforcementEnabled THEN [s EXCEPT !.status = "muted"] ELSE s

\* Fault: the anomaly after the threshold mutes.
RecordAnomalyLate(s) ==
    LET counted == [s EXCEPT !.anomalyCount = @ + 1]
    IN  IF counted.anomalyCount > anomalyThreshold
        THEN MuteClient(counted) ELSE counted

RecordAnomaly(s) ==
    LET counted == [s EXCEPT !.anomalyCount = @ + 1]
    IN  IF counted.anomalyCount >= anomalyThreshold
        THEN MuteClient(counted) ELSE counted

----------------------------------------------------------------------------
\* checkRateLimit: tokens for the time since the last call, up to the capacity.
Refilled(s, t) ==
    [s EXCEPT
        !.tokens = Lesser(bucketCapacity, @ + (t - s.lastRefill) * bucketRefillRate),
        !.lastRefill = t]

\* Fault: a token is taken whether there is one or not.
CheckRateLimitNoFloor(s, t) ==
    LET r == Refilled(s, t)
    IN  [ok |-> r.tokens >= tokenCost,
         state |-> [r EXCEPT !.tokens = @ - tokenCost]]

\* Fault: the refill time moves only when a token is taken.
CheckRateLimitKeepsTime(s, t) ==
    LET r == Refilled(s, t)
    IN  IF r.tokens < tokenCost
        THEN [ok |-> FALSE, state |-> [r EXCEPT !.lastRefill = s.lastRefill]]
        ELSE [ok |-> TRUE, state |-> [r EXCEPT !.tokens = @ - tokenCost]]

\* The answer, and the state with a token less if there was one.
CheckRateLimit(s, t) ==
    LET r == Refilled(s, t)
    IN  IF r.tokens < tokenCost
        THEN [ok |-> FALSE, state |-> r]
        ELSE [ok |-> TRUE, state |-> [r EXCEPT !.tokens = @ - tokenCost]]

----------------------------------------------------------------------------
\* Hashes not seen for duplicateWindowMs are forgotten.
FreshHashes(s, t) ==
    LET hashes == s.recentPacketHashes
    IN  Filtered(hashes, {i \in DOMAIN hashes :
                             t - hashes[i].timestamp < duplicateWindowMs})

\* Fault: a new window keeps the duplicates of the old.
CountedWindowKeeps(s, t, duplicate) ==
    LET w == IF t - s.window.start > duplicateRateWindowMs
             THEN [s.window EXCEPT !.total = 0, !.start = t]
             ELSE s.window
    IN  [w EXCEPT !.total = @ + 1,
                  !.duplicates = IF duplicate THEN @ + 1 ELSE @]

\* duplicateRateWindow with one packet more, begun again when it is over.
CountedWindow(s, t, duplicate) ==
    LET w == IF t - s.window.start > duplicateRateWindowMs
             THEN [total |-> 0, duplicates |-> 0, start |-> t]
             ELSE s.window
    IN  [w EXCEPT !.total = @ + 1,
                  !.duplicates = IF duplicate THEN @ + 1 ELSE @]

\* A new hash; the first of the list goes when there are too many.
Remember(hashes, p, t) ==
    LET longer == Append(hashes, [hash |-> p, timestamp |-> t, count |-> 1])
    IN  IF Len(longer) > duplicateWindowSize THEN Tail(longer) ELSE longer

\* Fault: a copy does not renew the time its hash was last seen.
CountCopyFirstSeen(hashes, i, t) == [hashes EXCEPT ![i].count = @ + 1]

\* One more copy of the i-th hash.
CountCopy(hashes, i, t) ==
    [hashes EXCEPT ![i].count = @ + 1, ![i].timestamp = t]

\* The two anomalies a duplicate may be: copies of it, or the overall rate.
ExcessiveCopies(h) == h.count > maxDuplicatesPerPacket

HighDuplicateRate(w) ==
    w.total >= minPackets /\ w.duplicates * rateDen > rateNum * w.total

\* checkDuplicates.  Its answer is used by nobody but recordPacket, whose own
\* answer authorizePublish ignores, so only the state is kept.
CheckDuplicates(s, t, p) ==
    LET hashes    == FreshHashes(s, t)
        known     == {i \in DOMAIN hashes : hashes[i].hash = p}
        i         == CHOOSE j \in known : TRUE
        duplicate == known # {}
        window    == CountedWindow(s, t, duplicate)
        counted   == [s EXCEPT
                        !.window = window,
                        !.duplicateCount = IF duplicate THEN @ + 1 ELSE @,
                        !.recentPacketHashes =
                            IF duplicate THEN CountCopy(hashes, i, t)
                                         ELSE Remember(hashes, p, t)]
    IN  IF duplicate /\ \/ ExcessiveCopies(counted.recentPacketHashes[i])
                        \/ HighDuplicateRate(window)
        THEN RecordAnomaly(counted)
        ELSE counted

----------------------------------------------------------------------------
\* Fault: a location already in the history is added again.
SeenAgainTwice(history, iata, t) ==
    history \union {[iata |-> iata, lastSeen |-> t]}

\* A location of the history, seen now.
SeenAgain(history, iata, t) ==
    {IF v.iata = iata THEN [v EXCEPT !.lastSeen = t] ELSE v : v \in history}

\* checkIataChange, whose answer authorizePublish ignores.
CheckIataChange(s, t, iata) ==
    LET history == {v \in s.iataHistory : v.lastSeen > t - day}
        known   == \E v \in history : v.iata = iata
        here    == [iata |-> iata, lastSeen |-> t]
        cleaned == [s EXCEPT !.iataHistory = history]
        changes == Cardinality(history) + 1
    IN  IF s.currentIata = NoIata
        THEN [cleaned EXCEPT !.currentIata = iata, !.iataHistory = @ \union {here}]
        ELSE IF s.currentIata = iata \/ known
        THEN [cleaned EXCEPT !.currentIata = iata,
                             !.iataHistory = SeenAgain(@, iata, t)]
        ELSE IF changes > maxIataChanges24h
        THEN MuteClient([cleaned EXCEPT !.iataChangeCount24h = changes])
        ELSE [cleaned EXCEPT !.iataChangeCount24h = changes,
                             !.currentIata = iata,
                             !.iataHistory = @ \union {here}]

----------------------------------------------------------------------------
\* The packets of s.packetTimes in the last d ticks.
Within(times, t, d) == Filtered(times, {i \in DOMAIN times : times[i] > t - d})

\* The rate part of recordPacket; a rate is the packets of an interval.
ObserveRate(s, t) ==
    LET times   == Within(Append(s.packetTimes, t), t, day)
        current == Len(Within(times, t, interval))
        peak    == IF current > s.peakRateObserved THEN current
                                                   ELSE s.peakRateObserved
    IN  [s EXCEPT
            !.packetTimes = times,
            !.peakRateObserved = IF Len(Within(times, t, hour)) = 0
                                 THEN 0 ELSE peak]

\* recordPacket: counted, measured, and, if the bucket had a token, compared
\* with the packets before.
RecordPacket(s, t, p) ==
    LET observed == ObserveRate([s EXCEPT !.totalPacketsReceived = @ + 1], t)
        sized    == IF p \in Oversized THEN RecordAnomaly(observed) ELSE observed
        limited  == CheckRateLimit(sized, t)
    IN  IF limited.ok THEN CheckDuplicates(limited.state, t, p)
                      ELSE MuteClient(limited.state)

=============================================================================
