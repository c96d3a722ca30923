--------------------------- MODULE PublisherAudit ---------------------------
(***************************************************************************)
(* One publisher, tracked from its first connection on: what its packets   *)
(* make of its trust state, next to what really happened.  A packet that   *)
(* authorizePublish accepts goes through checkIataChange and recordPacket. *)
(***************************************************************************)
EXTENDS TrustState

CONSTANTS
    MaxPackets,             \* bound: packets published
    MaxNow                  \* bound: the clock stops here

VARIABLES
    now,
    state,                  \* the trust state
    served,                 \* history: packets that found a token
    lastSeen,               \* history: when each payload was last compared
    moves                   \* history: changes of location made

vars == <<now, state, served, lastSeen, moves>>

TypeOK ==
    /\ now \in Nat
    /\ state \in ClientTrustState
    /\ served \in Nat
    /\ lastSeen \in [Payloads -> Nat \union {-1}]
    /\ moves \in Nat

Init ==
    /\ now = 0
    /\ state = NewClient(0)
    /\ served = 0
    /\ lastSeen = [p \in Payloads |-> -1]
    /\ moves = 0

Publish(p, iata) ==
    LET located == CheckIataChange(state, now, iata)
        ok      == CheckRateLimit(located, now).ok
    IN  /\ state.totalPacketsReceived < MaxPackets
        /\ state' = RecordPacket(located, now, p)
        /\ served' = IF ok THEN served + 1 ELSE served
        /\ lastSeen' = IF ok THEN [lastSeen EXCEPT ![p] = now] ELSE lastSeen
        /\ moves' = IF state.currentIata \notin {NoIata, iata}
                    THEN moves + 1 ELSE moves
        /\ UNCHANGED now

Tick == now < MaxNow /\ now' = now + 1 /\ UNCHANGED <<state, served, lastSeen, moves>>

Next == (\E p \in Payloads, iata \in Iatas : Publish(p, iata)) \/ Tick

Spec == Init /\ [][Next]_vars
FairSpec == Spec /\ WF_vars(Next)

----------------------------------------------------------------------------
(* The bucket limits the rate: the packets served since the publisher came *)
(* never exceed a full bucket and what was refilled since, whatever their  *)
(* timing (checkRateLimit, abuse-detector.ts:671-691).                     *)
BucketLimitsRate ==
    served * tokenCost + state.tokens
        <= bucketCapacity + state.lastRefill * bucketRefillRate

(* A duplicate is forgotten only for want of room: a payload compared less *)
(* than duplicateWindowMs ago is in the list with that time, so its next   *)
(* copy is recognised, unless duplicateWindowSize others were around.      *)
NoDuplicateForgotten ==
    \A p \in Payloads :
        lastSeen[p] >= 0 /\ now - lastSeen[p] < duplicateWindowMs =>
            \/ \E i \in DOMAIN state.recentPacketHashes :
                  /\ state.recentPacketHashes[i].hash = p
                  /\ state.recentPacketHashes[i].timestamp = lastSeen[p]
            \/ duplicateWindowSize <= Cardinality({q \in Payloads \ {p} :
                  lastSeen[q] >= 0 /\ lastSeen[q] > lastSeen[p] - duplicateWindowMs})

\* The copies that the first n hashes of a list show.
CopiesUpTo(hashes) ==
    LET copies[n \in 0..Len(hashes)] ==
            IF n = 0 THEN 0 ELSE copies[n - 1] + (hashes[n].count - 1)
    IN  copies

(* Copies add up: no payload is listed twice, the list keeps its size, the *)
(* copies it shows were all counted as duplicates, and the rate window has *)
(* no more duplicates than packets.                                        *)
CopiesAddUp ==
    LET hashes == state.recentPacketHashes IN
    /\ Len(hashes) <= duplicateWindowSize
    /\ \A i, j \in DOMAIN hashes : i # j => hashes[i].hash # hashes[j].hash
    /\ CopiesUpTo(hashes)[Len(hashes)] <= state.duplicateCount
    /\ state.window.duplicates <= state.window.total

(* The history of locations names each location once, and never more than  *)
(* maxIataChanges24h of them; with a limit of 0 it holds the current one.  *)
LocationsBounded ==
    /\ \A v, w \in state.iataHistory : v.iata = w.iata => v = w
    /\ Cardinality(state.iataHistory)
          <= (IF maxIataChanges24h = 0 THEN 1 ELSE maxIataChanges24h)

MuteDue == enforcementEnabled /\ state.anomalyCount >= anomalyThreshold

(* With enforcement, a publisher with anomalyThreshold anomalies is muted, *)
(* on whichever path it got the last of them; and mute is for good, that   *)
(* of a publisher with fewer anomalies too (muteClient has no counterpart).*)
ThresholdMutes ==
    /\ [](MuteDue => state.status = "muted")
    /\ [][state.status = "muted" => state'.status = "muted"]_vars

(* The peak decays: a packet after an hour of silence does not leave the   *)
(* peak of before standing ("Reset peak if no packets in last hour (allows *)
(* peak to decay)", abuse-detector.ts:530).                                *)
PeakDecays ==
    [][\A p \in Payloads, iata \in Iatas :
          /\ Publish(p, iata)
          /\ Within(state.packetTimes, now, hour) = <<>>
          => state'.peakRateObserved <= Len(Within(state'.packetTimes, now, interval))]_vars

(* Changes are counted: the "changes in 24h" recorded, logged and compared *)
(* with ABUSE_MAX_IATA_CHANGES_24H are never more than the changes of      *)
(* location made (abuse-detector.ts:713-716).                              *)
ChangesCounted == state.iataChangeCount24h <= moves

=============================================================================
