----------------------- MODULE PublisherAuditProofs -----------------------
(***************************************************************************)
(* What the detector's bookkeeping of a publisher promises, for any        *)
(* packets at any times and any limits.                                    *)
(***************************************************************************)
EXTENDS PublisherAudit, TrustStateProofs

----------------------------------------------------------------------------
TypeInv ==
    /\ TypeOK
    /\ Sound(state, now)
    /\ \A p \in Payloads : lastSeen[p] <= now

(* A Publish, in the terms of what checkIataChange and recordPacket do.    *)
LEMMA PublishEffect ==
    ASSUME TypeInv, NEW p \in Payloads, NEW iata \in Iatas, Publish(p, iata)
    PROVE  \E ok \in BOOLEAN :
              /\ state' \in ClientTrustState
              /\ Sound(state', now)
              /\ Harder(state', state)
              /\ state'.lastRefill = now
              /\ state'.tokens + (IF ok THEN tokenCost ELSE 0)
                   <= state.tokens + (now - state.lastRefill) * bucketRefillRate
              /\ Located(state', state, now, iata)
              /\ state.window.duplicates <= state.window.total
                   => state'.window.duplicates <= state'.window.total
              /\ ~ok => SameDuplicates(state', state)
              /\ ok => Compared(state', state, now, p)
              /\ served' = IF ok THEN served + 1 ELSE served
              /\ lastSeen' = IF ok THEN [lastSeen EXCEPT ![p] = now] ELSE lastSeen
  <1> DEFINE located == CheckIataChange(state, now, iata)
             ok == CheckRateLimit(located, now).ok
  <1>0. now \in Nat /\ state \in ClientTrustState /\ Sound(state, now)
    BY DEF TypeInv, TypeOK
  <1>1. /\ located \in ClientTrustState /\ IsFiniteSet(located.iataHistory)
        /\ Harder(located, state) /\ SameBucket(located, state)
        /\ SameDuplicates(located, state) /\ SameTotal(located, state)
        /\ Located(located, state, now, iata)
    BY <1>0, CheckIataChangeEffect DEF Sound
  <1>2. located.lastRefill <= now
    BY <1>0, <1>1 DEF Sound, SameBucket
  <1>3. /\ state' = RecordPacket(located, now, p)
        /\ served' = IF ok THEN served + 1 ELSE served
        /\ lastSeen' = IF ok THEN [lastSeen EXCEPT ![p] = now] ELSE lastSeen
    BY DEF Publish
  <1> HIDE DEF located
  <1>4. ok \in BOOLEAN
    BY <1>0, <1>1, <1>2, CheckRateLimitEffect
  <1>5. /\ state' \in ClientTrustState
        /\ Harder(state', located) /\ SameLocations(state', located)
        /\ state'.lastRefill = now
        /\ state'.tokens + (IF ok THEN tokenCost ELSE 0)
             <= located.tokens + (now - located.lastRefill) * bucketRefillRate
        /\ located.window.duplicates <= located.window.total
             => state'.window.duplicates <= state'.window.total
        /\ ~ok => SameDuplicates(state', located)
        /\ ok => Compared(state', located, now, p)
    BY <1>0, <1>1, <1>2, <1>3, RecordPacketEffect
  <1> HIDE DEF ok
  <1>6. /\ state.anomalyCount \in Nat /\ located.anomalyCount \in Nat
        /\ state'.anomalyCount \in Nat
    BY <1>0, <1>1, <1>5 DEF ClientTrustState
  <1>7. Harder(state', state)
    BY <1>1, <1>5, <1>6 DEF Harder
  <1>8. Sound(state', now)
    BY <1>0, <1>1, <1>5 DEF Sound, SameLocations
  <1>9. /\ ~ok => SameDuplicates(state', state)
        /\ ok => Compared(state', state, now, p)
    BY <1>1, <1>5 DEF SameDuplicates, Compared, FreshHashes
  <1>10. state'.tokens + (IF ok THEN tokenCost ELSE 0)
           <= state.tokens + (now - state.lastRefill) * bucketRefillRate
    <2>1. located.tokens = state.tokens /\ located.lastRefill = state.lastRefill
      BY <1>1 DEF SameBucket
    <2> QED
      BY <1>5, <2>1
  <1>11. state.window.duplicates <= state.window.total
           => state'.window.duplicates <= state'.window.total
    BY <1>1, <1>5 DEF SameDuplicates
  <1>12. Located(state', state, now, iata)
    BY <1>1, <1>5 DEF Located, SameLocations
  <1> QED
    BY <1>3, <1>4, <1>5, <1>7, <1>8, <1>9, <1>10, <1>11, <1>12

LEMMA TypeInvInit == Init => TypeInv
  <1> SUFFICES ASSUME Init
               PROVE  TypeInv
    OBVIOUS
  <1>1. state \in ClientTrustState /\ Sound(state, 0)
    BY TrustAssumption, FS_EmptySet DEF Init, NewClient, ClientTrustState, Sound
  <1> QED
    BY <1>1 DEF TypeInv, TypeOK, Init

LEMMA TypeInvStep == TypeInv /\ [Next]_vars => TypeInv'
  <1> SUFFICES ASSUME TypeInv, [Next]_vars
               PROVE  TypeInv'
    OBVIOUS
  <1>1. ASSUME NEW p \in Payloads, NEW iata \in Iatas, Publish(p, iata)
        PROVE  TypeInv'
    <2>1. now' = now /\ moves' \in Nat
      BY <1>1 DEF Publish, TypeInv, TypeOK
    <2>2. /\ state' \in ClientTrustState /\ Sound(state', now)
          /\ served' = served \/ served' = served + 1
          /\ lastSeen' = lastSeen \/ lastSeen' = [lastSeen EXCEPT ![p] = now]
      BY <1>1, PublishEffect
    <2>3. served' \in Nat
      BY <2>2 DEF TypeInv, TypeOK
    <2>4. lastSeen' \in [Payloads -> Nat \union {-1}] /\ \A q \in Payloads : lastSeen'[q] <= now
      BY <2>2 DEF TypeInv, TypeOK
    <2> QED
      BY <2>1, <2>2, <2>3, <2>4 DEF TypeInv, TypeOK
  <1>2. CASE Tick
    <2>1. /\ now \in Nat /\ now' = now + 1
          /\ UNCHANGED <<state, served, lastSeen, moves>>
      BY <1>2 DEF Tick, TypeInv, TypeOK
    <2>2. Sound(state', now')
      BY <2>1 DEF TypeInv, Sound, ClientTrustState
    <2>3. \A p \in Payloads : lastSeen'[p] <= now'
      BY <2>1 DEF TypeInv, TypeOK
    <2> QED
      BY <2>1, <2>2, <2>3 DEF TypeInv, TypeOK
  <1>3. CASE UNCHANGED vars
    BY <1>3 DEF vars, TypeInv, TypeOK
  <1> QED
    BY <1>1, <1>2, <1>3 DEF Next

(* The publisher's state keeps its types.                                  *)
THEOREM TypeCorrect == Spec => []TypeOK
  <1>1. TypeInv => TypeOK
    BY DEF TypeInv
  <1> QED
    BY TypeInvInit, TypeInvStep, <1>1, PTL DEF Spec

----------------------------------------------------------------------------
(* No step adds an anomaly without judging it, and none lifts a mute.      *)
LEMMA JudgementStep ==
    TypeInv /\ [Next]_vars =>
        /\ Enforced(state) => Enforced(state')
        /\ state.status = "muted" => state'.status = "muted"
  <1> SUFFICES ASSUME TypeInv, [Next]_vars
               PROVE  Harder(state', state) \/ state' = state
    BY DEF Harder
  <1>1. ASSUME NEW p \in Payloads, NEW iata \in Iatas, Publish(p, iata)
        PROVE  Harder(state', state)
    BY <1>1, PublishEffect
  <1> QED
    BY <1>1 DEF Next, Tick, vars

(* With enforcement, a publisher with anomalyThreshold anomalies is muted, *)
(* and whoever is muted stays so (recordAnomaly and muteClient of          *)
(* abuse-detector.ts).                                                     *)
THEOREM ThresholdIsEnforced == Spec => ThresholdMutes
  <1>1. Init => Enforced(state)
    BY TrustAssumption DEF Init, NewClient, Enforced
  <1>2. TypeInv /\ Enforced(state) /\ [Next]_vars => Enforced(state)'
    BY JudgementStep DEF Enforced
  <1>3. TypeInv /\ [Next]_vars => [state.status = "muted" => state'.status = "muted"]_vars
    BY JudgementStep
  <1>4. Enforced(state) => (MuteDue => state.status = "muted")
    BY DEF Enforced, MuteDue
  <1> QED
    BY TypeInvInit, TypeInvStep, <1>1, <1>2, <1>3, <1>4, PTL DEF Spec, ThresholdMutes

----------------------------------------------------------------------------
(* What the bucket gives out: a full one, and what was refilled.           *)
LEMMA RefillAddsUp ==
    ASSUME NEW a \in Nat, NEW b \in Nat, NEW r \in Nat, a <= b
    PROVE  a * r \in Nat /\ (b - a) * r \in Nat /\ a * r + (b - a) * r = b * r
  OBVIOUS

LEMMA BucketStep == TypeInv /\ BucketLimitsRate /\ [Next]_vars => BucketLimitsRate'
  <1> SUFFICES ASSUME TypeInv, BucketLimitsRate, [Next]_vars
               PROVE  BucketLimitsRate'
    OBVIOUS
  <1>1. ASSUME NEW p \in Payloads, NEW iata \in Iatas, Publish(p, iata)
        PROVE  BucketLimitsRate'
    <2> DEFINE before == state.lastRefill * bucketRefillRate
               since == (now - state.lastRefill) * bucketRefillRate
               upto == now * bucketRefillRate
               spent == served * tokenCost
    <2>1. PICK ok \in BOOLEAN :
            /\ state' \in ClientTrustState
            /\ state'.lastRefill = now
            /\ state'.tokens + (IF ok THEN tokenCost ELSE 0) <= state.tokens + since
            /\ served' = IF ok THEN served + 1 ELSE served
      BY <1>1, PublishEffect
    <2>2. /\ before \in Nat /\ since \in Nat /\ upto \in Nat /\ spent \in Nat
          /\ before + since = upto
      <3>1. /\ state.lastRefill \in Nat /\ state.lastRefill <= now /\ now \in Nat
            /\ served \in Nat
        BY DEF TypeInv, TypeOK, Sound, ClientTrustState
      <3> QED
        BY <3>1, RefillAddsUp, TrustAssumption
    <2>3. spent + state.tokens <= bucketCapacity + before
      BY DEF BucketLimitsRate
    <2>4. /\ state.tokens \in Nat /\ state'.tokens \in Nat /\ tokenCost \in Nat
          /\ bucketCapacity \in Nat /\ served \in Nat
      BY <2>1, TrustAssumption DEF TypeInv, TypeOK, ClientTrustState
    <2>5. served' * tokenCost = spent + (IF ok THEN tokenCost ELSE 0)
      BY <2>1, <2>4
    <2> HIDE DEF before, since, upto, spent
    <2>6. served' * tokenCost + state'.tokens <= bucketCapacity + upto
      BY <2>1, <2>2, <2>3, <2>4, <2>5
    <2> QED
      BY <2>1, <2>6 DEF BucketLimitsRate, upto
  <1>2. UNCHANGED <<state, served>> => BucketLimitsRate'
    BY DEF BucketLimitsRate
  <1> QED
    BY <1>1, <1>2 DEF Next, Tick, vars

(* The packets that found a token since the publisher came never exceed a  *)
(* full bucket and what was refilled since (checkRateLimit).               *)
THEOREM BucketLimits == Spec => []BucketLimitsRate
  <1>1. Init => BucketLimitsRate
    BY TrustAssumption DEF Init, NewClient, BucketLimitsRate
  <1> QED
    BY TypeInvInit, TypeInvStep, <1>1, BucketStep, PTL DEF Spec

----------------------------------------------------------------------------
(* The history of locations.  It starts with the first location, which     *)
(* needs no room to be left.                                               *)
MostVisits == IF maxIataChanges24h = 0 THEN 1 ELSE maxIataChanges24h

OncePerIata(history) == \A v, w \in history : v.iata = w.iata => v = w

LocationsInv ==
    /\ state.currentIata = NoIata => state.iataHistory = {}
    /\ OncePerIata(state.iataHistory)
    /\ Cardinality(state.iataHistory) <= MostVisits

LEMMA OneMoreVisit ==
    ASSUME NEW history \in SUBSET IataVisit, IsFiniteSet(history), OncePerIata(history),
           NEW here \in IataVisit, \A v \in history : v.iata # here.iata
    PROVE  /\ OncePerIata(history \union {here})
           /\ Cardinality(history \union {here}) = Cardinality(history) + 1
  <1>1. here \notin history
    OBVIOUS
  <1>2. Cardinality(history \union {here}) = Cardinality(history) + 1
    BY <1>1, FS_AddElement
  <1>3. OncePerIata(history \union {here})
    BY DEF OncePerIata
  <1> QED
    BY <1>2, <1>3

LEMMA SeenAgainOnce ==
    ASSUME NEW history \in SUBSET IataVisit, OncePerIata(history),
           NEW iata \in Iatas, NEW t \in Nat
    PROVE  OncePerIata(SeenAgain(history, iata, t))
  <1> DEFINE again(v) == IF v.iata = iata THEN [v EXCEPT !.lastSeen = t] ELSE v
  <1>1. SeenAgain(history, iata, t) = {again(v) : v \in history}
    BY DEF SeenAgain
  <1>2. \A v \in history : again(v).iata = v.iata
    BY DEF IataVisit
  <1> HIDE DEF again
  <1> QED
    BY <1>1, <1>2 DEF OncePerIata

LEMMA LocationsStep == TypeInv /\ LocationsInv /\ [Next]_vars => LocationsInv'
  <1> SUFFICES ASSUME TypeInv, LocationsInv, [Next]_vars
               PROVE  LocationsInv'
    OBVIOUS
  <1>1. ASSUME NEW p \in Payloads, NEW iata \in Iatas, Publish(p, iata)
        PROVE  LocationsInv'
    <2> DEFINE fresh == FreshVisits(state, now)
               here == [iata |-> iata, lastSeen |-> now]
    <2>1. Located(state', state, now, iata)
      BY <1>1, PublishEffect
    <2>2. /\ state.iataHistory \in SUBSET IataVisit /\ IsFiniteSet(state.iataHistory)
          /\ now \in Nat
      BY DEF TypeInv, TypeOK, Sound, ClientTrustState
    <2>3. fresh \subseteq state.iataHistory
      BY DEF FreshVisits
    <2>4. IsFiniteSet(fresh) /\ Cardinality(fresh) <= Cardinality(state.iataHistory)
      BY <2>2, <2>3, FS_Subset
    <2>5. OncePerIata(fresh) /\ fresh \in SUBSET IataVisit
      BY <2>2, <2>3 DEF LocationsInv, OncePerIata
    <2>6. /\ Cardinality(fresh) \in Nat /\ Cardinality(state.iataHistory) \in Nat
          /\ MostVisits \in Nat /\ 1 <= MostVisits /\ maxIataChanges24h <= MostVisits
      BY <2>2, <2>4, FS_CardinalityType, TrustAssumption DEF MostVisits
    <2>7. here \in IataVisit /\ iata # NoIata
      BY <2>2, TrustAssumption DEF IataVisit
    <2>8. IsFiniteSet(SeenAgain(fresh, iata, now))
          /\ Cardinality(SeenAgain(fresh, iata, now)) <= Cardinality(fresh)
          /\ OncePerIata(SeenAgain(fresh, iata, now))
      BY <2>2, <2>4, <2>5, SeenAgainType, SeenAgainOnce
    <2>9. CASE state.currentIata = NoIata
      <3>1. /\ state'.currentIata = iata
            /\ state'.iataHistory = fresh \union {here}
        BY <2>1, <2>9 DEF Located
      <3>2. fresh = {}
        BY <2>3, <2>9 DEF LocationsInv
      <3>3. Cardinality(fresh) = 0
        BY <3>2, FS_EmptySet
      <3>4. /\ OncePerIata(fresh \union {here})
            /\ Cardinality(fresh \union {here}) = Cardinality(fresh) + 1
        BY <2>4, <2>5, <2>7, <3>2, OneMoreVisit
      <3> QED
        BY <2>6, <2>7, <3>1, <3>3, <3>4 DEF LocationsInv
    <2>10. CASE /\ state.currentIata # NoIata
                /\ state'.currentIata = iata
                /\ state'.iataHistory = SeenAgain(fresh, iata, now)
      <3>1. Cardinality(SeenAgain(fresh, iata, now)) \in Nat
        BY <2>8, FS_CardinalityType
      <3> QED
        BY <2>4, <2>6, <2>7, <2>8, <2>10, <3>1 DEF LocationsInv
    <2>11. CASE /\ state.currentIata # NoIata
                /\ state'.currentIata = state.currentIata
                /\ state'.iataHistory = fresh
      BY <2>4, <2>5, <2>6, <2>11 DEF LocationsInv
    <2>12. CASE /\ state.currentIata # NoIata
                /\ \A v \in fresh : v.iata # iata
                /\ Cardinality(fresh) + 1 <= maxIataChanges24h
                /\ state'.currentIata = iata
                /\ state'.iataHistory = fresh \union {here}
      <3>1. \A v \in fresh : v.iata # here.iata
        BY <2>12
      <3>2. /\ OncePerIata(fresh \union {here})
            /\ Cardinality(fresh \union {here}) = Cardinality(fresh) + 1
        BY <2>4, <2>5, <2>7, <3>1, OneMoreVisit
      <3> QED
        BY <2>6, <2>7, <2>12, <3>2, TrustAssumption DEF LocationsInv
    <2> QED
      BY <2>1, <2>9, <2>10, <2>11, <2>12 DEF Located
  <1>2. state' = state => LocationsInv'
    BY DEF LocationsInv
  <1> QED
    BY <1>1, <1>2 DEF Next, Tick, vars

(* The history names each location once, and no more of them than          *)
(* maxIataChanges24h (checkIataChange).                                    *)
THEOREM HistoryIsBounded == Spec => []LocationsBounded
  <1>1. Init => LocationsInv
    BY TrustAssumption, FS_EmptySet DEF Init, NewClient, LocationsInv, OncePerIata, MostVisits
  <1>2. LocationsInv => LocationsBounded
    BY DEF LocationsInv, LocationsBounded, OncePerIata, MostVisits
  <1> QED
    BY TypeInvInit, TypeInvStep, <1>1, <1>2, LocationsStep, PTL DEF Spec

----------------------------------------------------------------------------
(* The copies a list of hashes shows.                                      *)
LEMMA CopiesDefined ==
    ASSUME NEW h \in Seq(PacketHash)
    PROVE  /\ CopiesUpTo(h) \in [0..Len(h) -> Nat]
           /\ CopiesUpTo(h)[0] = 0
           /\ \A n \in 1..Len(h) :
                 CopiesUpTo(h)[n] = CopiesUpTo(h)[n - 1] + (h[n].count - 1)
  <1> DEFINE N == Len(h)
             more(n) == h[n].count - 1
             step == [n \in 1..N |-> [v \in Nat |-> v + more(n)]]
             Eq(g) == g = [n \in 0..N |->
                              IF n = 0 THEN 0 ELSE g[n - 1] + (h[n].count - 1)]
  <1>1. N \in Nat /\ \A n \in 1..N : more(n) \in Nat
    <2>1. \A n \in 1..N : h[n] \in PacketHash
      OBVIOUS
    <2> QED
      BY <2>1 DEF PacketHash
  <1>2. step \in [1..N -> [Nat -> Nat]]
    <2> HIDE DEF more
    <2> QED
      BY <1>1
  <1>3. \A n \in 1..N, v \in Nat : step[n][v] = v + more(n)
    OBVIOUS
  <1> HIDE DEF step
  <1>4. PICK g : Iterates(Nat, 0, step, N, g)
    <2> HIDE DEF N
    <2> QED
      BY <1>1, <1>2, RecursionDefines
  <1>5. Eq(g)
    <2>0. /\ g \in [0..N -> Nat]
          /\ \A n \in 1..N : g[n] = step[n][g[n - 1]]
      BY <1>4 DEF Iterates
    <2>1. ASSUME NEW n \in 0..N, n # 0
          PROVE  n \in 1..N /\ g[n - 1] \in Nat /\ g[n] = step[n][g[n - 1]]
      <3>1. n \in 1..N /\ n - 1 \in 0..N
        BY <1>1, <2>1
      <3> QED
        BY <2>0, <3>1
    <2>2. ASSUME NEW n \in 0..N
          PROVE  g[n] = IF n = 0 THEN 0 ELSE g[n - 1] + (h[n].count - 1)
      BY <1>1, <1>3, <1>4, <2>1 DEF Iterates
    <2> QED
      BY <1>4, <2>2 DEF Iterates
  <1> DEFINE f == CopiesUpTo(h)
  <1>6. f = CHOOSE c : Eq(c)
    BY DEF CopiesUpTo
  <1> HIDE DEF f
  <1>7. Eq(f)
    <2> HIDE DEF Eq
    <2> QED
      BY <1>5, <1>6
  <1>8. f = [n \in 0..N |-> IF n = 0 THEN 0 ELSE f[n - 1] + more(n)]
    BY <1>7
  <1> HIDE DEF Eq, N, more
  <1>9. f[0] = 0
    BY <1>1, <1>8
  <1>10. \A n \in 1..N : f[n] = f[n - 1] + more(n)
    <2> TAKE n \in 1..N
    <2>1. n \in 0..N /\ n # 0
      BY <1>1
    <2> QED
      BY <1>8, <2>1, Zenon
  <1>11. \A n \in 0..N : f[n] \in Nat
    <2> DEFINE D == {n \in Nat : n <= N => f[n] \in Nat}
    <2>1. 0 \in D
      BY <1>9
    <2>2. ASSUME NEW n \in Nat, n \in D
          PROVE  n + 1 \in D
      <3> SUFFICES ASSUME n + 1 <= N
                   PROVE  f[n + 1] \in Nat
        OBVIOUS
      <3>1. n + 1 \in 1..N /\ f[n] \in Nat /\ (n + 1) - 1 = n
        BY <1>1, <2>2
      <3> QED
        BY <1>1, <1>10, <3>1
    <2>3. Nat \subseteq D
      <3> HIDE DEF D
      <3> QED
        BY <2>1, <2>2, SetInduction
    <2> QED
      BY <1>1, <2>3
  <1>12. f \in [0..N -> Nat]
    <2>1. f = [n \in 0..N |-> f[n]]
      BY <1>8
    <2> QED
      BY <1>11, <2>1
  <1> QED
    BY <1>9, <1>10, <1>12 DEF f, N, more

(* Two lists that agree so far show the same copies so far.                *)
LEMMA CopiesAgree ==
    ASSUME NEW h \in Seq(PacketHash), NEW g \in Seq(PacketHash),
           NEW m \in Nat, m <= Len(h), m <= Len(g),
           \A n \in 1..m : h[n] = g[n]
    PROVE  CopiesUpTo(h)[m] = CopiesUpTo(g)[m]
  <1> DEFINE D == {n \in Nat : n <= m => CopiesUpTo(h)[n] = CopiesUpTo(g)[n]}
  <1>1. 0 \in D
    BY CopiesDefined
  <1>2. ASSUME NEW n \in Nat, n \in D
        PROVE  n + 1 \in D
    <2> SUFFICES ASSUME n + 1 <= m
                 PROVE  CopiesUpTo(h)[n + 1] = CopiesUpTo(g)[n + 1]
      OBVIOUS
    <2>1. /\ Len(h) \in Nat /\ Len(g) \in Nat
          /\ n + 1 \in 1..Len(h) /\ n + 1 \in 1..Len(g) /\ (n + 1) - 1 = n
          /\ h[n + 1] = g[n + 1]
          /\ CopiesUpTo(h)[n] = CopiesUpTo(g)[n]
      BY <1>2
    <2>2. CopiesUpTo(h)[n + 1] = CopiesUpTo(h)[n] + (h[n + 1].count - 1)
      BY <2>1, CopiesDefined
    <2>3. CopiesUpTo(g)[n + 1] = CopiesUpTo(g)[n] + (g[n + 1].count - 1)
      BY <2>1, CopiesDefined
    <2> QED
      BY <2>1, <2>2, <2>3
  <1>3. Nat \subseteq D
    <2> HIDE DEF D
    <2> QED
      BY <1>1, <1>2, SetInduction
  <1> QED
    BY <1>3

AllCopies(h) == CopiesUpTo(h)[Len(h)]

LEMMA AllCopiesType ==
    ASSUME NEW h \in Seq(PacketHash)
    PROVE  AllCopies(h) \in Nat
  <1>1. Len(h) \in 0..Len(h)
    OBVIOUS
  <1> QED
    BY <1>1, CopiesDefined DEF AllCopies

LEMMA CopiesAppend ==
    ASSUME NEW h \in Seq(PacketHash), NEW e \in PacketHash
    PROVE  AllCopies(Append(h, e)) = AllCopies(h) + (e.count - 1)
  <1> DEFINE g == Append(h, e)
             m == Len(h)
  <1>1. /\ g \in Seq(PacketHash) /\ Len(g) = m + 1 /\ g[m + 1] = e /\ m \in Nat
        /\ \A n \in 1..m : g[n] = h[n]
    OBVIOUS
  <1> HIDE DEF g
  <1>2. m + 1 \in 1..Len(g) /\ (m + 1) - 1 = m /\ m <= Len(g)
    BY <1>1
  <1>3. CopiesUpTo(g)[m + 1] = CopiesUpTo(g)[m] + (e.count - 1)
    BY <1>1, <1>2, CopiesDefined
  <1>4. CopiesUpTo(g)[m] = CopiesUpTo(h)[m]
    BY <1>1, <1>2, CopiesAgree
  <1> QED
    BY <1>1, <1>3, <1>4 DEF AllCopies, g

(* Forgetting hashes forgets copies.                                       *)
LEMMA CopiesFiltered ==
    ASSUME NEW h \in Seq(PacketHash), NEW kept
    PROVE  AllCopies(Filtered(h, kept)) <= AllCopies(h)
  <1> DEFINE f == Picking(h, kept)
             N == Len(h)
             D == {n \in Nat : n <= N => AllCopies(f[n]) <= CopiesUpTo(h)[n]}
  <1>1. /\ f \in [0..N -> Seq(PacketHash)] /\ f[0] = <<>> /\ N \in Nat
        /\ \A n \in 1..N : f[n] = IF n \in kept THEN Append(f[n - 1], h[n]) ELSE f[n - 1]
    BY PickingDefined
  <1>2. /\ CopiesUpTo(h) \in [0..N -> Nat] /\ CopiesUpTo(h)[0] = 0
        /\ \A n \in 1..N : CopiesUpTo(h)[n] = CopiesUpTo(h)[n - 1] + (h[n].count - 1)
    BY CopiesDefined
  <1>3. \A n \in 1..N : h[n] \in PacketHash /\ h[n].count - 1 \in Nat
    <2>1. \A n \in 1..N : h[n] \in PacketHash
      OBVIOUS
    <2> QED
      BY <2>1 DEF PacketHash
  <1> HIDE DEF f, N
  <1>4. 0 \in D
    <2>1. <<>> \in Seq(PacketHash) /\ Len(<<>>) = 0
      OBVIOUS
    <2>2. AllCopies(<<>>) = 0
      BY <2>1, CopiesDefined DEF AllCopies
    <2> QED
      BY <1>1, <1>2, <2>2
  <1>5. ASSUME NEW n \in Nat, n \in D
        PROVE  n + 1 \in D
    <2> SUFFICES ASSUME n + 1 <= N
                 PROVE  AllCopies(f[n + 1]) <= CopiesUpTo(h)[n + 1]
      OBVIOUS
    <2>1. n + 1 \in 1..N /\ n \in 0..N /\ (n + 1) - 1 = n
      BY <1>1
    <2>2. AllCopies(f[n]) <= CopiesUpTo(h)[n]
      BY <1>1, <1>5, <2>1
    <2> DEFINE r == f[n]
               e == h[n + 1]
    <2>3. r \in Seq(PacketHash) /\ e \in PacketHash /\ e.count - 1 \in Nat
      BY <1>1, <1>3, <2>1
    <2>4. CopiesUpTo(h)[n] \in Nat /\ CopiesUpTo(h)[n + 1] = CopiesUpTo(h)[n] + (e.count - 1)
      BY <1>2, <2>1
    <2>5. f[n + 1] = r \/ f[n + 1] = Append(r, e)
      BY <1>1, <2>1
    <2> HIDE DEF r, e
    <2>6. AllCopies(r) \in Nat /\ AllCopies(Append(r, e)) = AllCopies(r) + (e.count - 1)
      BY <2>3, AllCopiesType, CopiesAppend
    <2>7. AllCopies(r) <= CopiesUpTo(h)[n]
      BY <2>2 DEF r
    <2>8. CASE f[n + 1] = r
      BY <2>3, <2>4, <2>6, <2>7, <2>8
    <2>9. CASE f[n + 1] = Append(r, e)
      BY <2>3, <2>4, <2>6, <2>7, <2>9
    <2> QED
      BY <2>5, <2>8, <2>9
  <1>6. Nat \subseteq D
    <2> HIDE DEF D
    <2> QED
      BY <1>4, <1>5, SetInduction
  <1> QED
    BY <1>1, <1>6 DEF Filtered, AllCopies, f, N

LEMMA CountType ==
    ASSUME NEW e \in PacketHash
    PROVE  e.count - 1 \in Nat
  BY DEF PacketHash

LEMMA CopiesTail ==
    ASSUME NEW h \in Seq(PacketHash), h # <<>>
    PROVE  AllCopies(Tail(h)) <= AllCopies(h)
  <1> DEFINE g == Tail(h)
             m == Len(g)
             D == {n \in Nat : n <= m => CopiesUpTo(g)[n] <= CopiesUpTo(h)[n + 1]}
  <1>1. /\ g \in Seq(PacketHash) /\ m \in Nat /\ Len(h) = m + 1
        /\ \A n \in 1..m : g[n] = h[n + 1]
    OBVIOUS
  <1>2. /\ CopiesUpTo(h) \in [0..(m + 1) -> Nat]
        /\ \A n \in 1..(m + 1) : CopiesUpTo(h)[n] = CopiesUpTo(h)[n - 1] + (h[n].count - 1)
    BY <1>1, CopiesDefined
  <1>3. /\ CopiesUpTo(g) \in [0..m -> Nat] /\ CopiesUpTo(g)[0] = 0
        /\ \A n \in 1..m : CopiesUpTo(g)[n] = CopiesUpTo(g)[n - 1] + (g[n].count - 1)
    BY <1>1, CopiesDefined
  <1>4. \A n \in 1..m : g[n].count - 1 \in Nat
    <2> HIDE DEF g
    <2>1. \A n \in 1..m : g[n] \in PacketHash
      BY <1>1
    <2> QED
      BY <2>1, CountType
  <1> HIDE DEF g, m
  <1>5. 0 \in D
    BY <1>1, <1>2, <1>3
  <1>6. ASSUME NEW n \in Nat, n \in D
        PROVE  n + 1 \in D
    <2> SUFFICES ASSUME n + 1 <= m
                 PROVE  CopiesUpTo(g)[n + 1] <= CopiesUpTo(h)[(n + 1) + 1]
      OBVIOUS
    <2>1. /\ n + 1 \in 1..m /\ n \in 0..m /\ (n + 1) - 1 = n
          /\ (n + 1) + 1 \in 1..(m + 1) /\ ((n + 1) + 1) - 1 = n + 1
          /\ n + 1 \in 0..(m + 1)
      BY <1>1
    <2>2. CopiesUpTo(g)[n] <= CopiesUpTo(h)[n + 1]
      BY <1>1, <1>6, <2>1
    <2>3. CopiesUpTo(g)[n + 1] = CopiesUpTo(g)[n] + (g[n + 1].count - 1)
      BY <1>3, <2>1
    <2>4. CopiesUpTo(h)[(n + 1) + 1] = CopiesUpTo(h)[n + 1] + (g[n + 1].count - 1)
      BY <1>1, <1>2, <2>1
    <2>5. /\ CopiesUpTo(g)[n] \in Nat /\ CopiesUpTo(h)[n + 1] \in Nat
          /\ g[n + 1].count - 1 \in Nat
      BY <1>2, <1>3, <1>4, <2>1
    <2> QED
      BY <2>2, <2>3, <2>4, <2>5
  <1>7. Nat \subseteq D
    <2> HIDE DEF D
    <2> QED
      BY <1>5, <1>6, SetInduction
  <1>8. CopiesUpTo(g)[m] <= CopiesUpTo(h)[m + 1]
    BY <1>1, <1>7
  <1> QED
    BY <1>1, <1>8 DEF AllCopies, g, m

(* A copy counted is a copy more, in whichever hash.                       *)
LEMMA CopiesCounted ==
    ASSUME NEW h \in Seq(PacketHash), NEW i \in DOMAIN h, NEW t \in Nat
    PROVE  AllCopies(CountCopy(h, i, t)) = AllCopies(h) + 1
  <1> DEFINE g == CountCopy(h, i, t)
             m == Len(h)
             D == {n \in Nat : n <= m =>
                      CopiesUpTo(g)[n] = CopiesUpTo(h)[n] + (IF n >= i THEN 1 ELSE 0)}
  <1>1. /\ g \in Seq(PacketHash) /\ Len(g) = m /\ m \in Nat /\ i \in 1..m
        /\ g[i].count = h[i].count + 1
        /\ \A n \in 1..m : n # i => g[n] = h[n]
    <2>1. m \in Nat /\ i \in 1..m /\ DOMAIN h = 1..m
      OBVIOUS
    <2>2. /\ g \in Seq(PacketHash) /\ Len(g) = m
          /\ g[i] = [hash |-> h[i].hash, timestamp |-> t, count |-> h[i].count + 1]
          /\ \A n \in DOMAIN h : n # i => g[n] = h[n]
      BY CountCopyEffect
    <2> HIDE DEF g, m
    <2> QED
      BY <2>1, <2>2
  <1>2. /\ CopiesUpTo(h) \in [0..m -> Nat] /\ CopiesUpTo(h)[0] = 0
        /\ \A n \in 1..m : CopiesUpTo(h)[n] = CopiesUpTo(h)[n - 1] + (h[n].count - 1)
    BY <1>1, CopiesDefined
  <1> HIDE DEF g
  <1>3. /\ CopiesUpTo(g) \in [0..m -> Nat] /\ CopiesUpTo(g)[0] = 0
        /\ \A n \in 1..m : CopiesUpTo(g)[n] = CopiesUpTo(g)[n - 1] + (g[n].count - 1)
    BY <1>1, CopiesDefined
  <1>4. \A n \in 1..m : h[n].count \in Nat
    <2>1. \A n \in 1..m : h[n] \in PacketHash
      OBVIOUS
    <2> QED
      BY <2>1 DEF PacketHash
  <1> HIDE DEF m
  <1>5. 0 \in D
    BY <1>1, <1>2, <1>3
  <1>6. ASSUME NEW n \in Nat, n \in D
        PROVE  n + 1 \in D
    <2> SUFFICES ASSUME n + 1 <= m
                 PROVE  CopiesUpTo(g)[n + 1] = CopiesUpTo(h)[n + 1]
                                                 + (IF n + 1 >= i THEN 1 ELSE 0)
      OBVIOUS
    <2>1. n + 1 \in 1..m /\ n \in 0..m /\ (n + 1) - 1 = n
      BY <1>1
    <2>2. CopiesUpTo(g)[n] = CopiesUpTo(h)[n] + (IF n >= i THEN 1 ELSE 0)
      BY <1>1, <1>6, <2>1
    <2>3. /\ CopiesUpTo(g)[n + 1] = CopiesUpTo(g)[n] + (g[n + 1].count - 1)
          /\ CopiesUpTo(h)[n + 1] = CopiesUpTo(h)[n] + (h[n + 1].count - 1)
          /\ CopiesUpTo(h)[n] \in Nat /\ h[n + 1].count \in Nat
      BY <1>2, <1>3, <1>4, <2>1
    <2>4. CASE n + 1 = i
      BY <1>1, <2>2, <2>3, <2>4
    <2>5. CASE n + 1 # i
      <3>1. g[n + 1] = h[n + 1] /\ (n + 1 >= i <=> n >= i)
        BY <1>1, <2>1, <2>5
      <3> DEFINE one == IF n >= i THEN 1 ELSE 0
      <3>2. (IF n + 1 >= i THEN 1 ELSE 0) = one /\ one \in Nat
        BY <3>1
      <3>3. CopiesUpTo(g)[n] = CopiesUpTo(h)[n] + one
        BY <2>2
      <3> HIDE DEF one
      <3>4. CopiesUpTo(g)[n + 1] = CopiesUpTo(h)[n + 1] + one
        BY <2>3, <3>1, <3>2, <3>3
      <3> QED
        BY <3>2, <3>4
    <2> QED
      BY <2>4, <2>5
  <1>7. Nat \subseteq D
    <2> HIDE DEF D
    <2> QED
      BY <1>5, <1>6, SetInduction
  <1>8. CopiesUpTo(g)[m] = CopiesUpTo(h)[m] + 1
    BY <1>1, <1>7
  <1> QED
    BY <1>1, <1>8 DEF AllCopies, g, m

----------------------------------------------------------------------------
(* The list of hashes, and what checkDuplicates makes of it.               *)
Distinct(h) == \A i, j \in DOMAIN h : i # j => h[i].hash # h[j].hash

LEMMA FreshEffect ==
    ASSUME NEW s \in ClientTrustState, NEW t \in Nat, Distinct(s.recentPacketHashes)
    PROVE  LET h == s.recentPacketHashes
               F == FreshHashes(s, t)
           IN  /\ F \in Seq(PacketHash) /\ Len(F) <= Len(h) /\ Distinct(F)
               /\ AllCopies(F) <= AllCopies(h)
               /\ \A i \in DOMAIN F : \E j \in DOMAIN h :
                     F[i] = h[j] /\ t - h[j].timestamp < duplicateWindowMs
               /\ \A j \in DOMAIN h : t - h[j].timestamp < duplicateWindowMs =>
                     \E i \in DOMAIN F : F[i] = h[j]
  <1> DEFINE h == s.recentPacketHashes
             kept == {i \in DOMAIN h : t - h[i].timestamp < duplicateWindowMs}
             F == Filtered(h, kept)
             K == kept \intersect 1..Len(h)
  <1>1. h \in Seq(PacketHash) /\ DOMAIN h = 1..Len(h) /\ Distinct(h)
    BY DEF ClientTrustState
  <1>2. FreshHashes(s, t) = F
    BY DEF FreshHashes
  <1>3. /\ F \in Seq(PacketHash) /\ Len(F) <= Len(h)
        /\ AllCopies(F) <= AllCopies(h)
    BY <1>1, FilteredType, FilteredShorter, CopiesFiltered
  <1>4. PICK at : Selects(F, h, K, at)
    <2> HIDE DEF kept, h
    <2> QED
      BY <1>1, FilteredSelects
  <1>5. DOMAIN F = 1..Len(F)
    BY <1>3
  <1>6. \A j : j \in K <=> j \in DOMAIN h /\ t - h[j].timestamp < duplicateWindowMs
    BY <1>1
  <1> HIDE DEF h, F, K
  <1>7. \A i \in DOMAIN F : at[i] \in K /\ F[i] = h[at[i]]
    BY <1>4, <1>5 DEF Selects
  <1>8. Distinct(F)
    BY <1>1, <1>4, <1>5, <1>6, <1>7 DEF Distinct, Selects
  <1>9. \A j \in K : \E i \in DOMAIN F : F[i] = h[j]
    BY <1>4, <1>5, <1>7 DEF Selects
  <1> QED
    BY <1>2, <1>3, <1>6, <1>7, <1>8, <1>9 DEF h

(* A new hash: the list still has every other, or is full without it.      *)
LEMMA RememberEffect ==
    ASSUME NEW F \in Seq(PacketHash), Len(F) <= duplicateWindowSize, Distinct(F),
           NEW p \in Payloads, \A j \in DOMAIN F : F[j].hash # p, NEW t \in Nat
    PROVE  LET L == Remember(F, p, t)
               new == [hash |-> p, timestamp |-> t, count |-> 1]
           IN  /\ L \in Seq(PacketHash) /\ Len(L) <= duplicateWindowSize /\ Distinct(L)
               /\ AllCopies(L) <= AllCopies(F)
               /\ \A i \in DOMAIN L : L[i] = new \/ \E j \in DOMAIN F : L[i] = F[j]
               /\ \E i \in DOMAIN L : L[i] = new
               /\ \A j \in DOMAIN F :
                     \/ \E i \in DOMAIN L : L[i] = F[j]
                     \/ /\ Len(L) = duplicateWindowSize
                        /\ \A i \in DOMAIN L : L[i].hash # F[j].hash
  <1> DEFINE new == [hash |-> p, timestamp |-> t, count |-> 1]
             longer == Append(F, new)
             m == Len(F)
             L == Remember(F, p, t)
             Good ==
               /\ L \in Seq(PacketHash) /\ Len(L) <= duplicateWindowSize /\ Distinct(L)
               /\ AllCopies(L) <= AllCopies(F)
               /\ \A i \in DOMAIN L : L[i] = new \/ \E j \in DOMAIN F : L[i] = F[j]
               /\ \E i \in DOMAIN L : L[i] = new
               /\ \A j \in DOMAIN F :
                     \/ \E i \in DOMAIN L : L[i] = F[j]
                     \/ /\ Len(L) = duplicateWindowSize
                        /\ \A i \in DOMAIN L : L[i].hash # F[j].hash
  <1>1. new \in PacketHash /\ new.hash = p /\ new.count = 1
    BY DEF PacketHash
  <1>2. L = IF Len(longer) > duplicateWindowSize THEN Tail(longer) ELSE longer
    BY DEF Remember
  <1> HIDE DEF new, L
  <1>3. /\ longer \in Seq(PacketHash) /\ Len(longer) = m + 1 /\ m \in Nat
        /\ longer[m + 1] = new /\ \A n \in 1..m : longer[n] = F[n]
        /\ DOMAIN F = 1..m /\ DOMAIN longer = 1..(m + 1) /\ longer # <<>>
    BY <1>1
  <1>4. /\ AllCopies(longer) = AllCopies(F) + (new.count - 1)
        /\ AllCopies(F) \in Nat
    BY <1>1, CopiesAppend, AllCopiesType
  <1>5. AllCopies(longer) = AllCopies(F)
    BY <1>1, <1>4
  <1> HIDE DEF longer, m
  <1>6. Distinct(longer)
    <2> SUFFICES ASSUME NEW i \in 1..(m + 1), NEW j \in 1..(m + 1), i # j
                 PROVE  longer[i].hash # longer[j].hash
      BY <1>3 DEF Distinct
    <2>1. i = m + 1 \/ i \in 1..m
      BY <1>3
    <2>2. j = m + 1 \/ j \in 1..m
      BY <1>3
    <2> QED
      BY <1>1, <1>3, <2>1, <2>2 DEF Distinct
  <1>7. ASSUME ~(Len(longer) > duplicateWindowSize)
        PROVE  Good
    <2>1. L = longer
      BY <1>2, <1>7
    <2>2. Len(L) <= duplicateWindowSize
      BY <1>3, <1>7, <2>1, TrustAssumption
    <2>3. \A i \in 1..(m + 1) : longer[i] = new \/ \E j \in 1..m : longer[i] = F[j]
      <3> TAKE i \in 1..(m + 1)
      <3>1. i = m + 1 \/ i \in 1..m
        BY <1>3
      <3> QED
        BY <1>3, <3>1
    <2>4. m + 1 \in 1..(m + 1) /\ \A j \in 1..m : j \in 1..(m + 1)
      BY <1>3
    <2>5. L \in Seq(PacketHash) /\ Distinct(L) /\ AllCopies(L) <= AllCopies(F)
      BY <1>3, <1>4, <1>5, <1>6, <2>1
    <2>6. \E i \in DOMAIN L : L[i] = new
      BY <1>3, <2>1, <2>4
    <2>7. \A j \in DOMAIN F : \E i \in DOMAIN L : L[i] = F[j]
      BY <1>3, <2>1, <2>4
    <2>8. \A i \in DOMAIN L : L[i] = new \/ \E j \in DOMAIN F : L[i] = F[j]
      BY <1>3, <2>1, <2>3
    <2> QED
      BY <2>2, <2>5, <2>6, <2>7, <2>8
  <1>8. ASSUME Len(longer) > duplicateWindowSize
        PROVE  Good
    <2>1. L = Tail(longer) /\ m = duplicateWindowSize /\ m >= 1
      <3>1. m <= duplicateWindowSize /\ duplicateWindowSize \in Nat \ {0}
        BY TrustAssumption DEF m
      <3> QED
        BY <1>2, <1>3, <1>8, <3>1
    <2>2. /\ L \in Seq(PacketHash) /\ Len(L) = m /\ DOMAIN L = 1..m
          /\ \A n \in 1..m : L[n] = longer[n + 1]
      BY <1>3, <2>1
    <2>3. AllCopies(L) <= AllCopies(F)
      BY <1>3, <1>5, <2>1, CopiesTail
    <2>4. \A n \in 1..m : n + 1 \in 1..(m + 1) /\ n + 1 # 1
      BY <1>3
    <2>5. Distinct(L)
      <3> SUFFICES ASSUME NEW i \in 1..m, NEW j \in 1..m, i # j
                   PROVE  L[i].hash # L[j].hash
        BY <2>2 DEF Distinct
      <3>1. i + 1 \in 1..(m + 1) /\ j + 1 \in 1..(m + 1) /\ i + 1 # j + 1
        BY <1>3
      <3>2. longer[i + 1].hash # longer[j + 1].hash
        BY <1>3, <1>6, <3>1 DEF Distinct
      <3> QED
        BY <2>2, <3>2
    <2>6. \A i \in 1..m : L[i] = new \/ \E j \in 1..m : L[i] = F[j]
      <3> TAKE i \in 1..m
      <3>1. i + 1 = m + 1 \/ i + 1 \in 1..m
        BY <1>3
      <3> QED
        BY <1>3, <2>2, <3>1
    <2>7. m \in 1..m /\ L[m] = new
      BY <1>3, <2>1, <2>2
    <2>8. ASSUME NEW j \in 1..m
          PROVE  (\E i \in 1..m : L[i] = F[j]) \/ \A i \in 1..m : L[i].hash # F[j].hash
      <3>1. CASE j = 1
        <4>1. 1 \in 1..(m + 1) /\ longer[1] = F[1]
          BY <1>3, <2>1
        <4>2. \A i \in 1..m : longer[i + 1].hash # longer[1].hash
          BY <1>3, <1>6, <2>4, <4>1 DEF Distinct
        <4> QED
          BY <2>2, <3>1, <4>1, <4>2
      <3>2. CASE j # 1
        <4>1. j - 1 \in 1..m /\ (j - 1) + 1 = j
          BY <1>3, <3>2
        <4>2. L[j - 1] = F[j]
          BY <1>3, <2>2, <4>1
        <4> QED
          BY <4>1, <4>2
      <3> QED
        BY <3>1, <3>2
    <2> QED
      <3>1. Len(L) = duplicateWindowSize /\ Len(L) <= duplicateWindowSize
        BY <1>3, <2>1, <2>2, TrustAssumption
      <3>2. \A i \in DOMAIN L : L[i] = new \/ \E j \in DOMAIN F : L[i] = F[j]
        BY <1>3, <2>2, <2>6
      <3>3. \E i \in DOMAIN L : L[i] = new
        BY <2>2, <2>7
      <3>4. \A j \in DOMAIN F : \/ \E i \in DOMAIN L : L[i] = F[j]
                                \/ \A i \in DOMAIN L : L[i].hash # F[j].hash
        BY <1>3, <2>2, <2>8
      <3> QED
        BY <2>2, <2>3, <2>5, <3>1, <3>2, <3>3, <3>4
  <1>9. Good
    BY <1>7, <1>8
  <1> QED
    BY <1>9 DEF L, new

(* What a packet compared makes of the list and of the count: its own hash *)
(* is there with this time, others as they were.                           *)
LEMMA ComparedEffect ==
    ASSUME NEW s \in ClientTrustState, NEW r \in ClientTrustState,
           NEW t \in Nat, NEW p \in Payloads, Compared(r, s, t, p),
           Distinct(s.recentPacketHashes),
           Len(s.recentPacketHashes) <= duplicateWindowSize
    PROVE  LET F == FreshHashes(s, t)
               L == r.recentPacketHashes
           IN  /\ L \in Seq(PacketHash) /\ Len(L) <= duplicateWindowSize /\ Distinct(L)
               /\ AllCopies(s.recentPacketHashes) <= s.duplicateCount
                    => AllCopies(L) <= r.duplicateCount
               /\ \A i \in DOMAIN L :
                     \/ L[i].hash = p /\ L[i].timestamp = t
                     \/ L[i].hash # p /\ \E j \in DOMAIN F : L[i] = F[j]
               /\ \E i \in DOMAIN L : L[i].hash = p /\ L[i].timestamp = t
               /\ \A j \in DOMAIN F : F[j].hash # p =>
                     \/ \E i \in DOMAIN L : L[i] = F[j]
                     \/ /\ Len(L) = duplicateWindowSize
                        /\ \A i \in DOMAIN L : L[i].hash # F[j].hash
  <1> DEFINE h == s.recentPacketHashes
             F == FreshHashes(s, t)
             L == r.recentPacketHashes
             new == [hash |-> p, timestamp |-> t, count |-> 1]
             Good ==
               /\ L \in Seq(PacketHash) /\ Len(L) <= duplicateWindowSize /\ Distinct(L)
               /\ AllCopies(h) <= s.duplicateCount => AllCopies(L) <= r.duplicateCount
               /\ \A i \in DOMAIN L :
                     \/ L[i].hash = p /\ L[i].timestamp = t
                     \/ L[i].hash # p /\ \E j \in DOMAIN F : L[i] = F[j]
               /\ \E i \in DOMAIN L : L[i].hash = p /\ L[i].timestamp = t
               /\ \A j \in DOMAIN F : F[j].hash # p =>
                     \/ \E i \in DOMAIN L : L[i] = F[j]
                     \/ /\ Len(L) = duplicateWindowSize
                        /\ \A i \in DOMAIN L : L[i].hash # F[j].hash
  <1>1. h \in Seq(PacketHash) /\ s.duplicateCount \in Nat
    BY DEF ClientTrustState
  <1>2. /\ F \in Seq(PacketHash) /\ Len(F) <= Len(h) /\ Distinct(F)
        /\ AllCopies(F) <= AllCopies(h)
    BY FreshEffect
  <1>3. Len(F) <= duplicateWindowSize
    <2>1. Len(F) \in Nat /\ Len(h) \in Nat
      BY <1>1, <1>2
    <2> QED
      BY <1>2, <2>1, TrustAssumption
  <1>4. /\ AllCopies(F) \in Nat /\ AllCopies(h) \in Nat
    BY <1>1, <1>2, AllCopiesType
  <1>5. \/ /\ \A j \in DOMAIN F : F[j].hash # p
           /\ L = Remember(F, p, t)
           /\ r.duplicateCount = s.duplicateCount
        \/ \E i \in DOMAIN F :
              /\ F[i].hash = p
              /\ L = CountCopy(F, i, t)
              /\ r.duplicateCount = s.duplicateCount + 1
    BY DEF Compared
  <1> HIDE DEF h, F, L
  <1>6. ASSUME \A j \in DOMAIN F : F[j].hash # p,
               L = Remember(F, p, t),
               r.duplicateCount = s.duplicateCount
        PROVE  Good
    <2>1. /\ L \in Seq(PacketHash) /\ Len(L) <= duplicateWindowSize /\ Distinct(L)
          /\ AllCopies(L) <= AllCopies(F)
          /\ \A i \in DOMAIN L : L[i] = new \/ \E j \in DOMAIN F : L[i] = F[j]
          /\ \E i \in DOMAIN L : L[i] = new
          /\ \A j \in DOMAIN F :
                \/ \E i \in DOMAIN L : L[i] = F[j]
                \/ /\ Len(L) = duplicateWindowSize
                   /\ \A i \in DOMAIN L : L[i].hash # F[j].hash
      BY <1>2, <1>3, <1>6, RememberEffect
    <2>2. new.hash = p /\ new.timestamp = t
      OBVIOUS
    <2> HIDE DEF new
    <2>3. AllCopies(L) \in Nat
      BY <2>1, AllCopiesType
    <2>4. AllCopies(h) <= s.duplicateCount => AllCopies(L) <= r.duplicateCount
      BY <1>1, <1>2, <1>4, <1>6, <2>1, <2>3
    <2>5. \A i \in DOMAIN L :
             \/ L[i].hash = p /\ L[i].timestamp = t
             \/ L[i].hash # p /\ \E j \in DOMAIN F : L[i] = F[j]
      BY <1>6, <2>1, <2>2
    <2> QED
      BY <2>1, <2>2, <2>4, <2>5
  <1>7. ASSUME NEW k \in DOMAIN F, F[k].hash = p,
               L = CountCopy(F, k, t),
               r.duplicateCount = s.duplicateCount + 1
        PROVE  Good
    <2>1. /\ L \in Seq(PacketHash) /\ Len(L) = Len(F)
          /\ L[k] = [hash |-> F[k].hash, timestamp |-> t, count |-> F[k].count + 1]
          /\ \A j \in DOMAIN F : j # k => L[j] = F[j]
      BY <1>2, <1>7, CountCopyEffect
    <2>2. DOMAIN L = DOMAIN F
      BY <1>2, <2>1
    <2>3. L[k].hash = p /\ L[k].timestamp = t
      BY <1>7, <2>1
    <2>4. AllCopies(L) = AllCopies(F) + 1
      BY <1>2, <1>7, CopiesCounted
    <2>5. AllCopies(h) <= s.duplicateCount => AllCopies(L) <= r.duplicateCount
      BY <1>1, <1>2, <1>4, <1>7, <2>4
    <2>6. \A j \in DOMAIN F : j # k => F[j].hash # p
      BY <1>2, <1>7 DEF Distinct
    <2>7. \A j \in DOMAIN F : L[j].hash = F[j].hash
      BY <1>7, <2>1, <2>3
    <2>8. Distinct(L)
      BY <1>2, <2>2, <2>7 DEF Distinct
    <2> QED
      BY <1>3, <2>1, <2>2, <2>3, <2>5, <2>6, <2>8
  <1>8. Good
    BY <1>5, <1>6, <1>7
  <1> QED
    BY <1>8 DEF F, L, h

----------------------------------------------------------------------------
(* The list holds distinct payloads, each with the time it was compared    *)
(* last, and what it lacks was forgotten for want of room.                 *)
Held(h, q) == \E i \in DOMAIN h : h[i].hash = q /\ h[i].timestamp = lastSeen[q]

\* The other payloads that came since q, or less than a window before.
Around(q) ==
    {x \in Payloads \ {q} : lastSeen[x] >= 0 /\ lastSeen[x] > lastSeen[q] - duplicateWindowMs}

Recent(q) == lastSeen[q] >= 0 /\ now - lastSeen[q] < duplicateWindowMs

HashesInv ==
    /\ Len(state.recentPacketHashes) <= duplicateWindowSize
    /\ Distinct(state.recentPacketHashes)
    /\ \A i \in DOMAIN state.recentPacketHashes :
          LET e == state.recentPacketHashes[i] IN e.timestamp = lastSeen[e.hash]
    /\ IsFiniteSet({q \in Payloads : lastSeen[q] >= 0})
    /\ \A q \in Payloads : Recent(q) =>
          \/ Held(state.recentPacketHashes, q)
          \/ duplicateWindowSize <= Cardinality(Around(q))

CopiesInv ==
    /\ AllCopies(state.recentPacketHashes) <= state.duplicateCount
    /\ state.window.duplicates <= state.window.total

(* A step that compares no packet.                                         *)
LEMMA HashesUndisturbed ==
    ASSUME TypeInv, HashesInv, SameDuplicates(state', state), lastSeen' = lastSeen,
           now' \in Nat, now <= now'
    PROVE  HashesInv'
  <1>1. state'.recentPacketHashes = state.recentPacketHashes
    BY DEF SameDuplicates
  <1>2. \A q \in Payloads : Recent(q)' => Recent(q)
    <2>1. duplicateWindowMs \in Nat /\ now \in Nat /\ \A q \in Payloads : lastSeen[q] \in Nat \union {-1}
      BY TrustAssumption DEF TypeInv, TypeOK
    <2> QED
      BY <2>1 DEF Recent
  <1>3. \A q \in Payloads : Around(q)' = Around(q)
    BY DEF Around
  <1> QED
    BY <1>1, <1>2, <1>3 DEF HashesInv, Held

(* A packet compared.                                                      *)
LEMMA ComparedKeepsHashes ==
    ASSUME TypeInv, HashesInv, NEW p \in Payloads,
           state' \in ClientTrustState, Compared(state', state, now, p),
           lastSeen' = [lastSeen EXCEPT ![p] = now], now' = now
    PROVE  HashesInv'
  <1> DEFINE h == state.recentPacketHashes
             F == FreshHashes(state, now)
             L == state'.recentPacketHashes
  <1>1. /\ now \in Nat /\ state \in ClientTrustState /\ h \in Seq(PacketHash)
        /\ lastSeen \in [Payloads -> Nat \union {-1}]
        /\ \A q \in Payloads : lastSeen[q] <= now
        /\ duplicateWindowMs \in Nat \ {0} /\ duplicateWindowSize \in Nat \ {0}
    BY TrustAssumption DEF TypeInv, TypeOK, ClientTrustState
  <1>2. /\ lastSeen'[p] = now
        /\ \A q \in Payloads : q # p => lastSeen'[q] = lastSeen[q]
        /\ \A q \in Payloads : lastSeen'[q] \in Nat \union {-1}
        /\ \A q \in Payloads : lastSeen[q] <= lastSeen'[q] /\ lastSeen'[q] <= now
    BY <1>1
  <1>3. /\ F \in Seq(PacketHash)
        /\ \A i \in DOMAIN F : \E j \in DOMAIN h :
              F[i] = h[j] /\ now - h[j].timestamp < duplicateWindowMs
        /\ \A j \in DOMAIN h : now - h[j].timestamp < duplicateWindowMs =>
              \E i \in DOMAIN F : F[i] = h[j]
    BY <1>1, FreshEffect DEF HashesInv
  <1>4. /\ L \in Seq(PacketHash) /\ Len(L) <= duplicateWindowSize /\ Distinct(L)
        /\ \A i \in DOMAIN L :
              \/ L[i].hash = p /\ L[i].timestamp = now
              \/ L[i].hash # p /\ \E j \in DOMAIN F : L[i] = F[j]
        /\ \E i \in DOMAIN L : L[i].hash = p /\ L[i].timestamp = now
        /\ \A j \in DOMAIN F : F[j].hash # p =>
              \/ \E i \in DOMAIN L : L[i] = F[j]
              \/ /\ Len(L) = duplicateWindowSize
                 /\ \A i \in DOMAIN L : L[i].hash # F[j].hash
    BY <1>1, ComparedEffect DEF HashesInv
  <1>5. /\ \A j \in DOMAIN h : h[j].timestamp = lastSeen[h[j].hash] /\ h[j].hash \in Payloads
        /\ \A i \in DOMAIN L : L[i].hash \in Payloads /\ L[i].timestamp \in Nat
    <2>1. \A j \in DOMAIN h : h[j] \in PacketHash
      BY <1>1
    <2>2. \A i \in DOMAIN L : L[i] \in PacketHash
      BY <1>4
    <2> QED
      BY <2>1, <2>2 DEF HashesInv, PacketHash
  <1>6. IsFiniteSet({q \in Payloads : lastSeen'[q] >= 0})
    <2>1. {q \in Payloads : lastSeen'[q] >= 0}
            \subseteq {q \in Payloads : lastSeen[q] >= 0} \union {p}
      BY <1>2
    <2>2. IsFiniteSet({q \in Payloads : lastSeen[q] >= 0} \union {p})
      BY FS_AddElement DEF HashesInv
    <2> QED
      BY <2>1, <2>2, FS_Subset
  <1> HIDE DEF h, F, L
  <1>7. \A i \in DOMAIN L :
           L[i].timestamp = lastSeen'[L[i].hash] /\ now - L[i].timestamp < duplicateWindowMs
    <2> TAKE i \in DOMAIN L
    <2>1. CASE L[i].hash = p /\ L[i].timestamp = now
      BY <1>1, <1>2, <2>1
    <2>2. CASE L[i].hash # p /\ \E j \in DOMAIN F : L[i] = F[j]
      <3>1. PICK j \in DOMAIN h : L[i] = h[j] /\ now - h[j].timestamp < duplicateWindowMs
        BY <1>3, <2>2
      <3> QED
        BY <1>2, <1>5, <2>2, <3>1
    <2> QED
      BY <1>4, <2>1, <2>2
  <1>8. \A q \in Payloads : IsFiniteSet(Around(q)')
    <2> TAKE q \in Payloads
    <2>1. Around(q)' \subseteq {x \in Payloads : lastSeen'[x] >= 0}
      BY DEF Around
    <2> QED
      BY <1>6, <2>1, FS_Subset
  <1>9. ASSUME NEW q \in Payloads, Recent(q)'
        PROVE  \/ \E i \in DOMAIN L : L[i].hash = q /\ L[i].timestamp = lastSeen'[q]
               \/ duplicateWindowSize <= Cardinality(Around(q)')
    <2>1. CASE q = p
      BY <1>2, <1>4, <2>1
    <2>2. CASE q # p
      <3>1. Recent(q) /\ lastSeen'[q] = lastSeen[q]
        BY <1>2, <1>9, <2>2 DEF Recent
      <3>2. CASE duplicateWindowSize <= Cardinality(Around(q))
        <4>1. Around(q) \subseteq Around(q)'
          BY <1>1, <1>2, <3>1 DEF Around
        <4>2. Cardinality(Around(q)) <= Cardinality(Around(q)')
          BY <1>8, <4>1, FS_Subset
        <4>3. Cardinality(Around(q)) \in Nat /\ Cardinality(Around(q)') \in Nat
          BY <1>8, <4>1, FS_Subset, FS_CardinalityType
        <4> QED
          BY <1>1, <3>2, <4>2, <4>3
      <3>3. CASE Held(h, q)
        <4>1. PICK j \in DOMAIN h : h[j].hash = q /\ h[j].timestamp = lastSeen[q]
          BY <3>3 DEF Held
        <4>2. PICK k \in DOMAIN F : F[k] = h[j]
          BY <1>3, <3>1, <4>1 DEF Recent
        <4>3. CASE \E i \in DOMAIN L : L[i] = F[k]
          BY <3>1, <4>1, <4>2, <4>3
        <4>4. CASE Len(L) = duplicateWindowSize /\ \A i \in DOMAIN L : L[i].hash # F[k].hash
          <5> DEFINE name == [i \in 1..Len(L) |-> L[i].hash]
                     A == Around(q)'
          <5>1. DOMAIN L = 1..Len(L) /\ Len(L) \in Nat
            BY <1>4
          <5>2. \A i \in DOMAIN L : L[i].hash \in A
            <6> TAKE i \in DOMAIN L
            <6> DEFINE x == L[i].hash
            <6>1. x \in Payloads \ {q} /\ L[i].timestamp \in Nat
              BY <1>5, <4>1, <4>2, <4>4
            <6>2. lastSeen'[x] = L[i].timestamp /\ now - L[i].timestamp < duplicateWindowMs
              BY <1>7
            <6>3. lastSeen'[q] <= now /\ lastSeen'[q] \in Nat \union {-1}
              BY <1>2
            <6>4. lastSeen'[x] >= 0 /\ lastSeen'[x] > lastSeen'[q] - duplicateWindowMs
              BY <1>1, <6>1, <6>2, <6>3
            <6> QED
              BY <6>1, <6>4 DEF Around
          <5> HIDE DEF A
          <5>3. name \in Injection(1..Len(L), A)
            <6>1. name \in [1..Len(L) -> A]
              BY <5>1, <5>2
            <6>2. \A i, j2 \in 1..Len(L) : name[i] = name[j2] => i = j2
              BY <1>4, <5>1 DEF Distinct
            <6> QED
              BY <6>1, <6>2 DEF Injection, IsInjective
          <5>4. IsFiniteSet(1..Len(L)) /\ Cardinality(1..Len(L)) = Len(L)
            BY <5>1, FS_Interval
          <5>5. Cardinality(1..Len(L)) <= Cardinality(A)
            BY <1>8, <5>3, FS_Injection DEF A
          <5> QED
            BY <4>4, <5>4, <5>5 DEF A
        <4> QED
          BY <1>4, <2>2, <4>1, <4>2, <4>3, <4>4
      <3> QED
        BY <3>1, <3>2, <3>3 DEF HashesInv, h
    <2> QED
      BY <2>1, <2>2
  <1> QED
    BY <1>4, <1>6, <1>7, <1>9 DEF HashesInv, Held, L
LEMMA HashesInit == Init => HashesInv
  <1> SUFFICES ASSUME Init
               PROVE  HashesInv
    OBVIOUS
  <1>1. state.recentPacketHashes = <<>> /\ \A q \in Payloads : lastSeen[q] = -1
    BY DEF Init, NewClient
  <1>2. {q \in Payloads : lastSeen[q] >= 0} = {}
    BY <1>1
  <1>3. Len(<<>>) <= duplicateWindowSize /\ DOMAIN <<>> = {}
    BY TrustAssumption
  <1> QED
    BY <1>1, <1>2, <1>3, FS_EmptySet DEF HashesInv, Distinct, Recent

LEMMA HashesStep == TypeInv /\ HashesInv /\ [Next]_vars => HashesInv'
  <1> SUFFICES ASSUME TypeInv, HashesInv, [Next]_vars
               PROVE  HashesInv'
    OBVIOUS
  <1>0. now \in Nat
    BY DEF TypeInv, TypeOK
  <1>1. ASSUME NEW p \in Payloads, NEW iata \in Iatas, Publish(p, iata)
        PROVE  HashesInv'
    <2>1. now' = now
      BY <1>1 DEF Publish
    <2>2. PICK ok \in BOOLEAN :
            /\ state' \in ClientTrustState
            /\ ~ok => SameDuplicates(state', state)
            /\ ok => Compared(state', state, now, p)
            /\ lastSeen' = IF ok THEN [lastSeen EXCEPT ![p] = now] ELSE lastSeen
      BY <1>1, PublishEffect
    <2>3. CASE ok
      BY <2>1, <2>2, <2>3, ComparedKeepsHashes
    <2>4. CASE ~ok
      BY <1>0, <2>1, <2>2, <2>4, HashesUndisturbed
    <2> QED
      BY <2>3, <2>4
  <1>2. CASE Tick \/ UNCHANGED vars
    <2>1. /\ state' = state /\ lastSeen' = lastSeen
          /\ now' \in Nat /\ now <= now'
      BY <1>0, <1>2 DEF Tick, vars
    <2>2. SameDuplicates(state', state)
      BY <2>1 DEF SameDuplicates
    <2> QED
      BY <2>1, <2>2, HashesUndisturbed
  <1> QED
    BY <1>1, <1>2 DEF Next

(* A duplicate is forgotten only for want of room, however the packets     *)
(* come: a payload compared less than duplicateWindowMs ago is in the list *)
(* unless duplicateWindowSize others were around.                          *)
THEOREM DuplicatesAreKnown == Spec => []NoDuplicateForgotten
  <1>1. TypeInv /\ HashesInv => NoDuplicateForgotten
    BY DEF HashesInv, Recent, Held, Around, NoDuplicateForgotten
  <1> QED
    BY TypeInvInit, TypeInvStep, HashesInit, HashesStep, <1>1, PTL DEF Spec

----------------------------------------------------------------------------
LEMMA CopiesInit == Init => CopiesInv
  <1> SUFFICES ASSUME Init
               PROVE  CopiesInv
    OBVIOUS
  <1>1. /\ state.recentPacketHashes = <<>> /\ state.duplicateCount = 0
        /\ state.window.duplicates <= state.window.total
    BY DEF Init, NewClient
  <1>2. <<>> \in Seq(PacketHash) /\ Len(<<>>) = 0
    OBVIOUS
  <1>3. AllCopies(<<>>) = 0
    BY <1>2, CopiesDefined DEF AllCopies
  <1> QED
    BY <1>1, <1>3 DEF CopiesInv

LEMMA CopiesStep == TypeInv /\ HashesInv /\ CopiesInv /\ [Next]_vars => CopiesInv'
  <1> SUFFICES ASSUME TypeInv, HashesInv, CopiesInv, [Next]_vars
               PROVE  CopiesInv'
    OBVIOUS
  <1>0. now \in Nat /\ state \in ClientTrustState
    BY DEF TypeInv, TypeOK
  <1>1. ASSUME NEW p \in Payloads, NEW iata \in Iatas, Publish(p, iata)
        PROVE  CopiesInv'
    <2>1. PICK ok \in BOOLEAN :
            /\ state' \in ClientTrustState
            /\ state.window.duplicates <= state.window.total
                 => state'.window.duplicates <= state'.window.total
            /\ ~ok => SameDuplicates(state', state)
            /\ ok => Compared(state', state, now, p)
      BY <1>1, PublishEffect
    <2>2. AllCopies(state'.recentPacketHashes) <= state'.duplicateCount
      <3>1. CASE ok
        BY <1>0, <2>1, <3>1, ComparedEffect DEF HashesInv, CopiesInv
      <3>2. CASE ~ok
        BY <2>1, <3>2 DEF SameDuplicates, CopiesInv
      <3> QED
        BY <3>1, <3>2
    <2> QED
      BY <2>1, <2>2 DEF CopiesInv
  <1>2. state' = state => CopiesInv'
    BY DEF CopiesInv
  <1> QED
    BY <1>1, <1>2 DEF Next, Tick, vars

(* Copies add up, in any list that any packets can make: no payload twice, *)
(* no more hashes than duplicateWindowSize, every copy shown was counted   *)
(* as a duplicate, and no window has more duplicates than packets.         *)
THEOREM CopiesAreCounted == Spec => []CopiesAddUp
  <1>1. HashesInv /\ CopiesInv => CopiesAddUp
    BY DEF HashesInv, CopiesInv, CopiesAddUp, Distinct, AllCopies
  <1> QED
    BY TypeInvInit, TypeInvStep, HashesInit, HashesStep, CopiesInit, CopiesStep, <1>1,
       PTL DEF Spec
=============================================================================
