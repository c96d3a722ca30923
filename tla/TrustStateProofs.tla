-------------------------- MODULE TrustStateProofs --------------------------
(***************************************************************************)
(* Facts about the operators of TrustState, for all that call them: what   *)
(* filter keeps, and what the detector's methods keep of a trust state.    *)
(***************************************************************************)
EXTENDS TrustState, FiniteSetTheorems, SequenceTheorems, WellFoundedInduction, TLAPS

----------------------------------------------------------------------------
(* Induction over numbers, as a fact about sets of numbers: the principle  *)
(* itself takes a predicate, which no prover here can choose.              *)
LEMMA LeastNumber ==
    ASSUME NEW T \in SUBSET Nat, T # {}
    PROVE  \E n \in T : \A m \in T : n <= m
  <1>1. IsWellFoundedOn(OpToRel(<, Nat), Nat)
    BY NatLessThanWellFounded
  <1>2. PICK n \in T : \A m \in T : ~(<<m, n>> \in OpToRel(<, Nat))
    BY <1>1, WFMin
  <1>3. \A m \in T : ~(m < n)
    BY <1>2 DEF OpToRel
  <1> QED
    BY <1>3

LEMMA SetInduction ==
    ASSUME NEW S, 0 \in S, \A n \in Nat : n \in S => n + 1 \in S
    PROVE  Nat \subseteq S
  <1> DEFINE T == Nat \ S
  <1> SUFFICES ASSUME T # {}
               PROVE  FALSE
    OBVIOUS
  <1>1. PICK n \in T : \A m \in T : n <= m
    BY LeastNumber
  <1>2. n - 1 \in Nat /\ n - 1 \notin T
    BY <1>1
  <1> QED
    BY <1>2

(* A function on 0..N may be defined by its value at 0 and a step.         *)
Iterates(T, c, step, m, g) ==
    /\ g \in [0..m -> T]
    /\ g[0] = c
    /\ \A n \in 1..m : g[n] = step[n][g[n - 1]]

LEMMA RecursionDefines ==
    ASSUME NEW T, NEW c \in T, NEW N \in Nat, NEW step \in [1..N -> [T -> T]]
    PROVE  \E g : Iterates(T, c, step, N, g)
  <1> DEFINE Upto(m, g) == Iterates(T, c, step, m, g)
             S == {m \in Nat : m <= N => \E g : Upto(m, g)}
  <1>1. 0 \in S
    <2>1. Upto(0, [n \in 0..0 |-> c])
      BY DEF Iterates
    <2> QED
      BY <2>1
  <1>2. ASSUME NEW m \in Nat, m \in S
        PROVE  m + 1 \in S
    <2> SUFFICES ASSUME m + 1 <= N
                 PROVE  \E g : Upto(m + 1, g)
      OBVIOUS
    <2>1. PICK g : Upto(m, g)
      BY <1>2
    <2> DEFINE h == [n \in 0..(m + 1) |-> IF n = m + 1 THEN step[m + 1][g[m]] ELSE g[n]]
    <2>2. g[m] \in T /\ step[m + 1][g[m]] \in T
      BY <2>1 DEF Iterates
    <2>3. Upto(m + 1, h)
      <3>1. h \in [0..(m + 1) -> T] /\ h[0] = c
        BY <2>1, <2>2 DEF Iterates
      <3>2. ASSUME NEW n \in 1..(m + 1)
            PROVE  h[n] = step[n][h[n - 1]]
        <4>1. CASE n = m + 1
          BY <2>1, <4>1 DEF Iterates
        <4>2. CASE n # m + 1
          BY <2>1, <4>2 DEF Iterates
        <4> QED
          BY <4>1, <4>2
      <3> QED
        BY <3>1, <3>2 DEF Iterates
    <2> QED
      BY <2>3
  <1>3. N \in S
    <2> HIDE DEF S
    <2> QED
      BY <1>1, <1>2, SetInduction
  <1> QED
    BY <1>3

----------------------------------------------------------------------------
(* filter: the function Picking exists, and satisfies its equation.        *)
LEMMA PickingDefined ==
    ASSUME NEW S, NEW s \in Seq(S), NEW kept
    PROVE  /\ Picking(s, kept) \in [0..Len(s) -> Seq(S)]
           /\ Picking(s, kept)[0] = <<>>
           /\ \A n \in 1..Len(s) :
                 Picking(s, kept)[n] =
                    IF n \in kept THEN Append(Picking(s, kept)[n - 1], s[n])
                                  ELSE Picking(s, kept)[n - 1]
  <1> DEFINE N == Len(s)
             step == [n \in 1..N |-> [v \in Seq(S) |->
                        IF n \in kept THEN Append(v, s[n]) ELSE v]]
             Eq(g) == g = [n \in 0..N |->
                              IF n = 0 THEN <<>>
                              ELSE IF n \in kept THEN Append(g[n - 1], s[n])
                              ELSE g[n - 1]]
  <1>1. N \in Nat /\ \A n \in 1..N : s[n] \in S
    OBVIOUS
  <1>2. step \in [1..N -> [Seq(S) -> Seq(S)]]
    BY <1>1
  <1>3. \A n \in 1..N, v \in Seq(S) :
            step[n][v] = IF n \in kept THEN Append(v, s[n]) ELSE v
    OBVIOUS
  <1> HIDE DEF step
  <1>4. PICK g \in [0..N -> Seq(S)] :
            g[0] = <<>> /\ \A n \in 1..N : g[n] = step[n][g[n - 1]]
    <2>1. <<>> \in Seq(S) /\ N \in Nat
      BY <1>1
    <2> HIDE DEF N
    <2>2. \E g : Iterates(Seq(S), <<>>, step, N, g)
      BY <1>2, <2>1, RecursionDefines
    <2> QED
      BY <2>2 DEF Iterates
  <1>5. Eq(g)
    <2>1. ASSUME NEW n \in 0..N, n # 0
          PROVE  /\ n \in 1..N /\ g[n - 1] \in Seq(S)
                 /\ g[n] = step[n][g[n - 1]]
      BY <1>1, <1>4, <2>1
    <2>2. ASSUME NEW n \in 0..N
          PROVE  g[n] = IF n = 0 THEN <<>>
                        ELSE IF n \in kept THEN Append(g[n - 1], s[n])
                        ELSE g[n - 1]
      BY <1>1, <1>3, <1>4, <2>1
    <2> QED
      BY <1>4, <2>2
  <1> DEFINE f == Picking(s, kept)
  <1>6. f = CHOOSE h : Eq(h)
    BY DEF Picking
  <1> HIDE DEF f
  <1>7. Eq(f)
    <2> HIDE DEF Eq
    <2> QED
      BY <1>5, <1>6
  <1>8. /\ f[0] = <<>>
        /\ \A n \in 1..N : f[n] = IF n \in kept THEN Append(f[n - 1], s[n])
                                                ELSE f[n - 1]
        /\ f = [n \in 0..N |-> f[n]]
    <2>1. f = [n \in 0..N |->
                  IF n = 0 THEN <<>>
                  ELSE IF n \in kept THEN Append(f[n - 1], s[n])
                  ELSE f[n - 1]]
      BY <1>7
    <2> HIDE DEF Eq, N
    <2>2. f[0] = <<>>
      BY <1>1, <2>1
    <2>3. \A n \in 1..N : f[n] = IF n \in kept THEN Append(f[n - 1], s[n])
                                               ELSE f[n - 1]
      <3> TAKE n \in 1..N
      <3>1. n \in 0..N /\ n # 0
        BY <1>1
      <3> QED
        BY <2>1, <3>1, Zenon
    <2>4. f = [n \in 0..N |-> f[n]]
      BY <2>1
    <2> QED
      BY <2>2, <2>3, <2>4
  <1>9. \A n \in 0..N : f[n] \in Seq(S)
    <2> DEFINE D == {n \in Nat : n <= N => f[n] \in Seq(S)}
    <2>1. 0 \in D
      BY <1>8, <<>> \in Seq(S)
    <2>2. ASSUME NEW n \in Nat, n \in D
          PROVE  n + 1 \in D
      <3> SUFFICES ASSUME n + 1 <= N
                   PROVE  f[n + 1] \in Seq(S)
        OBVIOUS
      <3>1. n + 1 \in 1..N /\ f[n] \in Seq(S) /\ (n + 1) - 1 = n
        BY <1>1, <2>2
      <3>2. f[n + 1] = IF n + 1 \in kept THEN Append(f[n], s[n + 1]) ELSE f[n]
        BY <1>8, <3>1
      <3>3. s[n + 1] \in S
        BY <1>1, <3>1
      <3> HIDE DEF N
      <3> QED
        BY <3>1, <3>2, <3>3
    <2>3. Nat \subseteq D
      <3> HIDE DEF D
      <3> QED
        BY <2>1, <2>2, SetInduction
    <2> QED
      BY <1>1, <2>3
  <1> QED
    BY <1>8, <1>9 DEF f
----------------------------------------------------------------------------
(* A trust state that was last refilled no later than t.  IsFiniteSet is   *)
(* what makes the number of known locations a number.                      *)
Sound(s, t) ==
    /\ s \in ClientTrustState
    /\ s.lastRefill <= t
    /\ IsFiniteSet(s.iataHistory)

(* The parts of a trust state that one method changes and others leave.    *)
SameBucket(r, s) == r.tokens = s.tokens /\ r.lastRefill = s.lastRefill

SameRate(r, s) ==
    /\ r.packetTimes = s.packetTimes
    /\ r.peakRateObserved = s.peakRateObserved

SameDuplicates(r, s) ==
    /\ r.recentPacketHashes = s.recentPacketHashes
    /\ r.duplicateCount = s.duplicateCount
    /\ r.window = s.window

SameLocations(r, s) ==
    /\ r.iataHistory = s.iataHistory
    /\ r.currentIata = s.currentIata
    /\ r.iataChangeCount24h = s.iataChangeCount24h

SameTotal(r, s) == r.totalPacketsReceived = s.totalPacketsReceived

SameJudgement(r, s) == r.status = s.status /\ r.anomalyCount = s.anomalyCount

(* What no method takes back: an anomaly, a mute, and the mute that enough *)
(* anomalies bring.                                                        *)
Enforced(s) ==
    enforcementEnabled /\ s.anomalyCount >= anomalyThreshold => s.status = "muted"

Harder(r, s) ==
    /\ s.anomalyCount <= r.anomalyCount
    /\ s.status = "muted" => r.status = "muted"
    /\ Enforced(s) => Enforced(r)

----------------------------------------------------------------------------
(* muteClient and recordAnomaly touch the judgement and nothing else.      *)
LEMMA MuteClientEffect ==
    ASSUME NEW s \in ClientTrustState
    PROVE  LET r == MuteClient(s) IN
           /\ r \in ClientTrustState
           /\ Harder(r, s) /\ SameBucket(r, s) /\ SameRate(r, s)
           /\ SameDuplicates(r, s) /\ SameLocations(r, s) /\ SameTotal(r, s)
  <1> DEFINE muted == [s EXCEPT !.status = "muted"]
  <1>1. /\ muted \in ClientTrustState
        /\ muted.status = "muted" /\ muted.anomalyCount = s.anomalyCount
        /\ SameBucket(muted, s) /\ SameRate(muted, s) /\ SameDuplicates(muted, s)
        /\ SameLocations(muted, s) /\ SameTotal(muted, s)
    BY DEF ClientTrustState, SameBucket, SameRate, SameDuplicates, SameLocations, SameTotal
  <1>2. s.anomalyCount \in Nat
    BY DEF ClientTrustState
  <1>3. CASE enforcementEnabled
    <2>1. MuteClient(s) = muted
      BY <1>3 DEF MuteClient
    <2> HIDE DEF muted
    <2> QED
      BY <1>1, <1>2, <2>1 DEF Harder, Enforced
  <1>4. CASE ~enforcementEnabled
    <2>1. MuteClient(s) = s
      BY <1>4 DEF MuteClient
    <2> QED
      BY <1>2, <2>1 DEF Harder, SameBucket, SameRate, SameDuplicates, SameLocations, SameTotal
  <1> QED
    BY <1>3, <1>4

LEMMA RecordAnomalyEffect ==
    ASSUME NEW s \in ClientTrustState
    PROVE  LET r == RecordAnomaly(s) IN
           /\ r \in ClientTrustState
           /\ Harder(r, s) /\ SameBucket(r, s) /\ SameRate(r, s)
           /\ SameDuplicates(r, s) /\ SameLocations(r, s) /\ SameTotal(r, s)
  <1> DEFINE counted == [s EXCEPT !.anomalyCount = @ + 1]
  <1>1. s.anomalyCount \in Nat /\ anomalyThreshold \in Nat
    BY TrustAssumption DEF ClientTrustState
  <1>2. counted \in ClientTrustState
    <2>1. s.anomalyCount + 1 \in Nat
      BY <1>1
    <2> QED
      BY <2>1 DEF ClientTrustState
  <1>3. /\ counted.anomalyCount = s.anomalyCount + 1
        /\ counted.status = s.status
        /\ SameBucket(counted, s) /\ SameRate(counted, s) /\ SameDuplicates(counted, s)
        /\ SameLocations(counted, s) /\ SameTotal(counted, s)
    BY DEF ClientTrustState, SameBucket, SameRate, SameDuplicates, SameLocations, SameTotal
  <1> DEFINE muted == MuteClient(counted)
  <1> HIDE DEF counted
  <1>4. /\ muted \in ClientTrustState
        /\ Harder(muted, counted) /\ SameBucket(muted, counted) /\ SameRate(muted, counted)
        /\ SameDuplicates(muted, counted) /\ SameLocations(muted, counted)
        /\ SameTotal(muted, counted)
    BY <1>2, MuteClientEffect
  <1>5. CASE counted.anomalyCount >= anomalyThreshold
    <2>1. RecordAnomaly(s) = muted
      BY <1>5 DEF RecordAnomaly, counted
    <2>2. enforcementEnabled => muted.status = "muted"
      BY <1>2 DEF MuteClient, ClientTrustState
    <2> HIDE DEF muted
    <2>3. Harder(muted, s)
      <3>1. muted.anomalyCount \in Nat
        BY <1>4 DEF ClientTrustState
      <3> QED
        BY <1>1, <1>3, <1>4, <2>2, <3>1 DEF Harder, Enforced
    <2> QED
      BY <1>3, <1>4, <2>1, <2>3
         DEF SameBucket, SameRate, SameDuplicates, SameLocations, SameTotal
  <1>6. CASE ~(counted.anomalyCount >= anomalyThreshold)
    <2>1. RecordAnomaly(s) = counted
      BY <1>6 DEF RecordAnomaly, counted
    <2>2. Harder(counted, s)
      BY <1>1, <1>3, <1>6 DEF Harder, Enforced
    <2> QED
      BY <1>2, <1>3, <2>1, <2>2
  <1> QED
    BY <1>5, <1>6
----------------------------------------------------------------------------
(* checkRateLimit: what the bucket gives out was in it or was refilled.    *)
LEMMA CheckRateLimitEffect ==
    ASSUME NEW s \in ClientTrustState, NEW t \in Nat, s.lastRefill <= t
    PROVE  LET c == CheckRateLimit(s, t)
               r == c.state
           IN  /\ c.ok \in BOOLEAN
               /\ r \in ClientTrustState
               /\ r.lastRefill = t
               /\ r.tokens + (IF c.ok THEN tokenCost ELSE 0)
                    <= s.tokens + (t - s.lastRefill) * bucketRefillRate
               /\ SameJudgement(r, s) /\ SameRate(r, s)
               /\ SameDuplicates(r, s) /\ SameLocations(r, s) /\ SameTotal(r, s)
  <1> DEFINE more == (t - s.lastRefill) * bucketRefillRate
             tokens == Lesser(bucketCapacity, s.tokens + more)
             full == Refilled(s, t)
             spent == [full EXCEPT !.tokens = @ - tokenCost]
  <1>1. more \in Nat /\ s.tokens \in Nat
    BY TrustAssumption DEF ClientTrustState
  <1>2. tokens \in 0..bucketCapacity /\ tokens <= s.tokens + more
    <2> HIDE DEF more
    <2> QED
      BY <1>1, TrustAssumption DEF Lesser
  <1>3. full = [s EXCEPT !.tokens = tokens, !.lastRefill = t]
    BY DEF Refilled
  <1> HIDE DEF tokens, full
  <1>4. /\ full \in ClientTrustState
        /\ full.tokens = tokens /\ full.lastRefill = t
        /\ SameJudgement(full, s) /\ SameRate(full, s)
        /\ SameDuplicates(full, s) /\ SameLocations(full, s) /\ SameTotal(full, s)
    BY <1>2, <1>3 DEF ClientTrustState, SameJudgement, SameRate, SameDuplicates,
                      SameLocations, SameTotal
  <1>5. CASE full.tokens < tokenCost
    <2>1. CheckRateLimit(s, t) = [ok |-> FALSE, state |-> full]
      BY <1>5 DEF CheckRateLimit, full
    <2> HIDE DEF more
    <2>2. full.tokens + 0 <= s.tokens + more
      BY <1>1, <1>2, <1>4
    <2> QED
      BY <1>4, <2>1, <2>2 DEF more
  <1>6. CASE ~(full.tokens < tokenCost)
    <2>1. CheckRateLimit(s, t) = [ok |-> TRUE, state |-> spent]
      BY <1>6 DEF CheckRateLimit, full
    <2>2. full.tokens - tokenCost \in 0..bucketCapacity
      BY <1>2, <1>4, <1>6, TrustAssumption
    <2>3. /\ spent \in ClientTrustState
          /\ spent.tokens = full.tokens - tokenCost /\ spent.lastRefill = t
          /\ SameJudgement(spent, full) /\ SameRate(spent, full)
          /\ SameDuplicates(spent, full) /\ SameLocations(spent, full)
          /\ SameTotal(spent, full)
      BY <1>4, <2>2 DEF ClientTrustState, SameJudgement, SameRate, SameDuplicates,
                        SameLocations, SameTotal
    <2> HIDE DEF more, spent
    <2>4. spent.tokens + tokenCost <= s.tokens + more
      BY <1>1, <1>2, <1>4, <2>3, TrustAssumption
    <2> QED
      BY <1>4, <2>1, <2>3, <2>4
         DEF SameJudgement, SameRate, SameDuplicates, SameLocations, SameTotal, more
  <1> QED
    BY <1>5, <1>6

----------------------------------------------------------------------------
(* filter: what it returns are entries of the sequence, in their order and *)
(* no more of them; kept says which.                                       *)
LEMMA FilteredType ==
    ASSUME NEW S, NEW s \in Seq(S), NEW kept
    PROVE  Filtered(s, kept) \in Seq(S)
  BY PickingDefined DEF Filtered

LEMMA FilteredShorter ==
    ASSUME NEW S, NEW s \in Seq(S), NEW kept
    PROVE  Len(Filtered(s, kept)) <= Len(s)
  <1> DEFINE f == Picking(s, kept)
             N == Len(s)
             D == {n \in Nat : n <= N => Len(f[n]) <= n}
  <1>1. /\ f \in [0..N -> Seq(S)] /\ f[0] = <<>> /\ N \in Nat
        /\ \A n \in 1..N : f[n] = IF n \in kept THEN Append(f[n - 1], s[n]) ELSE f[n - 1]
    BY PickingDefined
  <1> HIDE DEF f, N
  <1>2. 0 \in D
    BY <1>1
  <1>3. ASSUME NEW n \in Nat, n \in D
        PROVE  n + 1 \in D
    <2> SUFFICES ASSUME n + 1 <= N
                 PROVE  Len(f[n + 1]) <= n + 1
      OBVIOUS
    <2>1. n + 1 \in 1..N /\ n \in 0..N /\ (n + 1) - 1 = n
      BY <1>1
    <2>2. f[n] \in Seq(S) /\ Len(f[n]) <= n
      BY <1>1, <1>3, <2>1
    <2>3. f[n + 1] = f[n] \/ f[n + 1] = Append(f[n], s[n + 1])
      BY <1>1, <2>1
    <2>4. \A e : Len(Append(f[n], e)) = Len(f[n]) + 1
      BY <2>2
    <2>5. Len(f[n]) \in Nat
      BY <2>2
    <2> QED
      BY <2>2, <2>3, <2>4, <2>5
  <1>4. Nat \subseteq D
    <2> HIDE DEF D
    <2> QED
      BY <1>2, <1>3, SetInduction
  <1> QED
    BY <1>1, <1>4 DEF Filtered, f, N

(* r has the entries of s at the places K, each once, at says from where.  *)
Selects(r, s, K, at) ==
    /\ at \in [1..Len(r) -> K]
    /\ \A i, j \in 1..Len(r) : at[i] = at[j] => i = j
    /\ \A k \in K : \E i \in 1..Len(r) : at[i] = k
    /\ \A i \in 1..Len(r) : r[i] = s[at[i]]

LEMMA FilteredSelects ==
    ASSUME NEW S, NEW s \in Seq(S), NEW kept
    PROVE  \E at : Selects(Filtered(s, kept), s, kept \intersect 1..Len(s), at)
  <1> DEFINE f == Picking(s, kept)
             N == Len(s)
             Good(n) == \E at : Selects(f[n], s, kept \intersect 1..n, at)
             D == {n \in Nat : n <= N => Good(n)}
  <1>1. /\ f \in [0..N -> Seq(S)] /\ f[0] = <<>> /\ N \in Nat
        /\ \A n \in 1..N : f[n] = IF n \in kept THEN Append(f[n - 1], s[n]) ELSE f[n - 1]
    BY PickingDefined
  <1> HIDE DEF f, N
  <1>2. 0 \in D
    <2>1. Selects(f[0], s, kept \intersect 1..0, [i \in {} |-> i])
      BY <1>1 DEF Selects
    <2> QED
      BY <2>1
  <1>3. ASSUME NEW n \in Nat, n \in D
        PROVE  n + 1 \in D
    <2> HIDE DEF Good
    <2> SUFFICES ASSUME n + 1 <= N
                 PROVE  Good(n + 1)
      OBVIOUS
    <2>1. n + 1 \in 1..N /\ n \in 0..N /\ (n + 1) - 1 = n
      BY <1>1
    <2>0. Good(n)
      BY <1>1, <1>3, <2>1
    <2> USE DEF Good
    <2>2. PICK at : Selects(f[n], s, kept \intersect 1..n, at)
      BY <2>0
    <2> DEFINE r == f[n]
               m == Len(r)
               K == kept \intersect 1..n
    <2>3. r \in Seq(S) /\ m \in Nat
      BY <1>1, <2>1
    <2>4. CASE n + 1 \notin kept
      <3>1. f[n + 1] = r
        BY <1>1, <2>1, <2>4
      <3>2. kept \intersect 1..(n + 1) = K
        BY <2>4
      <3> QED
        BY <2>2, <3>1, <3>2
    <2>5. CASE n + 1 \in kept
      <3> DEFINE q == Append(r, s[n + 1])
                 to == [i \in 1..(m + 1) |-> IF i = m + 1 THEN n + 1 ELSE at[i]]
                 J == K \union {n + 1}
      <3>1. f[n + 1] = q
        BY <1>1, <2>1, <2>5
      <3>2. kept \intersect 1..(n + 1) = J
        BY <2>5
      <3>3. Len(q) = m + 1 /\ q[m + 1] = s[n + 1] /\ \A i \in 1..m : q[i] = r[i]
        BY <2>3
      <3>4. n + 1 \notin K
        OBVIOUS
      <3>5. /\ at \in [1..m -> K]
            /\ \A i, j \in 1..m : at[i] = at[j] => i = j
            /\ \A k \in K : \E i \in 1..m : at[i] = k
            /\ \A i \in 1..m : r[i] = s[at[i]]
        BY <2>2 DEF Selects
      <3> HIDE DEF q, r, m, K
      <3>6. to \in [1..(m + 1) -> J]
        BY <2>3, <3>5
      <3>7. /\ to[m + 1] = n + 1
            /\ \A i \in 1..(m + 1) : i # m + 1 => i \in 1..m /\ to[i] = at[i]
            /\ \A i \in 1..m : i \in 1..(m + 1) /\ to[i] = at[i]
        BY <2>3
      <3> HIDE DEF to
      <3>8. \A i, j \in 1..(m + 1) : to[i] = to[j] => i = j
        BY <3>4, <3>5, <3>7
      <3>9. \A k \in J : \E i \in 1..(m + 1) : to[i] = k
        BY <2>3, <3>5, <3>7
      <3>10. \A i \in 1..(m + 1) : q[i] = s[to[i]]
        BY <3>3, <3>5, <3>7
      <3>11. Selects(q, s, J, to)
        BY <3>3, <3>6, <3>8, <3>9, <3>10 DEF Selects
      <3> QED
        BY <3>1, <3>2, <3>11
    <2> QED
      BY <2>4, <2>5
  <1>4. Nat \subseteq D
    <2> HIDE DEF D
    <2> QED
      BY <1>2, <1>3, SetInduction
  <1> HIDE DEF Good
  <1>5. Good(N)
    BY <1>1, <1>4
  <1> QED
    BY <1>5 DEF Good, Filtered, f, N

----------------------------------------------------------------------------
(* recordPacket's rate part.                                               *)
LEMMA ObserveRateEffect ==
    ASSUME NEW s \in ClientTrustState, NEW t \in Nat
    PROVE  LET r == ObserveRate(s, t) IN
           /\ r \in ClientTrustState
           /\ SameJudgement(r, s) /\ SameBucket(r, s)
           /\ SameDuplicates(r, s) /\ SameLocations(r, s) /\ SameTotal(r, s)
  <1> DEFINE times == Within(Append(s.packetTimes, t), t, day)
             current == Len(Within(times, t, interval))
             peak == IF current > s.peakRateObserved THEN current
                                                     ELSE s.peakRateObserved
             shown == IF Len(Within(times, t, hour)) = 0 THEN 0 ELSE peak
  <1>1. s.packetTimes \in Seq(Nat) /\ s.peakRateObserved \in Nat
    BY DEF ClientTrustState
  <1>2. times \in Seq(Nat)
    <2>1. Append(s.packetTimes, t) \in Seq(Nat)
      BY <1>1
    <2> QED
      BY <2>1, FilteredType DEF Within
  <1>3. shown \in Nat
    <2> HIDE DEF times
    <2>1. Within(times, t, interval) \in Seq(Nat)
      BY <1>2, FilteredType DEF Within
    <2>2. current \in Nat
      BY <2>1
    <2> QED
      BY <1>1, <2>2
  <1>4. ObserveRate(s, t) = [s EXCEPT !.packetTimes = times, !.peakRateObserved = shown]
    BY DEF ObserveRate
  <1> HIDE DEF times, shown
  <1> QED
    BY <1>2, <1>3, <1>4 DEF ClientTrustState, SameJudgement, SameBucket,
                            SameDuplicates, SameLocations, SameTotal

(* checkDuplicates: the list that is left, the copies counted, the window. *)
LEMMA CountedWindowEffect ==
    ASSUME NEW s \in ClientTrustState, NEW t \in Nat, NEW duplicate \in BOOLEAN
    PROVE  LET w == CountedWindow(s, t, duplicate) IN
           /\ w \in [total : Nat, duplicates : Nat, start : Nat]
           /\ s.window.duplicates <= s.window.total => w.duplicates <= w.total
  <1> DEFINE Window == [total : Nat, duplicates : Nat, start : Nat]
             old == IF t - s.window.start > duplicateRateWindowMs
                    THEN [total |-> 0, duplicates |-> 0, start |-> t]
                    ELSE s.window
             more == IF duplicate THEN old.duplicates + 1 ELSE old.duplicates
  <1>1. s.window \in Window
    BY DEF ClientTrustState
  <1>2. old \in Window /\ (s.window.duplicates <= s.window.total => old.duplicates <= old.total)
    BY <1>1
  <1>3. CountedWindow(s, t, duplicate)
          = [old EXCEPT !.total = @ + 1,
                        !.duplicates = IF duplicate THEN @ + 1 ELSE @]
    BY DEF CountedWindow
  <1>4. CountedWindow(s, t, duplicate) = [old EXCEPT !.total = old.total + 1, !.duplicates = more]
    BY <1>3
  <1> HIDE DEF old
  <1>5. /\ old.total \in Nat /\ old.total + 1 \in Nat
        /\ old.duplicates \in Nat /\ more \in Nat /\ more <= old.duplicates + 1
    BY <1>2
  <1> DEFINE w == [old EXCEPT !.total = old.total + 1, !.duplicates = more]
  <1> HIDE DEF more
  <1>6. w \in Window
    BY <1>2, <1>5
  <1>7. w.total = old.total + 1 /\ w.duplicates = more
    BY <1>2
  <1> HIDE DEF w
  <1>8. old.duplicates <= old.total => w.duplicates <= w.total
    BY <1>5, <1>7
  <1> QED
    BY <1>2, <1>4, <1>6, <1>8 DEF w

LEMMA FreshHashesType ==
    ASSUME NEW s \in ClientTrustState, NEW t \in Nat
    PROVE  FreshHashes(s, t) \in Seq(PacketHash)
  <1>1. s.recentPacketHashes \in Seq(PacketHash)
    BY DEF ClientTrustState
  <1> QED
    BY <1>1, FilteredType DEF FreshHashes

LEMMA RememberType ==
    ASSUME NEW hashes \in Seq(PacketHash), NEW p \in Payloads, NEW t \in Nat
    PROVE  Remember(hashes, p, t) \in Seq(PacketHash)
  <1> DEFINE h == [hash |-> p, timestamp |-> t, count |-> 1]
             longer == Append(hashes, h)
  <1>1. h \in PacketHash
    BY DEF PacketHash
  <1>2. longer \in Seq(PacketHash) /\ longer # <<>>
    BY <1>1
  <1>3. Tail(longer) \in Seq(PacketHash)
    BY <1>2
  <1> QED
    BY <1>2, <1>3 DEF Remember

LEMMA CountCopyEffect ==
    ASSUME NEW hashes \in Seq(PacketHash), NEW i \in DOMAIN hashes, NEW t \in Nat
    PROVE  LET c == CountCopy(hashes, i, t) IN
           /\ c \in Seq(PacketHash)
           /\ Len(c) = Len(hashes)
           /\ c[i] = [hash |-> hashes[i].hash, timestamp |-> t, count |-> hashes[i].count + 1]
           /\ \A j \in DOMAIN hashes : j # i => c[j] = hashes[j]
  <1> DEFINE h == hashes[i]
             again == [h EXCEPT !.count = @ + 1]
             new == [again EXCEPT !.timestamp = t]
             e == [hash |-> h.hash, timestamp |-> t, count |-> h.count + 1]
  <1>1. h \in PacketHash
    OBVIOUS
  <1>2. new = e
    <2>1. new \in PacketHash
      <3>1. h.count + 1 \in Nat \ {0}
        BY <1>1 DEF PacketHash
      <3>2. again \in PacketHash
        BY <1>1, <3>1 DEF PacketHash
      <3> QED
        BY <3>2 DEF PacketHash
    <2>2. new.hash = h.hash /\ new.timestamp = t /\ new.count = h.count + 1
      BY <1>1 DEF PacketHash
    <2> HIDE DEF new, h
    <2>3. new = [hash |-> new.hash, timestamp |-> new.timestamp, count |-> new.count]
      BY <2>1 DEF PacketHash
    <2> QED
      BY <2>2, <2>3
  <1>3. e \in PacketHash
    BY <1>1 DEF PacketHash
  <1>4. CountCopy(hashes, i, t) = [hashes EXCEPT ![i] = new]
    BY DEF CountCopy
  <1> HIDE DEF new, e
  <1>5. [hashes EXCEPT ![i] = e] \in Seq(PacketHash)
    BY <1>3
  <1> QED
    BY <1>2, <1>3, <1>4, <1>5 DEF e

(* What checkDuplicates makes of the list of s and of its count.           *)
Compared(r, s, t, p) ==
    LET hashes == FreshHashes(s, t) IN
    \/ /\ \A j \in DOMAIN hashes : hashes[j].hash # p
       /\ r.recentPacketHashes = Remember(hashes, p, t)
       /\ r.duplicateCount = s.duplicateCount
    \/ \E i \in DOMAIN hashes :
          /\ hashes[i].hash = p
          /\ r.recentPacketHashes = CountCopy(hashes, i, t)
          /\ r.duplicateCount = s.duplicateCount + 1

LEMMA CheckDuplicatesEffect ==
    ASSUME NEW s \in ClientTrustState, NEW t \in Nat, NEW p \in Payloads
    PROVE  LET r == CheckDuplicates(s, t, p) IN
           /\ r \in ClientTrustState
           /\ Harder(r, s) /\ SameBucket(r, s) /\ SameRate(r, s)
           /\ SameLocations(r, s) /\ SameTotal(r, s)
           /\ s.window.duplicates <= s.window.total
                => r.window.duplicates <= r.window.total
           /\ Compared(r, s, t, p)
  <1> DEFINE hashes    == FreshHashes(s, t)
             known     == {j \in DOMAIN hashes : hashes[j].hash = p}
             i         == CHOOSE j \in known : TRUE
             duplicate == known # {}
             window    == CountedWindow(s, t, duplicate)
             copies    == IF duplicate THEN s.duplicateCount + 1 ELSE s.duplicateCount
             list      == IF duplicate THEN CountCopy(hashes, i, t)
                                       ELSE Remember(hashes, p, t)
             counted   == [s EXCEPT !.window = window, !.duplicateCount = copies,
                                    !.recentPacketHashes = list]
             r         == CheckDuplicates(s, t, p)
  <1>1. hashes \in Seq(PacketHash)
    BY FreshHashesType
  <1>2. /\ duplicate \in BOOLEAN
        /\ duplicate => i \in DOMAIN hashes /\ hashes[i].hash = p
        /\ ~duplicate => \A j \in DOMAIN hashes : hashes[j].hash # p
    OBVIOUS
  <1>3. r = IF duplicate /\ \/ ExcessiveCopies(counted.recentPacketHashes[i])
                            \/ HighDuplicateRate(window)
            THEN RecordAnomaly(counted) ELSE counted
    BY DEF CheckDuplicates
  <1> HIDE DEF hashes, known, i, duplicate, r
  <1>4. /\ window \in [total : Nat, duplicates : Nat, start : Nat]
        /\ s.window.duplicates <= s.window.total => window.duplicates <= window.total
    BY <1>2, CountedWindowEffect
  <1>5. copies \in Nat
    BY DEF ClientTrustState
  <1>6. list \in Seq(PacketHash)
    BY <1>1, <1>2, RememberType, CountCopyEffect
  <1> HIDE DEF window, copies, list
  <1>7. /\ counted \in ClientTrustState
        /\ counted.window = window /\ counted.duplicateCount = copies
        /\ counted.recentPacketHashes = list
        /\ SameJudgement(counted, s) /\ SameBucket(counted, s) /\ SameRate(counted, s)
        /\ SameLocations(counted, s) /\ SameTotal(counted, s)
    BY <1>4, <1>5, <1>6 DEF ClientTrustState, SameJudgement, SameBucket, SameRate,
                            SameLocations, SameTotal
  <1> HIDE DEF counted
  <1>8. s.anomalyCount \in Nat
    BY DEF ClientTrustState
  <1>9. /\ r \in ClientTrustState
        /\ Harder(r, counted) /\ SameBucket(r, counted) /\ SameRate(r, counted)
        /\ SameDuplicates(r, counted) /\ SameLocations(r, counted) /\ SameTotal(r, counted)
    <2>1. CASE r = counted
      <3>1. counted.anomalyCount \in Nat
        BY <1>7 DEF ClientTrustState
      <3> QED
        BY <1>7, <2>1, <3>1 DEF Harder, SameBucket, SameRate, SameDuplicates,
                                SameLocations, SameTotal
    <2>2. CASE r = RecordAnomaly(counted)
      BY <1>7, <2>2, RecordAnomalyEffect
    <2> QED
      BY <1>3, <2>1, <2>2
  <1>10. /\ Harder(r, s) /\ SameBucket(r, s) /\ SameRate(r, s)
         /\ SameLocations(r, s) /\ SameTotal(r, s)
    BY <1>7, <1>9 DEF Harder, Enforced, SameJudgement, SameBucket, SameRate,
                      SameLocations, SameTotal
  <1>11. /\ r.window = window /\ r.duplicateCount = copies
         /\ r.recentPacketHashes = list
    BY <1>7, <1>9 DEF SameDuplicates
  <1>12. CASE duplicate
    BY <1>2, <1>4, <1>9, <1>10, <1>11, <1>12 DEF copies, list, r, hashes, Compared
  <1>13. CASE ~duplicate
    BY <1>2, <1>4, <1>9, <1>10, <1>11, <1>13 DEF copies, list, r, hashes, Compared
  <1> QED
    BY <1>12, <1>13

----------------------------------------------------------------------------
(* checkIataChange.                                                        *)
LEMMA SeenAgainType ==
    ASSUME NEW history \in SUBSET IataVisit, NEW iata, NEW t \in Nat,
           IsFiniteSet(history)
    PROVE  /\ SeenAgain(history, iata, t) \in SUBSET IataVisit
           /\ IsFiniteSet(SeenAgain(history, iata, t))
           /\ Cardinality(SeenAgain(history, iata, t)) <= Cardinality(history)
  <1> DEFINE again(v) == IF v.iata = iata THEN [v EXCEPT !.lastSeen = t] ELSE v
  <1>1. SeenAgain(history, iata, t) = {again(v) : v \in history}
    BY DEF SeenAgain
  <1>2. \A v \in IataVisit : again(v) \in IataVisit
    BY DEF IataVisit
  <1>3. /\ IsFiniteSet({again(v) : v \in history})
        /\ Cardinality({again(v) : v \in history}) <= Cardinality(history)
    <2> DEFINE f == [v \in history |-> again(v)]
    <2>1. f \in Surjection(history, {again(v) : v \in history})
      BY DEF Surjection
    <2> HIDE DEF f, again
    <2> QED
      BY <2>1, FS_Surjection
  <1> HIDE DEF again
  <1> QED
    BY <1>1, <1>2, <1>3

(* Where checkIataChange leaves the publisher and its history of visits.   *)
FreshVisits(s, t) == {v \in s.iataHistory : v.lastSeen > t - day}

Located(r, s, t, iata) ==
    LET fresh == FreshVisits(s, t)
        here  == [iata |-> iata, lastSeen |-> t]
    IN  \/ /\ s.currentIata = NoIata
           /\ r.currentIata = iata /\ r.iataHistory = fresh \union {here}
        \/ /\ s.currentIata # NoIata
           /\ r.currentIata = iata /\ r.iataHistory = SeenAgain(fresh, iata, t)
        \/ /\ s.currentIata # NoIata
           /\ r.currentIata = s.currentIata /\ r.iataHistory = fresh
        \/ /\ s.currentIata # NoIata
           /\ \A v \in fresh : v.iata # iata
           /\ Cardinality(fresh) + 1 <= maxIataChanges24h
           /\ r.currentIata = iata /\ r.iataHistory = fresh \union {here}

LEMMA CheckIataChangeEffect ==
    ASSUME NEW s \in ClientTrustState, NEW t \in Nat, NEW iata \in Iatas,
           IsFiniteSet(s.iataHistory)
    PROVE  LET r == CheckIataChange(s, t, iata) IN
           /\ r \in ClientTrustState
           /\ IsFiniteSet(r.iataHistory)
           /\ Harder(r, s) /\ SameBucket(r, s) /\ SameRate(r, s)
           /\ SameDuplicates(r, s) /\ SameTotal(r, s)
           /\ Located(r, s, t, iata)
  <1> DEFINE history == {v \in s.iataHistory : v.lastSeen > t - day}
             known   == \E v \in history : v.iata = iata
             here    == [iata |-> iata, lastSeen |-> t]
             cleaned == [s EXCEPT !.iataHistory = history]
             changes == Cardinality(history) + 1
             again   == SeenAgain(history, iata, t)
             more    == history \union {here}
             first   == [cleaned EXCEPT !.currentIata = iata, !.iataHistory = more]
             seen    == [cleaned EXCEPT !.currentIata = iata, !.iataHistory = again]
             tooMany == [cleaned EXCEPT !.iataChangeCount24h = changes]
             moved   == [cleaned EXCEPT !.iataChangeCount24h = changes,
                                        !.currentIata = iata, !.iataHistory = more]
             r       == CheckIataChange(s, t, iata)
             Kept(q) == /\ q \in ClientTrustState /\ IsFiniteSet(q.iataHistory)
                        /\ Harder(q, s) /\ SameBucket(q, s) /\ SameRate(q, s)
                        /\ SameDuplicates(q, s) /\ SameTotal(q, s)
  <1>1. history \in SUBSET IataVisit /\ IsFiniteSet(history)
    <2>1. history \subseteq s.iataHistory
      OBVIOUS
    <2> QED
      BY <2>1, FS_Subset DEF ClientTrustState
  <1>2. changes \in Nat
    BY <1>1, FS_CardinalityType
  <1>3. again \in SUBSET IataVisit /\ IsFiniteSet(again)
    BY <1>1, SeenAgainType
  <1>4. more \in SUBSET IataVisit /\ IsFiniteSet(more)
    <2>1. here \in IataVisit
      BY DEF IataVisit
    <2> QED
      BY <1>1, <2>1, FS_AddElement
  <1>5. r = IF s.currentIata = NoIata THEN first
            ELSE IF s.currentIata = iata \/ known THEN seen
            ELSE IF changes > maxIataChanges24h THEN MuteClient(tooMany)
            ELSE moved
    <2>1. cleaned.iataHistory = history
      BY DEF ClientTrustState
    <2> HIDE DEF history
    <2> QED
      BY <2>1 DEF CheckIataChange, history
  <1> HIDE DEF history, known, changes, again, more, r
  <1> DEFINE Same(q) == /\ SameJudgement(q, s) /\ SameBucket(q, s) /\ SameRate(q, s)
                        /\ SameDuplicates(q, s) /\ SameTotal(q, s)
  <1>6. Kept(first) /\ Kept(seen) /\ Kept(moved) /\ Kept(tooMany)
    <2>1. cleaned \in ClientTrustState /\ cleaned.iataHistory = history /\ Same(cleaned)
      BY <1>1 DEF ClientTrustState, SameJudgement, SameBucket, SameRate,
                  SameDuplicates, SameTotal
    <2> HIDE DEF cleaned
    <2>2. first \in ClientTrustState /\ first.iataHistory = more /\ Same(first)
      BY <1>4, <2>1 DEF ClientTrustState, SameJudgement, SameBucket, SameRate,
                        SameDuplicates, SameTotal
    <2>3. seen \in ClientTrustState /\ seen.iataHistory = again /\ Same(seen)
      BY <1>3, <2>1 DEF ClientTrustState, SameJudgement, SameBucket, SameRate,
                        SameDuplicates, SameTotal
    <2>4. moved \in ClientTrustState /\ moved.iataHistory = more /\ Same(moved)
      BY <1>2, <1>4, <2>1 DEF ClientTrustState, SameJudgement, SameBucket, SameRate,
                        SameDuplicates, SameTotal
    <2>5. tooMany \in ClientTrustState /\ tooMany.iataHistory = history /\ Same(tooMany)
      BY <1>2, <2>1 DEF ClientTrustState, SameJudgement, SameBucket, SameRate,
                        SameDuplicates, SameTotal
    <2>6. s.anomalyCount \in Nat
      BY DEF ClientTrustState
    <2> HIDE DEF first, seen, moved, tooMany
    <2>7. Harder(first, s) /\ Harder(seen, s) /\ Harder(moved, s) /\ Harder(tooMany, s)
      BY <2>2, <2>3, <2>4, <2>5, <2>6 DEF Harder, Enforced, SameJudgement
    <2> QED
      BY <1>1, <1>3, <1>4, <2>2, <2>3, <2>4, <2>5, <2>7
  <1> HIDE DEF cleaned, first, seen, moved, tooMany
  <1> DEFINE m == MuteClient(tooMany)
  <1>7. Kept(m)
    <2>1. /\ m \in ClientTrustState
          /\ Harder(m, tooMany) /\ SameBucket(m, tooMany) /\ SameRate(m, tooMany)
          /\ SameDuplicates(m, tooMany) /\ SameLocations(m, tooMany) /\ SameTotal(m, tooMany)
      BY <1>6, MuteClientEffect
    <2>2. /\ s.anomalyCount \in Nat /\ tooMany.anomalyCount \in Nat
          /\ m.anomalyCount \in Nat
      BY <1>6, <2>1 DEF ClientTrustState
    <2> HIDE DEF m
    <2>3. Harder(m, s)
      BY <1>6, <2>1, <2>2 DEF Harder
    <2> QED
      BY <1>6, <2>1, <2>3 DEF SameBucket, SameRate, SameDuplicates, SameLocations, SameTotal
  <1> HIDE DEF Kept
  <1>8. Kept(r)
    BY <1>5, <1>6, <1>7
  <1>9. Located(r, s, t, iata)
    <2>1. /\ s.currentIata = NoIata => r = first
          /\ s.currentIata # NoIata => \/ r = seen
                                       \/ r = m
                                       \/ r = moved /\ ~known /\ ~(changes > maxIataChanges24h)
      BY <1>5 DEF m
    <2>2. cleaned \in ClientTrustState /\ cleaned.currentIata = s.currentIata
          /\ cleaned.iataHistory = history
      BY <1>1 DEF cleaned, ClientTrustState
    <2>3. /\ first.currentIata = iata /\ first.iataHistory = more
          /\ seen.currentIata = iata /\ seen.iataHistory = again
          /\ moved.currentIata = iata /\ moved.iataHistory = more
          /\ tooMany.currentIata = s.currentIata /\ tooMany.iataHistory = history
      BY <2>2 DEF first, seen, moved, tooMany, ClientTrustState
    <2>4. m.currentIata = s.currentIata /\ m.iataHistory = history
      BY <1>6, <2>3, MuteClientEffect DEF m, Kept, SameLocations
    <2>5. history = FreshVisits(s, t)
      BY DEF history, FreshVisits
    <2>6. ~(changes > maxIataChanges24h) => Cardinality(history) + 1 <= maxIataChanges24h
      BY <1>2, TrustAssumption DEF changes
    <2>7. ~known => \A v \in history : v.iata # iata
      BY DEF known
    <2> HIDE DEF m
    <2> QED
      BY <2>1, <2>3, <2>4, <2>5, <2>6, <2>7 DEF Located, more, again
  <1> QED
    BY <1>8, <1>9 DEF Kept, r

(* Whether there is a token depends on the bucket alone.                   *)
LEMMA BucketDecides ==
    ASSUME NEW s \in ClientTrustState, NEW r \in ClientTrustState, NEW t \in Nat,
           SameBucket(r, s)
    PROVE  CheckRateLimit(r, t).ok = CheckRateLimit(s, t).ok
  <1> DEFINE tokens(q) == Lesser(bucketCapacity,
                                q.tokens + (t - q.lastRefill) * bucketRefillRate)
  <1>1. ASSUME NEW q \in ClientTrustState
        PROVE  CheckRateLimit(q, t).ok = ~(tokens(q) < tokenCost)
    <2>1. Refilled(q, t) = [q EXCEPT !.tokens = tokens(q), !.lastRefill = t]
      BY DEF Refilled
    <2> HIDE DEF tokens
    <2>2. Refilled(q, t).tokens = tokens(q)
      BY <2>1 DEF ClientTrustState
    <2> QED
      BY <2>2 DEF CheckRateLimit
  <1>2. tokens(r) = tokens(s)
    BY DEF SameBucket
  <1> HIDE DEF tokens
  <1> QED
    BY <1>1, <1>2

(* recordPacket: with a token the packet is compared, without one it mutes.*)
LEMMA RecordPacketEffect ==
    ASSUME NEW s \in ClientTrustState, NEW t \in Nat, NEW p \in Payloads,
           s.lastRefill <= t
    PROVE  LET r  == RecordPacket(s, t, p)
               ok == CheckRateLimit(s, t).ok
           IN  /\ r \in ClientTrustState
               /\ r.totalPacketsReceived = s.totalPacketsReceived + 1
               /\ Harder(r, s) /\ SameLocations(r, s)
               /\ r.lastRefill = t
               /\ r.tokens + (IF ok THEN tokenCost ELSE 0)
                    <= s.tokens + (t - s.lastRefill) * bucketRefillRate
               /\ s.window.duplicates <= s.window.total
                    => r.window.duplicates <= r.window.total
               /\ ~ok => SameDuplicates(r, s)
               /\ ok => Compared(r, s, t, p)
  <1> DEFINE counted  == [s EXCEPT !.totalPacketsReceived = @ + 1]
             observed == ObserveRate(counted, t)
             sized    == IF p \in Oversized THEN RecordAnomaly(observed) ELSE observed
             limited  == CheckRateLimit(sized, t)
             spent    == limited.state
             compared == CheckDuplicates(spent, t, p)
             muted    == MuteClient(spent)
             r        == RecordPacket(s, t, p)
  <1>1. counted \in ClientTrustState
    <2>1. s.totalPacketsReceived + 1 \in Nat
      BY DEF ClientTrustState
    <2> QED
      BY <2>1 DEF ClientTrustState
  <1>2. /\ counted.totalPacketsReceived = s.totalPacketsReceived + 1
        /\ SameJudgement(counted, s) /\ SameBucket(counted, s)
        /\ SameDuplicates(counted, s) /\ SameLocations(counted, s)
    BY DEF ClientTrustState, SameJudgement, SameBucket, SameDuplicates, SameLocations
  <1>3. r = IF limited.ok THEN compared ELSE muted
    BY DEF RecordPacket
  <1> HIDE DEF counted, r
  <1>4. /\ observed \in ClientTrustState
        /\ SameJudgement(observed, counted) /\ SameBucket(observed, counted)
        /\ SameDuplicates(observed, counted) /\ SameLocations(observed, counted)
        /\ SameTotal(observed, counted)
    BY <1>1, ObserveRateEffect
  <1> HIDE DEF observed
  <1>5. /\ sized \in ClientTrustState
        /\ Harder(sized, observed) /\ SameBucket(sized, observed)
        /\ SameDuplicates(sized, observed) /\ SameLocations(sized, observed)
        /\ SameTotal(sized, observed)
    <2>1. CASE p \in Oversized
      BY <1>4, <2>1, RecordAnomalyEffect
    <2>2. CASE p \notin Oversized
      <3>1. sized = observed /\ observed.anomalyCount \in Nat
        BY <1>4, <2>2 DEF ClientTrustState
      <3> HIDE DEF sized
      <3> QED
        BY <1>4, <3>1 DEF Harder, SameBucket, SameDuplicates, SameLocations, SameTotal
    <2> QED
      BY <2>1, <2>2
  <1> HIDE DEF sized
  <1>6. /\ s.anomalyCount \in Nat /\ observed.anomalyCount \in Nat
        /\ sized.anomalyCount \in Nat
    BY <1>4, <1>5 DEF ClientTrustState
  <1>7. /\ Harder(sized, s) /\ SameBucket(sized, s) /\ SameDuplicates(sized, s)
        /\ SameLocations(sized, s)
        /\ sized.totalPacketsReceived = s.totalPacketsReceived + 1
    BY <1>2, <1>4, <1>5, <1>6 DEF Harder, Enforced, SameJudgement, SameBucket,
                                  SameDuplicates, SameLocations, SameTotal
  <1>8. /\ limited.ok \in BOOLEAN
        /\ spent \in ClientTrustState
        /\ spent.lastRefill = t
        /\ spent.tokens + (IF limited.ok THEN tokenCost ELSE 0)
             <= s.tokens + (t - s.lastRefill) * bucketRefillRate
        /\ SameJudgement(spent, sized)
        /\ SameDuplicates(spent, sized) /\ SameLocations(spent, sized)
        /\ SameTotal(spent, sized)
    <2>1. sized.lastRefill <= t /\ sized.tokens = s.tokens /\ sized.lastRefill = s.lastRefill
      BY <1>7 DEF SameBucket
    <2> QED
      BY <1>5, <2>1, CheckRateLimitEffect
  <1>9. limited.ok = CheckRateLimit(s, t).ok
    BY <1>5, <1>7, BucketDecides
  <1> HIDE DEF limited
  <1>10. CASE ~limited.ok
    <2>1. /\ r \in ClientTrustState
          /\ Harder(r, spent) /\ SameBucket(r, spent)
          /\ SameDuplicates(r, spent) /\ SameLocations(r, spent) /\ SameTotal(r, spent)
      BY <1>3, <1>8, <1>10, MuteClientEffect
    <2> HIDE DEF spent
    <2>2. r.anomalyCount \in Nat /\ spent.anomalyCount \in Nat
      BY <1>8, <2>1 DEF ClientTrustState
    <2>3. Harder(r, s)
      BY <1>6, <1>7, <1>8, <2>1, <2>2 DEF Harder, Enforced, SameJudgement
    <2>4. /\ SameDuplicates(r, s) /\ SameLocations(r, s)
          /\ r.totalPacketsReceived = s.totalPacketsReceived + 1
          /\ r.lastRefill = t /\ r.tokens = spent.tokens
      BY <1>7, <1>8, <2>1 DEF SameBucket, SameDuplicates, SameLocations, SameTotal
    <2> QED
      BY <1>8, <1>9, <1>10, <2>1, <2>3, <2>4 DEF r, SameDuplicates
  <1>11. CASE limited.ok
    <2>1. /\ r \in ClientTrustState
          /\ Harder(r, spent) /\ SameBucket(r, spent)
          /\ SameLocations(r, spent) /\ SameTotal(r, spent)
          /\ spent.window.duplicates <= spent.window.total
               => r.window.duplicates <= r.window.total
          /\ Compared(r, spent, t, p)
      BY <1>3, <1>8, <1>11, CheckDuplicatesEffect
    <2> HIDE DEF spent
    <2>2. r.anomalyCount \in Nat /\ spent.anomalyCount \in Nat
      BY <1>8, <2>1 DEF ClientTrustState
    <2>3. Harder(r, s)
      BY <1>6, <1>7, <1>8, <2>1, <2>2 DEF Harder, Enforced, SameJudgement
    <2>4. /\ SameLocations(r, s)
          /\ r.totalPacketsReceived = s.totalPacketsReceived + 1
          /\ r.lastRefill = t /\ r.tokens = spent.tokens
      BY <1>7, <1>8, <2>1 DEF SameBucket, SameLocations, SameTotal
    <2>5. SameDuplicates(spent, s)
      BY <1>7, <1>8 DEF SameDuplicates
    <2>6. Compared(r, s, t, p)
      BY <2>1, <2>5 DEF Compared, FreshHashes, SameDuplicates
    <2> QED
      BY <1>8, <1>9, <1>11, <2>1, <2>3, <2>4, <2>5, <2>6 DEF r, SameDuplicates
  <1> QED
    BY <1>8, <1>10, <1>11

=============================================================================
