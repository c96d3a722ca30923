--------------------------- MODULE LimiterProofs ---------------------------
(***************************************************************************)
(* Proofs about the limiter of the broker (RateLimiterAudit), for any      *)
(* addresses, every threshold of at least two and every window and block   *)
(* length; and about the Go port beside it (GoLimiter), for any goroutines *)
(* and blocks at least as long as windows.                                 *)
(***************************************************************************)
EXTENDS GoLimiter, SequenceTheorems, TLAPS

(* What the limiter's records always look like: an absent record is empty, *)
(* and no window begins in the future.                                     *)
RecordShape ==
    \A ip \in IPs :
        /\ failedConnectionsByIP[ip].count = 0 =>
              failedConnectionsByIP[ip] = NoRecord
        /\ failedConnectionsByIP[ip].firstFailure <= now

(* RecordMatchesHistory and BlockEarned for one address with record r and  *)
(* history h.                                                              *)
Matches(r, h) ==
    /\ r.count <= Len(h)
    /\ \A i \in (Len(h) - r.count + 1)..Len(h) :
          /\ r.firstFailure <= h[i]
          /\ h[i] - r.firstFailure <= windowMs
    /\ r.count >= maxFailedConnections => r.blockedUntil # 0

Earned(r, h) ==
    r.blockedUntil # 0 =>
        \E last \in maxFailedConnections..Len(h) :
            LET first == last - maxFailedConnections + 1
            IN  /\ h[last] + blockDurationMs = r.blockedUntil
                /\ h[last] - h[first] <= windowMs

(* The inductive invariant.                                                *)
IInv ==
    /\ TypeOK
    /\ RecordShape
    /\ RecordMatchesHistory
    /\ BlockEarned

----------------------------------------------------------------------------
(* The record isBlocked leaves is a record; so is that of recordFailure.   *)
LEMMA RecordTypes ==
    ASSUME NEW r \in RateLimitRecord, NEW t \in Nat
    PROVE  /\ AfterCheck(r, t) \in RateLimitRecord
           /\ AfterFailure(r, t) \in RateLimitRecord
  <1>1. NoRecord \in RateLimitRecord
    BY DEF NoRecord, RateLimitRecord
  <1>2. AfterCheck(r, t) \in RateLimitRecord
    BY <1>1 DEF AfterCheck
  <1>3. FirstFailureRecord(t) \in RateLimitRecord
    BY DEF FirstFailureRecord, RateLimitRecord
  <1>4. CountFailure(r, t) \in RateLimitRecord
    <2>1. r.count + 1 \in Nat /\ t + blockDurationMs \in Nat
      BY LimiterAssumption DEF RateLimitRecord
    <2> QED
      BY <2>1 DEF CountFailure, RateLimitRecord
  <1> QED
    BY <1>2, <1>3, <1>4 DEF AfterFailure

(* Type correctness: the map holds records, the histories times.           *)
LEMMA TypeStep == TypeOK /\ [Next]_vars => TypeOK'
  <1> SUFFICES ASSUME TypeOK, [Next]_vars
               PROVE  TypeOK'
    OBVIOUS
  <1> USE DEF TypeOK, RLTypeOK
  <1>1. CASE \E ip \in IPs : Check(ip)
    BY <1>1, RecordTypes DEF Check, IsBlocked
  <1>2. CASE \E ip \in IPs : Fail(ip)
    BY <1>2, RecordTypes DEF Fail, RecordFailure
  <1>3. CASE Advance
    BY <1>3 DEF Advance, Tick
  <1>4. CASE UNCHANGED vars
    BY <1>4 DEF vars
  <1> QED
    BY <1>1, <1>2, <1>3, <1>4 DEF Next

(* Type correctness of the audited limiter (rate-limiter.ts:5-25): counts  *)
(* and times stay naturals, whatever the order of the calls.               *)
THEOREM TypeCorrect == Spec => []TypeOK
  <1>1. Init => TypeOK
    BY DEF Init, TypeOK, RLTypeOK, NoRecord, RateLimitRecord
  <1> QED
    BY <1>1, TypeStep, PTL DEF Spec

----------------------------------------------------------------------------
(* One failure more in the history, one more in the record.                *)
LEMMA FailureMatches ==
    ASSUME NEW r \in RateLimitRecord, NEW h \in Seq(Nat), NEW t \in Nat,
           r.count = 0 => r = NoRecord,
           r.firstFailure <= t,
           Matches(r, h)
    PROVE  Matches(AfterFailure(r, t), Append(h, t))
  <1> DEFINE s == AfterFailure(r, t)
             g == Append(h, t)
  <1>1. /\ Len(g) = Len(h) + 1
        /\ g[Len(h) + 1] = t
        /\ \A i \in 1..Len(h) : g[i] = h[i]
    OBVIOUS
  <1> HIDE DEF g
  <1>2. CASE r.count = 0 \/ ExpiredAt(r, t)
    <2>1. s = FirstFailureRecord(t)
      BY <1>2 DEF AfterFailure
    <2>2. s.count = 1 /\ s.firstFailure = t /\ s.blockedUntil = 0
      BY <2>1 DEF FirstFailureRecord
    <2> QED
      BY <1>1, <2>2, LimiterAssumption DEF Matches
  <1>3. CASE ~(r.count = 0 \/ ExpiredAt(r, t))
    <2>1. s = CountFailure(r, t)
      BY <1>3 DEF AfterFailure
    <2>2. /\ s.count = r.count + 1
          /\ s.firstFailure = r.firstFailure
          /\ s.blockedUntil = IF r.count + 1 >= maxFailedConnections
                                    /\ r.blockedUntil = 0
                              THEN t + blockDurationMs
                              ELSE r.blockedUntil
      BY <2>1 DEF CountFailure
    <2>3. t - r.firstFailure <= windowMs
      BY <1>3, LimiterAssumption DEF ExpiredAt, RateLimitRecord
    <2>4. s.count >= maxFailedConnections => s.blockedUntil # 0
      BY <2>2, LimiterAssumption DEF RateLimitRecord
    <2>5. s.count <= Len(g)
      BY <1>1, <2>2 DEF Matches, RateLimitRecord
    <2>6. ASSUME NEW i \in (Len(g) - s.count + 1)..Len(g)
          PROVE  s.firstFailure <= g[i] /\ g[i] - s.firstFailure <= windowMs
      <3>1. Len(h) \in Nat /\ r.count \in Nat /\ r.count <= Len(h)
        BY DEF Matches, RateLimitRecord
      <3>2. CASE i = Len(h) + 1
        BY <1>1, <2>2, <2>3, <3>2
      <3>3. CASE i # Len(h) + 1
        <4>1. i \in (Len(h) - r.count + 1)..Len(h) /\ i \in 1..Len(h)
          BY <1>1, <2>2, <3>1, <3>3
        <4> QED
          BY <1>1, <2>2, <4>1 DEF Matches
      <3> QED
        BY <3>2, <3>3
    <2> QED
      BY <2>4, <2>5, <2>6 DEF Matches, g
  <1> QED
    BY <1>2, <1>3

(* A block that one failure more leaves behind was earned.                 *)
LEMMA FailureEarned ==
    ASSUME NEW r \in RateLimitRecord, NEW h \in Seq(Nat), NEW t \in Nat,
           r.firstFailure <= t,
           Matches(r, h),
           Earned(r, h)
    PROVE  Earned(AfterFailure(r, t), Append(h, t))
  <1> DEFINE s == AfterFailure(r, t)
             g == Append(h, t)
             m == maxFailedConnections
  <1>1. /\ Len(g) = Len(h) + 1
        /\ g[Len(h) + 1] = t
        /\ \A i \in 1..Len(h) : g[i] = h[i]
        /\ Len(h) \in Nat
    OBVIOUS
  <1> HIDE DEF g
  <1>2. m \in Nat /\ m >= 2
    BY LimiterAssumption
  <1>3. CASE r.count = 0 \/ ExpiredAt(r, t)
    BY <1>3 DEF AfterFailure, FirstFailureRecord, Earned
  <1>4. CASE ~(r.count = 0 \/ ExpiredAt(r, t))
    <2>1. s = CountFailure(r, t)
      BY <1>4 DEF AfterFailure
    <2>2. CASE r.count + 1 >= m /\ r.blockedUntil = 0
      \* The block is set now: the record counted m - 1 failures.
      <3>1. s.blockedUntil = t + blockDurationMs
        BY <2>1, <2>2 DEF CountFailure
      <3>2. r.count = m - 1 /\ r.count <= Len(h)
        BY <1>2, <2>2 DEF Matches, RateLimitRecord
      <3> DEFINE last == Len(h) + 1
                 first == last - m + 1
      <3>3. last \in m..Len(g)
        BY <1>1, <1>2, <3>2
      <3>4. first \in (Len(h) - r.count + 1)..Len(h) /\ first \in 1..Len(h)
        BY <1>1, <1>2, <3>2
      <3>5. r.firstFailure <= g[first] /\ g[first] \in Nat
        BY <1>1, <3>4, ElementOfSeq DEF Matches
      <3>6. t - r.firstFailure <= windowMs
        BY <1>4, LimiterAssumption DEF ExpiredAt, RateLimitRecord
      <3>7. g[last] - g[first] <= windowMs
        BY <1>1, <3>5, <3>6, LimiterAssumption DEF RateLimitRecord
      <3>8. g[last] + blockDurationMs = s.blockedUntil
        BY <1>1, <3>1
      <3> HIDE DEF s
      <3> QED
        BY <3>3, <3>7, <3>8 DEF Earned, g, s
    <2>3. CASE ~(r.count + 1 >= m /\ r.blockedUntil = 0)
      \* The block, if any, is the old one, and the history only grew.
      <3>1. s.blockedUntil = r.blockedUntil
        BY <2>1, <2>3 DEF CountFailure
      <3> HIDE DEF s
      <3>2. ASSUME s.blockedUntil # 0
            PROVE  \E last \in m..Len(g) :
                      /\ g[last] + blockDurationMs = s.blockedUntil
                      /\ g[last] - g[last - m + 1] <= windowMs
        <4>1. PICK last \in m..Len(h) :
                  /\ h[last] + blockDurationMs = r.blockedUntil
                  /\ h[last] - h[last - m + 1] <= windowMs
          BY <3>1, <3>2 DEF Earned
        <4>2. /\ last \in 1..Len(h) /\ last - m + 1 \in 1..Len(h)
              /\ last \in m..Len(g)
          BY <1>1, <1>2
        <4> QED
          BY <1>1, <3>1, <4>1, <4>2
      <3> QED
        BY <3>2 DEF Earned, g, s
    <2> QED
      BY <2>2, <2>3
  <1> QED
    BY <1>3, <1>4

(* The invariant holds at the start and every step keeps it.               *)
LEMMA IInvInit == Init => IInv
  BY LimiterAssumption
  DEF Init, IInv, TypeOK, RLTypeOK, RecordShape, RecordMatchesHistory,
      BlockEarned, NoRecord, RateLimitRecord

LEMMA IInvStep == IInv /\ [Next]_vars => IInv'
  <1> SUFFICES ASSUME IInv, [Next]_vars
               PROVE  IInv'
    OBVIOUS
  <1>1. TypeOK /\ TypeOK'
    BY TypeStep DEF IInv
  <1>2. ASSUME NEW ip \in IPs
        PROVE  /\ Matches(failedConnectionsByIP[ip], failures[ip])
               /\ Earned(failedConnectionsByIP[ip], failures[ip])
    BY DEF IInv, RecordMatchesHistory, BlockEarned, Matches, Earned
  <1>3. SUFFICES ASSUME NEW ip \in IPs
                 PROVE
                    LET r == failedConnectionsByIP'[ip]
                        h == failures'[ip]
                    IN  /\ r.count = 0 => r = NoRecord
                        /\ r.firstFailure <= now'
                        /\ Matches(r, h)
                        /\ Earned(r, h)
    BY <1>1 DEF IInv, RecordShape, RecordMatchesHistory, BlockEarned,
                Matches, Earned
  <1> DEFINE r == failedConnectionsByIP[ip]
             h == failures[ip]
  <1>4. /\ now \in Nat /\ r \in RateLimitRecord /\ h \in Seq(Nat)
        /\ r.count = 0 => r = NoRecord
        /\ r.firstFailure <= now
        /\ Matches(r, h) /\ Earned(r, h)
    BY <1>1, <1>2 DEF TypeOK, RLTypeOK, IInv, RecordShape
  <1>5. CASE /\ failedConnectionsByIP'[ip] = r /\ failures'[ip] = h
             /\ now' \in Nat /\ now <= now'
    BY <1>4, <1>5 DEF RateLimitRecord
  <1>6. ASSUME NEW a \in IPs, Check(a)
        PROVE  /\ failures'[ip] = h /\ now' = now
               /\ failedConnectionsByIP'[ip]
                     = IF ip = a THEN AfterCheck(r, now) ELSE r
    BY <1>1, <1>6 DEF Check, IsBlocked, TypeOK, RLTypeOK
  <1>7. CASE \E a \in IPs : Check(a)
    <2>1. PICK a \in IPs : Check(a)
      BY <1>7
    <2>2. CASE failedConnectionsByIP'[ip] = r
      BY <1>4, <1>5, <1>6, <2>1, <2>2
    <2>3. CASE failedConnectionsByIP'[ip] = NoRecord
      <3>1. Matches(NoRecord, h)
        BY <1>4, LimiterAssumption DEF Matches, NoRecord
      <3>2. Earned(NoRecord, h)
        BY DEF Earned, NoRecord
      <3> QED
        BY <1>4, <1>6, <2>1, <2>3, <3>1, <3>2 DEF NoRecord
    <2> QED
      BY <1>6, <2>1, <2>2, <2>3 DEF AfterCheck
  <1>8. ASSUME NEW a \in IPs, Fail(a)
        PROVE  /\ now' = now
               /\ failures'[ip] = IF ip = a THEN Append(h, now) ELSE h
               /\ failedConnectionsByIP'[ip]
                     = IF ip = a THEN AfterFailure(r, now) ELSE r
    BY <1>1, <1>8 DEF Fail, RecordFailure, TypeOK, RLTypeOK
  <1>9. CASE \E a \in IPs : Fail(a)
    <2>1. PICK a \in IPs : Fail(a)
      BY <1>9
    <2>2. CASE ip # a
      BY <1>4, <1>5, <1>8, <2>1, <2>2
    <2>3. CASE ip = a
      <3>1. Matches(AfterFailure(r, now), Append(h, now))
        BY <1>4, FailureMatches
      <3>2. Earned(AfterFailure(r, now), Append(h, now))
        BY <1>4, FailureEarned
      <3>3. AfterFailure(r, now).count # 0
        BY <1>4 DEF AfterFailure, FirstFailureRecord, CountFailure,
                    RateLimitRecord
      <3>4. AfterFailure(r, now).firstFailure <= now
        BY <1>4 DEF AfterFailure, FirstFailureRecord, CountFailure,
                    RateLimitRecord
      <3> QED
        BY <1>8, <2>1, <2>3, <3>1, <3>2, <3>3, <3>4
    <2> QED
      BY <2>2, <2>3
  <1>10. CASE Advance
    BY <1>4, <1>5, <1>10 DEF Advance, Tick
  <1>11. CASE UNCHANGED vars
    BY <1>4, <1>5, <1>11 DEF vars
  <1> QED
    BY <1>7, <1>9, <1>10, <1>11 DEF Next

LEMMA IInvHolds == Spec => []IInv
  BY IInvInit, IInvStep, PTL DEF Spec

----------------------------------------------------------------------------
(* A block is earned: whenever the limiter blocks an address, the address  *)
(* really failed maxFailedConnections times within one window, the last    *)
(* time when the block began.                                              *)
THEOREM BlocksAreEarned == Spec => []BlockEarned
  <1>1. IInv => BlockEarned
    BY DEF IInv
  <1> QED
    BY <1>1, IInvHolds, PTL

(* No free failures: a record counts exactly the latest failures of its    *)
(* address, all in its window, and blocks from the threshold on.           *)
THEOREM RecordsMatchHistory == Spec => []RecordMatchesHistory
  <1>1. IInv => RecordMatchesHistory
    BY DEF IInv
  <1> QED
    BY <1>1, IInvHolds, PTL

(* A block survives its window: only the end of the failure window lets    *)
(* anything change a block.                                                *)
THEOREM BlocksHoldInWindow == Spec => BlockHoldsInWindow
  <1> DEFINE A ==
        \A ip \in IPs :
            Blocked(ip) /\ ~ExpiredAt(failedConnectionsByIP[ip], now) =>
                failedConnectionsByIP'[ip].blockedUntil
                    = failedConnectionsByIP[ip].blockedUntil
  <1>1. IInv /\ [Next]_vars => [A]_vars
    <2> SUFFICES ASSUME IInv, [Next]_vars, NEW ip \in IPs,
                        Blocked(ip),
                        ~ExpiredAt(failedConnectionsByIP[ip], now)
                 PROVE  failedConnectionsByIP'[ip].blockedUntil
                            = failedConnectionsByIP[ip].blockedUntil
      OBVIOUS
    <2> DEFINE r == failedConnectionsByIP[ip]
    <2>1. /\ r \in RateLimitRecord
          /\ r.blockedUntil # 0
          /\ r.count # 0
      BY DEF IInv, TypeOK, RLTypeOK, RecordShape, Blocked, BlockedAt, NoRecord
    <2>2. CASE \E a \in IPs : Check(a)
      BY <2>2 DEF Check, IsBlocked, AfterCheck, Blocked, IInv, TypeOK, RLTypeOK
    <2>3. CASE \E a \in IPs : Fail(a)
      BY <2>1, <2>3
      DEF Fail, RecordFailure, AfterFailure, CountFailure, IInv, TypeOK, RLTypeOK
    <2>4. CASE Advance
      BY <2>4 DEF Advance
    <2>5. CASE UNCHANGED vars
      BY <2>5 DEF vars
    <2> QED
      BY <2>2, <2>3, <2>4, <2>5 DEF Next
  <1> QED
    BY <1>1, IInvHolds, PTL DEF Spec, BlockHoldsInWindow

(* Asking is free: isBlocked deletes only garbage.                         *)
THEOREM ChecksAreFree == Spec => CheckIsFree
  <1> DEFINE A ==
        \A ip \in IPs : Check(ip) =>
            \A t \in now..(now + windowMs + blockDurationMs) :
                /\ BlockedAt(failedConnectionsByIP'[ip], t)
                      <=> BlockedAt(failedConnectionsByIP[ip], t)
                /\ AfterFailure(failedConnectionsByIP'[ip], t)
                      = AfterFailure(failedConnectionsByIP[ip], t)
  <1>1. TypeOK /\ [Next]_vars => [A]_vars
    <2> SUFFICES ASSUME TypeOK, NEW ip \in IPs, Check(ip),
                        NEW t \in now..(now + windowMs + blockDurationMs)
                 PROVE  /\ BlockedAt(failedConnectionsByIP'[ip], t)
                              <=> BlockedAt(failedConnectionsByIP[ip], t)
                        /\ AfterFailure(failedConnectionsByIP'[ip], t)
                              = AfterFailure(failedConnectionsByIP[ip], t)
      OBVIOUS
    <2> DEFINE r == failedConnectionsByIP[ip]
    <2>1. /\ r \in RateLimitRecord
          /\ now \in Nat /\ t \in Int /\ t >= now
          /\ failedConnectionsByIP'[ip] = AfterCheck(r, now)
      BY LimiterAssumption DEF TypeOK, RLTypeOK, Check, IsBlocked
    <2>2. CASE ~BlockedAt(r, now) /\ ExpiredAt(r, now)
      <3>1. failedConnectionsByIP'[ip] = NoRecord
        BY <2>1, <2>2 DEF AfterCheck
      <3>2. ~BlockedAt(r, t) /\ ExpiredAt(r, t)
        BY <2>1, <2>2, LimiterAssumption
        DEF BlockedAt, ExpiredAt, RateLimitRecord
      <3> QED
        BY <3>1, <3>2 DEF BlockedAt, AfterFailure, NoRecord
    <2>3. CASE ~(~BlockedAt(r, now) /\ ExpiredAt(r, now))
      BY <2>1, <2>3 DEF AfterCheck
    <2> QED
      BY <2>2, <2>3
  <1> QED
    BY <1>1, TypeCorrect, PTL DEF Spec, CheckIsFree

----------------------------------------------------------------------------
(* A record as the limiters make them, at time n or before.                *)
Shaped(r, n) ==
    /\ r \in RateLimitRecord
    /\ r.count = 0 => r = NoRecord
    /\ r.firstFailure <= n
    /\ r.blockedUntil # 0 => r.blockedUntil >= r.firstFailure + windowMs

(* A record that neither blocks nor counts any more from time n on.        *)
Inert(r, n) == r = NoRecord \/ (ExpiredAt(r, n) /\ ~BlockedAt(r, n))

(* Two records nobody can tell apart: isBlocked and Cleanup forget a record*)
(* at different times, but only when it is inert.                          *)
Alike(go, ts, n) == go = ts \/ (Inert(go, n) /\ Inert(ts, n))

----------------------------------------------------------------------------
(* What the methods do with shaped and with like records.                  *)

LEMMA LimitsPositive ==
    /\ windowMs \in Nat /\ windowMs > 0
    /\ blockDurationMs \in Nat /\ blockDurationMs >= windowMs
    /\ blockDurationMs > 0
    /\ maxFailedConnections \in Nat /\ maxFailedConnections >= 2
  BY LimiterAssumption, PortAssumption

LEMMA NoRecordShaped == \A n \in Nat : Shaped(NoRecord, n) /\ Inert(NoRecord, n)
  BY DEF Shaped, Inert, NoRecord, RateLimitRecord

LEMMA ShapedLater ==
    ASSUME NEW n \in Nat, NEW t \in Nat, t >= n, NEW r, Shaped(r, n)
    PROVE  Shaped(r, t)
  BY DEF Shaped, RateLimitRecord

LEMMA AlikeLater ==
    ASSUME NEW n \in Nat, NEW t \in Nat, t >= n, NEW go, NEW ts,
           Shaped(go, n), Shaped(ts, n), Alike(go, ts, n)
    PROVE  Alike(go, ts, t)
  BY LimitsPositive DEF Alike, Inert, ExpiredAt, BlockedAt, Shaped, RateLimitRecord

LEMMA RecordForm ==
    ASSUME NEW r \in RateLimitRecord
    PROVE  r = [count |-> r.count, firstFailure |-> r.firstFailure,
                blockedUntil |-> r.blockedUntil]
  BY DEF RateLimitRecord

LEMMA RecordExcept ==
    ASSUME NEW r \in RateLimitRecord, NEW c \in Nat, NEW b \in Nat
    PROVE  [r EXCEPT !.count = c, !.blockedUntil = b]
             = [count |-> c, firstFailure |-> r.firstFailure, blockedUntil |-> b]
  <1> DEFINE e == [[r EXCEPT !.count = c] EXCEPT !.blockedUntil = b]
  <1>1. e \in RateLimitRecord
    BY DEF RateLimitRecord
  <1>2. e.count = c /\ e.firstFailure = r.firstFailure /\ e.blockedUntil = b
    BY DEF RateLimitRecord
  <1>3. e = [count |-> e.count, firstFailure |-> e.firstFailure,
             blockedUntil |-> e.blockedUntil]
    BY <1>1, RecordForm
  <1> QED
    BY <1>2, <1>3

LEMMA SameRecordSameAnswers ==
    ASSUME NEW n \in Nat, NEW r, Shaped(r, n)
    PROVE  /\ GoBlocked(r, n) <=> BlockedAt(r, n)
           /\ GoAfterFailure(r, n) = AfterFailure(r, n)
  <1>1. r \in RateLimitRecord
    BY DEF Shaped
  <1>2. r = NoRecord <=> r.count = 0
    BY DEF Shaped, NoRecord
  <1>3. CASE r.count = 0 \/ ExpiredAt(r, n)
    BY <1>2, <1>3 DEF GoBlocked, BlockedAt, GoAfterFailure, AfterFailure,
       GoWindowExpired, ExpiredAt, FirstFailureRecord
  <1>4. CASE ~(r.count = 0 \/ ExpiredAt(r, n))
    <2>1. /\ AfterFailure(r, n) = CountFailure(r, n)
          /\ ~(r = NoRecord \/ GoWindowExpired(r, n))
      BY <1>2, <1>4 DEF AfterFailure, ExpiredAt, GoWindowExpired
    <2> DEFINE b == IF r.count + 1 >= maxFailedConnections /\ r.blockedUntil = 0
                    THEN n + blockDurationMs
                    ELSE r.blockedUntil
    <2>2. GoAfterFailure(r, n) = [r EXCEPT !.count = r.count + 1, !.blockedUntil = b]
      BY <2>1, <1>1 DEF GoAfterFailure, RateLimitRecord
    <2>3. r.count + 1 \in Nat /\ b \in Nat
      BY <1>1, LimitsPositive DEF RateLimitRecord
    <2>4. GoAfterFailure(r, n) = CountFailure(r, n)
      BY <1>1, <2>2, <2>3, RecordExcept DEF CountFailure
    <2> QED
      BY <2>1, <2>4 DEF GoBlocked, BlockedAt
  <1> QED
    BY <1>3, <1>4

LEMMA InertAnswers ==
    ASSUME NEW n \in Nat, NEW r, Shaped(r, n), Inert(r, n)
    PROVE  /\ ~GoBlocked(r, n) /\ ~BlockedAt(r, n)
           /\ GoAfterFailure(r, n) = FirstFailureRecord(n)
           /\ AfterFailure(r, n) = FirstFailureRecord(n)
  BY DEF Inert, GoBlocked, BlockedAt, GoAfterFailure, AfterFailure, NoRecord,
     GoWindowExpired, ExpiredAt, FirstFailureRecord

(* Like records give the same answers, now and later.                      *)
LEMMA AlikeAnswers ==
    ASSUME NEW n \in Nat, NEW t \in Nat, t >= n, NEW go, NEW ts,
           Shaped(go, n), Shaped(ts, n), Alike(go, ts, n)
    PROVE  /\ GoBlocked(go, t) <=> BlockedAt(ts, t)
           /\ GoAfterFailure(go, t) = AfterFailure(ts, t)
  <1>1. Shaped(go, t) /\ Shaped(ts, t) /\ Alike(go, ts, t)
    BY ShapedLater, AlikeLater
  <1> QED
    BY <1>1, SameRecordSameAnswers, InertAnswers DEF Alike

LEMMA ShapedFailure ==
    ASSUME NEW n \in Nat, NEW r, Shaped(r, n)
    PROVE  Shaped(AfterFailure(r, n), n)
  <1>1. CASE r.count = 0 \/ ExpiredAt(r, n)
    BY <1>1 DEF AfterFailure, FirstFailureRecord, Shaped, RateLimitRecord, NoRecord
  <1>2. CASE ~(r.count = 0 \/ ExpiredAt(r, n))
    BY <1>2, LimitsPositive DEF AfterFailure, CountFailure, Shaped, RateLimitRecord, NoRecord
  <1> QED
    BY <1>1, <1>2

LEMMA AlikeCheck ==
    ASSUME NEW n \in Nat, NEW go, NEW ts,
           Shaped(go, n), Shaped(ts, n), Alike(go, ts, n)
    PROVE  /\ Shaped(AfterCheck(ts, n), n)
           /\ Alike(go, AfterCheck(ts, n), n)
  BY NoRecordShaped DEF AfterCheck, Alike, Inert

(* What Cleanup removes is inert, as a block that is over outlasted its    *)
(* window, and it stays inert until the write.                             *)
LEMMA AlikeCleanup ==
    ASSUME NEW n \in Nat, NEW at \in Nat, at <= n, NEW go, NEW ts,
           Shaped(go, n), Shaped(ts, n), Alike(go, ts, n)
    PROVE  /\ Shaped(GoAfterCleanup(go, at), n)
           /\ Alike(GoAfterCleanup(go, at), ts, n)
  <1>1. CASE GoAfterCleanup(go, at) = go
    BY <1>1
  <1>2. CASE GoAfterCleanup(go, at) # go
    <2>1. /\ GoAfterCleanup(go, at) = NoRecord
          /\ \/ GoWindowExpired(go, at) /\ go.blockedUntil = 0
             \/ go.blockedUntil # 0 /\ at > go.blockedUntil
      BY <1>2 DEF GoAfterCleanup
    <2>2. Inert(go, n)
      BY <2>1, LimitsPositive DEF Inert, ExpiredAt, BlockedAt, GoWindowExpired, Shaped,
         RateLimitRecord
    <2> QED
      BY <2>1, <2>2, NoRecordShaped DEF Alike
  <1> QED
    BY <1>1, <1>2

----------------------------------------------------------------------------
(* The inductive invariant.  PortAgrees is not inductive: it says nothing  *)
(* of what a goroutine has seen and is about to write.                     *)

(* A reader excludes writers, a writer everybody.                          *)
Exclusion ==
    \A g, h \in Goroutines :
        g # h /\ g \in Holders /\ h \in Holders => Reads(g) /\ Reads(h)

Looked(g) == task[g].step = "looked"

Records(g) == Looked(g) /\ task[g].call.op = "RecordFailure"

(* What a writer saw is still so.                                          *)
Current ==
    \A g \in Goroutines : Looked(g) =>
        /\ task[g].at <= now
        /\ ~Reads(g) => task[g].seen = goFailedConnectionsByIP

(* The failure that is about to be written is the one the TypeScript       *)
(* limiter has recorded.                                                   *)
Recorded ==
    \A g \in Goroutines : Records(g) =>
        failedConnectionsByIP[task[g].call.ip]
            = GoAfterFailure(task[g].seen[task[g].call.ip], task[g].at)

MapsShaped ==
    \A ip \in IPs : /\ Shaped(goFailedConnectionsByIP[ip], now)
                    /\ Shaped(failedConnectionsByIP[ip], now)

MapsAlike ==
    \A ip \in IPs :
        (\A g \in Goroutines : Records(g) => task[g].call.ip # ip) =>
            Alike(goFailedConnectionsByIP[ip], failedConnectionsByIP[ip], now)

GoIInv ==
    /\ RLTypeOK /\ GoTypeOK
    /\ Exclusion /\ Current /\ Recorded /\ MapsShaped /\ MapsAlike

LEMMA CallForms ==
    ASSUME NEW c \in Calls
    PROVE  /\ c.op \in {"IsBlocked", "RecordFailure", "Cleanup"}
           /\ c.op # "Cleanup" => c.ip \in IPs
  BY DEF Calls

LEMMA TaskForms ==
    ASSUME GoTypeOK, NEW g \in Goroutines
    PROVE  /\ task[g] = Idle \/ task[g].step \in {"waiting", "locked", "looked"}
           /\ task[g].step \in {"waiting", "locked", "looked"} => task[g].call \in Calls
           /\ Looked(g) => task[g].at \in Nat /\ task[g].seen \in [IPs -> RateLimitRecord]
  BY DEF GoTypeOK, Looked, Idle

(* A writer that has looked is alone.                                      *)
LEMMA WriterAlone ==
    ASSUME Exclusion, NEW g \in Goroutines, NEW h \in Goroutines, g # h,
           Looked(g), ~Reads(g)
    PROVE  ~(h \in Holders)
  BY DEF Exclusion, Holders, Looked

(* A goroutine that calls or acquires changes nothing the maps depend on.  *)
LEMMA BeforeLooking ==
    ASSUME GoIInv, NEW g \in Goroutines, ~Looked(g), task'[g].step # "looked",
           \A h \in Goroutines : h # g => task'[h] = task[h],
           UNCHANGED <<vars, goFailedConnectionsByIP>>
    PROVE  RLTypeOK' /\ Current' /\ Recorded' /\ MapsShaped' /\ MapsAlike'
  <1>1. UNCHANGED <<now, failedConnectionsByIP, goFailedConnectionsByIP>>
    BY DEF vars
  <1>2. \A h \in Goroutines : /\ Looked(h)' = Looked(h)
                              /\ Looked(h) => task'[h] = task[h]
    BY DEF Looked
  <1>3. RLTypeOK' /\ MapsShaped'
    BY <1>1 DEF GoIInv, RLTypeOK, MapsShaped
  <1>4. Current'
    BY <1>1, <1>2 DEF GoIInv, Current, Reads
  <1>5. \A h \in Goroutines : /\ Records(h)' = Records(h)
                              /\ Records(h) => task'[h] = task[h]
    BY <1>2 DEF Records
  <1>6. Recorded'
    BY <1>1, <1>5 DEF GoIInv, Recorded
  <1>7. MapsAlike'
    BY <1>1, <1>5 DEF GoIInv, MapsAlike
  <1> QED
    BY <1>3, <1>4, <1>6, <1>7

LEMMA CallStep ==
    ASSUME GoIInv, NEW g \in Goroutines, NEW c \in Calls, Call(g, c)
    PROVE  GoIInv'
  <1>1. /\ task' = [task EXCEPT ![g] = [step |-> "waiting", call |-> c]]
        /\ task[g] = Idle
        /\ UNCHANGED <<vars, goFailedConnectionsByIP>>
    BY DEF Call
  <1>2. GoTypeOK'
    BY <1>1 DEF GoIInv, GoTypeOK
  <1>3. /\ task'[g] = [step |-> "waiting", call |-> c]
        /\ \A h \in Goroutines : h # g => task'[h] = task[h]
    BY <1>1 DEF GoIInv, GoTypeOK
  <1>4. Exclusion'
    BY <1>3 DEF GoIInv, Exclusion, Holders, Reads
  <1>5. ~Looked(g) /\ task'[g].step # "looked"
    BY <1>1, <1>3 DEF Looked, Idle
  <1> QED
    BY <1>1, <1>2, <1>3, <1>4, <1>5, BeforeLooking DEF GoIInv

LEMMA AcquireStep ==
    ASSUME GoIInv, NEW g \in Goroutines, Acquire(g)
    PROVE  GoIInv'
  <1>1. /\ task' = [task EXCEPT ![g] = [step |-> "locked", call |-> task[g].call]]
        /\ task[g].step = "waiting" /\ MayLock(g)
        /\ UNCHANGED <<vars, goFailedConnectionsByIP>>
    BY DEF Acquire
  <1>2. task[g].call \in Calls
    BY <1>1, TaskForms DEF GoIInv
  <1>3. GoTypeOK'
    BY <1>1, <1>2 DEF GoIInv, GoTypeOK
  <1>4. /\ task'[g] = [step |-> "locked", call |-> task[g].call]
        /\ \A h \in Goroutines : h # g => task'[h] = task[h]
    BY <1>1 DEF GoIInv, GoTypeOK
  <1>5. Exclusion'
    BY <1>1, <1>4 DEF GoIInv, Exclusion, Holders, Reads, MayLock
  <1>6. ~Looked(g) /\ task'[g].step # "looked"
    BY <1>1, <1>4 DEF Looked
  <1> QED
    BY <1>1, <1>3, <1>4, <1>5, <1>6, BeforeLooking DEF GoIInv

(* A goroutine looks, and the TypeScript method is called.                 *)
LEMMA LookStep ==
    ASSUME GoIInv, NEW g \in Goroutines, Look(g)
    PROVE  GoIInv'
  <1> DEFINE c == task[g].call
  <1>1. /\ task[g].step = "locked"
        /\ task' = [task EXCEPT ![g] =
              [step |-> "looked", call |-> c, at |-> now,
               seen |-> goFailedConnectionsByIP]]
        /\ TypeScript(c)
        /\ UNCHANGED goFailedConnectionsByIP
    BY DEF Look
  <1>2. /\ c \in Calls /\ now \in Nat
        /\ goFailedConnectionsByIP \in [IPs -> RateLimitRecord]
        /\ failedConnectionsByIP \in [IPs -> RateLimitRecord]
    BY <1>1, TaskForms DEF GoIInv, GoTypeOK, RLTypeOK
  <1>3. GoTypeOK'
    BY <1>1, <1>2 DEF GoIInv, GoTypeOK
  <1>4. /\ task'[g] = [step |-> "looked", call |-> c, at |-> now,
                       seen |-> goFailedConnectionsByIP]
        /\ \A h \in Goroutines : h # g => task'[h] = task[h]
    BY <1>1 DEF GoIInv, GoTypeOK
  <1>5. Exclusion'
    BY <1>1, <1>4 DEF GoIInv, Exclusion, Holders, Reads
  <1>6. now' = now
    BY <1>1, <1>2, CallForms DEF TypeScript, Check, Fail, vars
  <1>7. Current'
    BY <1>1, <1>2, <1>4, <1>6 DEF GoIInv, Current, Looked, Reads
  <1>8. \A h \in Goroutines : Records(h) => h \in Holders /\ ~Reads(h)
    BY DEF Records, Looked, Holders, Reads
  <1>9. \A h \in Goroutines : ~Records(h)
    \* g holds the mutex: nobody else writes.
    BY <1>1, <1>8 DEF GoIInv, Exclusion, Holders, Records, Looked
  <1>10. \A h \in Goroutines : Records(h)' => h = g /\ c.op = "RecordFailure"
    BY <1>4, <1>9 DEF Records, Looked
  <1>11. \A ip \in IPs : /\ Shaped(goFailedConnectionsByIP[ip], now)
                         /\ Shaped(failedConnectionsByIP[ip], now)
                         /\ Alike(goFailedConnectionsByIP[ip],
                                  failedConnectionsByIP[ip], now)
    BY <1>9 DEF GoIInv, MapsShaped, MapsAlike
  <1>12. CASE c.op = "IsBlocked"
    <2>1. c.ip \in IPs /\ failedConnectionsByIP'
              = [failedConnectionsByIP EXCEPT ![c.ip] = AfterCheck(@, now)]
      BY <1>1, <1>2, <1>12, CallForms DEF TypeScript, Check, IsBlocked
    <2>2. \A ip \in IPs : /\ Shaped(failedConnectionsByIP'[ip], now)
                          /\ Alike(goFailedConnectionsByIP[ip],
                                   failedConnectionsByIP'[ip], now)
      BY <1>2, <1>11, <2>1, AlikeCheck
    <2>3. RLTypeOK' /\ MapsShaped' /\ MapsAlike'
      <3>1. \A ip \in IPs : failedConnectionsByIP'[ip] \in RateLimitRecord
        BY <2>2 DEF Shaped
      <3> QED
        BY <1>1, <1>2, <1>6, <1>11, <2>1, <2>2, <3>1 DEF RLTypeOK, MapsShaped, MapsAlike
    <2>4. Recorded'
      BY <1>10, <1>12 DEF Recorded
    <2> QED
      BY <1>3, <1>5, <1>7, <2>3, <2>4 DEF GoIInv
  <1>13. CASE c.op = "RecordFailure"
    <2>1. c.ip \in IPs /\ failedConnectionsByIP'
              = [failedConnectionsByIP EXCEPT ![c.ip] = AfterFailure(@, now)]
      BY <1>1, <1>2, <1>13, CallForms DEF TypeScript, Fail, RecordFailure
    <2>2. \A ip \in IPs : Shaped(failedConnectionsByIP'[ip], now)
      BY <1>2, <1>11, <2>1, ShapedFailure
    <2>3. RLTypeOK' /\ MapsShaped'
      <3>1. \A ip \in IPs : failedConnectionsByIP'[ip] \in RateLimitRecord
        BY <2>2 DEF Shaped
      <3> QED
        BY <1>1, <1>2, <1>6, <1>11, <2>1, <2>2, <3>1 DEF RLTypeOK, MapsShaped
    <2>4. failedConnectionsByIP'[c.ip] = GoAfterFailure(goFailedConnectionsByIP[c.ip], now)
      BY <1>2, <1>11, <2>1, AlikeAnswers
    <2>5. Recorded'
      BY <1>4, <1>10, <2>4 DEF Recorded
    <2>6. Records(g)' /\ task'[g].call = c
      BY <1>4, <1>13 DEF Records, Looked
    <2>7. \A ip \in IPs : ip # c.ip => failedConnectionsByIP'[ip] = failedConnectionsByIP[ip]
      BY <1>2, <2>1
    <2>8. MapsAlike'
      BY <1>1, <1>6, <1>11, <2>6, <2>7 DEF MapsAlike
    <2> QED
      BY <1>3, <1>5, <1>7, <2>3, <2>5, <2>8 DEF GoIInv
  <1>14. CASE c.op = "Cleanup"
    <2>1. UNCHANGED failedConnectionsByIP
      BY <1>1, <1>14 DEF TypeScript, vars
    <2>2. RLTypeOK' /\ MapsShaped' /\ MapsAlike'
      BY <1>1, <1>2, <1>6, <1>11, <2>1 DEF RLTypeOK, MapsShaped, MapsAlike
    <2>3. Recorded'
      BY <1>10, <1>14 DEF Recorded
    <2> QED
      BY <1>3, <1>5, <1>7, <2>2, <2>3 DEF GoIInv
  <1> QED
    BY <1>2, <1>12, <1>13, <1>14, CallForms

(* A goroutine returns: what it writes is what the TypeScript limiter has, *)
(* or what nobody can tell from it.                                        *)
LEMMA ReturnStep ==
    ASSUME GoIInv, NEW g \in Goroutines, Return(g)
    PROVE  GoIInv'
  <1> DEFINE c == task[g].call
             seen == task[g].seen
             at == task[g].at
  <1>1. /\ Looked(g)
        /\ task' = [task EXCEPT ![g] = Idle]
        /\ goFailedConnectionsByIP' =
              CASE c.op = "IsBlocked" -> goFailedConnectionsByIP
                [] c.op = "RecordFailure" ->
                      [goFailedConnectionsByIP EXCEPT ![c.ip] =
                          GoAfterFailure(seen[c.ip], at)]
                [] c.op = "Cleanup" -> [ip \in IPs |-> GoAfterCleanup(seen[ip], at)]
        /\ UNCHANGED <<now, failedConnectionsByIP>>
    BY DEF Return, Looked, vars
  <1>2. /\ c \in Calls /\ at \in Nat /\ at <= now /\ now \in Nat
        /\ goFailedConnectionsByIP \in [IPs -> RateLimitRecord]
        /\ failedConnectionsByIP \in [IPs -> RateLimitRecord]
    BY <1>1, TaskForms DEF GoIInv, GoTypeOK, RLTypeOK, Current, Looked
  <1>3. /\ task'[g] = Idle
        /\ \A h \in Goroutines : h # g => task'[h] = task[h]
    BY <1>1 DEF GoIInv, GoTypeOK
  <1>4. /\ task' \in [Goroutines ->
              {Idle} \union [step : {"waiting", "locked"}, call : Calls]
              \union [step : {"looked"}, call : Calls, at : Nat,
                      seen : [IPs -> RateLimitRecord]]]
        /\ Exclusion'
    <2>1. Exclusion'
      BY <1>3 DEF GoIInv, Exclusion, Holders, Reads, Idle
    <2> QED
      BY <1>1, <2>1 DEF GoIInv, GoTypeOK
  <1>5. /\ ~Looked(g)'
        /\ \A h \in Goroutines : h # g => /\ Looked(h)' = Looked(h)
                                         /\ Records(h)' = Records(h)
    BY <1>3 DEF Looked, Records, Idle
  <1>6. \A h \in Goroutines : Records(h) => Looked(h) /\ ~Reads(h)
    BY DEF Records, Reads
  <1>7. \A h \in Goroutines : Looked(h) => h \in Holders
    BY DEF Looked, Holders
  <1>8. Recorded'
    <2> SUFFICES ASSUME NEW h \in Goroutines, Records(h)'
                 PROVE  failedConnectionsByIP'[task'[h].call.ip]
                          = GoAfterFailure(task'[h].seen[task'[h].call.ip], task'[h].at)
      BY DEF Recorded
    <2>1. h # g
      BY <1>5 DEF Records
    <2> QED
      BY <1>1, <1>3, <1>5, <2>1 DEF GoIInv, Recorded
  <1>9. CASE c.op = "IsBlocked"
    <2>1. UNCHANGED goFailedConnectionsByIP
      BY <1>1, <1>9
    <2>2. RLTypeOK' /\ GoTypeOK' /\ MapsShaped'
      BY <1>1, <1>4, <2>1 DEF GoIInv, RLTypeOK, GoTypeOK, MapsShaped
    <2>3. Current'
      BY <1>1, <1>3, <1>5, <2>1 DEF GoIInv, Current, Reads
    <2>4. ~Records(g)
      BY <1>9 DEF Records
    <2>5. MapsAlike'
      BY <1>1, <1>3, <1>5, <2>1, <2>4 DEF GoIInv, MapsAlike
    <2> QED
      BY <1>4, <1>8, <2>2, <2>3, <2>5 DEF GoIInv
  <1>10. ASSUME ~Reads(g)
         PROVE  /\ seen = goFailedConnectionsByIP
                /\ \A h \in Goroutines : h # g => ~Looked(h) /\ ~Records(h)
                /\ Current'
    <2>1. seen = goFailedConnectionsByIP
      BY <1>1, <1>10 DEF GoIInv, Current
    <2>2. \A h \in Goroutines : h # g => ~Looked(h)
      BY <1>1, <1>7, <1>10, WriterAlone DEF GoIInv
    <2>3. Current'
      BY <1>5, <2>2 DEF Current
    <2> QED
      BY <1>6, <2>1, <2>2, <2>3
  <1>11. CASE c.op = "RecordFailure"
    <2>1. /\ Records(g) /\ ~Reads(g) /\ c.ip \in IPs
      BY <1>1, <1>2, <1>11, CallForms DEF Records, Reads
    <2>2. goFailedConnectionsByIP'
            = [goFailedConnectionsByIP EXCEPT ![c.ip] = failedConnectionsByIP[c.ip]]
      BY <1>1, <1>11, <2>1 DEF GoIInv, Recorded
    <2>3. goFailedConnectionsByIP' \in [IPs -> RateLimitRecord]
      BY <1>2, <2>1, <2>2
    <2>4. RLTypeOK' /\ GoTypeOK'
      BY <1>1, <1>4, <2>3 DEF GoIInv, RLTypeOK, GoTypeOK
    <2>5. MapsShaped'
      BY <1>1, <1>2, <2>1, <2>2 DEF GoIInv, MapsShaped
    <2>6. \A ip \in IPs : Alike(goFailedConnectionsByIP'[ip],
                                failedConnectionsByIP'[ip], now')
      <3> SUFFICES ASSUME NEW ip \in IPs
                   PROVE  Alike(goFailedConnectionsByIP'[ip],
                                failedConnectionsByIP'[ip], now')
        OBVIOUS
      <3>1. CASE ip = c.ip
        BY <1>1, <1>2, <2>2, <3>1 DEF Alike
      <3>2. CASE ip # c.ip
        <4>1. \A h \in Goroutines : Records(h) => task[h].call.ip # ip
          BY <1>10, <2>1, <3>2
        <4> QED
          BY <1>1, <1>2, <2>2, <3>2, <4>1 DEF GoIInv, MapsAlike
      <3> QED
        BY <3>1, <3>2
    <2>7. MapsAlike'
      BY <2>6 DEF MapsAlike
    <2> QED
      BY <1>4, <1>8, <1>10, <2>1, <2>4, <2>5, <2>7 DEF GoIInv
  <1>12. CASE c.op = "Cleanup"
    <2>1. ~Reads(g) /\ ~Records(g)
      BY <1>12 DEF Reads, Records
    <2>2. goFailedConnectionsByIP'
            = [ip \in IPs |-> GoAfterCleanup(goFailedConnectionsByIP[ip], at)]
      BY <1>1, <1>10, <1>12, <2>1
    <2>3. \A ip \in IPs : Alike(goFailedConnectionsByIP[ip], failedConnectionsByIP[ip], now)
      BY <1>10, <2>1 DEF GoIInv, MapsAlike
    <2>4. \A ip \in IPs :
            /\ Shaped(goFailedConnectionsByIP'[ip], now)
            /\ Shaped(failedConnectionsByIP[ip], now)
            /\ Alike(goFailedConnectionsByIP'[ip], failedConnectionsByIP[ip], now)
      BY <1>2, <2>2, <2>3, AlikeCleanup DEF GoIInv, MapsShaped
    <2>5. goFailedConnectionsByIP' \in [IPs -> RateLimitRecord]
      <3>1. \A ip \in IPs : goFailedConnectionsByIP'[ip] \in RateLimitRecord
        BY <2>4 DEF Shaped
      <3> QED
        BY <2>2, <3>1
    <2>6. RLTypeOK' /\ GoTypeOK'
      BY <1>1, <1>4, <2>5 DEF GoIInv, RLTypeOK, GoTypeOK
    <2>7. MapsShaped' /\ MapsAlike'
      BY <1>1, <2>4 DEF MapsShaped, MapsAlike
    <2> QED
      BY <1>4, <1>8, <1>10, <2>1, <2>6, <2>7 DEF GoIInv
  <1> QED
    BY <1>2, <1>9, <1>11, <1>12, CallForms

LEMMA AdvanceStep ==
    ASSUME GoIInv, GoAdvance
    PROVE  GoIInv'
  <1>1. /\ now' = now + 1 /\ now \in Nat
        /\ UNCHANGED <<failedConnectionsByIP, goFailedConnectionsByIP, task>>
    BY DEF GoAdvance, Advance, Tick, GoIInv, RLTypeOK
  <1>2. RLTypeOK' /\ GoTypeOK' /\ Exclusion'
    BY <1>1 DEF GoIInv, RLTypeOK, GoTypeOK, Exclusion, Holders, Reads
  <1>3. Recorded'
    BY <1>1 DEF GoIInv, Recorded, Records, Looked
  <1>4. \A h \in Goroutines : Looked(h) => task[h].at \in Nat
    BY TaskForms DEF GoIInv
  <1>5. Current'
    BY <1>1, <1>4 DEF GoIInv, Current, Looked, Reads
  <1>6. MapsShaped'
    BY <1>1, ShapedLater DEF GoIInv, MapsShaped
  <1>7. MapsAlike'
    BY <1>1, AlikeLater DEF GoIInv, MapsShaped, MapsAlike, Records, Looked
  <1> QED
    BY <1>2, <1>3, <1>5, <1>6, <1>7 DEF GoIInv

LEMMA GoInitIInv == GoInit => GoIInv
  <1> SUFFICES ASSUME GoInit PROVE GoIInv
    OBVIOUS
  <1>1. /\ now = 0
        /\ failedConnectionsByIP = [ip \in IPs |-> NoRecord]
        /\ goFailedConnectionsByIP = [ip \in IPs |-> NoRecord]
        /\ task = [g \in Goroutines |-> Idle]
    BY DEF GoInit, Init
  <1>2. RLTypeOK /\ GoTypeOK
    BY <1>1 DEF RLTypeOK, GoTypeOK, NoRecord, RateLimitRecord
  <1>3. \A g \in Goroutines : ~Looked(g) /\ ~Records(g) /\ ~(g \in Holders)
    BY <1>1 DEF Looked, Records, Holders, Idle
  <1>4. Exclusion /\ Current /\ Recorded
    BY <1>3 DEF Exclusion, Current, Recorded
  <1>5. MapsShaped /\ MapsAlike
    BY <1>1, NoRecordShaped DEF MapsShaped, MapsAlike, Alike
  <1> QED
    BY <1>2, <1>4, <1>5 DEF GoIInv

LEMMA GoStepIInv == GoIInv /\ [GoNext]_goVars => GoIInv'
  <1> SUFFICES ASSUME GoIInv, [GoNext]_goVars PROVE GoIInv'
    OBVIOUS
  <1>1. CASE UNCHANGED goVars
    BY <1>1 DEF goVars, vars, GoIInv, RLTypeOK, GoTypeOK, Exclusion, Current, Recorded,
       MapsShaped, MapsAlike, Holders, Reads, Records, Looked
  <1>2. CASE GoNext
    BY <1>2, CallStep, AcquireStep, LookStep, ReturnStep, AdvanceStep DEF GoNext
  <1> QED
    BY <1>1, <1>2

----------------------------------------------------------------------------
(* The records, the tasks of the goroutines and what they have seen keep   *)
(* their types (limiter.go 10-31).                                         *)
THEOREM GoTypeCorrect == GoSpec => []GoTypeOK
  <1>1. GoIInv => GoTypeOK
    BY DEF GoIInv
  <1> QED
    BY <1>1, GoInitIInv, GoStepIInv, PTL DEF GoSpec

(* The mutex: a goroutine that writes the map is the only one that reads   *)
(* or writes it (limiter.go 35-36, 62-63, 101-102).                        *)
THEOREM WritersAlone == GoSpec => []Exclusion
  <1>1. GoIInv => Exclusion
    BY DEF GoIInv
  <1> QED
    BY <1>1, GoInitIInv, GoStepIInv, PTL DEF GoSpec

(* The port blocks whom the original blocks, now and later, and counts     *)
(* what the original counts (limiter.go 37-118, rate-limiter.ts 25-79).    *)
THEOREM PortAlwaysAgrees == GoSpec => []PortAgrees
  <1>1. GoIInv => PortAgrees
    <2> SUFFICES ASSUME GoIInv, NEW ip \in IPs, Recording(ip) = {},
                        NEW t \in now..(now + windowMs + blockDurationMs)
                 PROVE  /\ GoBlocked(goFailedConnectionsByIP[ip], t)
                             <=> BlockedAt(failedConnectionsByIP[ip], t)
                        /\ GoAfterFailure(goFailedConnectionsByIP[ip], t)
                             = AfterFailure(failedConnectionsByIP[ip], t)
      BY DEF PortAgrees
    <2>1. now \in Nat /\ t \in Nat /\ t >= now
      BY LimitsPositive DEF GoIInv, RLTypeOK
    <2>2. \A g \in Goroutines : Records(g) => task[g].call.ip # ip
      BY DEF Recording, Records, Looked
    <2> QED
      BY <2>1, <2>2, AlikeAnswers DEF GoIInv, MapsShaped, MapsAlike
  <1> QED
    BY <1>1, GoInitIInv, GoStepIInv, PTL DEF GoSpec

(* Beside the port the TypeScript limiter takes steps of its own only, so  *)
(* what is proved of RateLimiterAudit holds of it here (limiter.go 34-114, *)
(* rate-limiter.ts 27-79).                                                 *)
THEOREM OriginalRuns == GoSpec => Spec
  <1>1. GoInit => Init
    BY DEF GoInit
  <1>2. GoIInv /\ [GoNext]_goVars => [Next]_vars
    <2> SUFFICES ASSUME GoIInv, [GoNext]_goVars PROVE [Next]_vars
      OBVIOUS
    <2>1. CASE UNCHANGED goVars
      BY <2>1 DEF goVars
    <2>2. ASSUME NEW g \in Goroutines, NEW c \in Calls, Call(g, c)
          PROVE  UNCHANGED vars
      BY <2>2 DEF Call
    <2>3. ASSUME NEW g \in Goroutines, Acquire(g) \/ Return(g)
          PROVE  UNCHANGED vars
      BY <2>3 DEF Acquire, Return
    <2>4. ASSUME NEW g \in Goroutines, Look(g)
          PROVE  [Next]_vars
      <3>1. TypeScript(task[g].call) /\ task[g].call \in Calls
        BY <2>4, TaskForms DEF GoIInv, Look
      <3> QED
        BY <3>1, CallForms DEF TypeScript, Next
    <2>5. ASSUME GoAdvance PROVE Next
      BY <2>5 DEF GoAdvance, Next
    <2> QED
      BY <2>1, <2>2, <2>3, <2>4, <2>5 DEF GoNext
  <1> QED
    BY <1>1, <1>2, GoInitIInv, GoStepIInv, PTL DEF GoSpec, Spec

=============================================================================
