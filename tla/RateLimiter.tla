---------------------------- MODULE RateLimiter ----------------------------
(***************************************************************************)
(* The limiter of failed connections of src/rate-limiter.ts: a map from IP *)
(* addresses to records, read when a WebSocket connects (isBlocked) and    *)
(* written when one closes without having authenticated (recordFailure).   *)
(*                                                                         *)
(* Time is Date.now(), in ticks.  A JavaScript `undefined' time is 0: the  *)
(* code tests it for truth, and a block set by recordFailure is never 0.   *)
(* An address the map does not hold has the record NoRecord.               *)
(***************************************************************************)
EXTENDS Integers

CONSTANTS
    IPs,                    \* client addresses
    windowMs,               \* length of the failure window
    maxFailedConnections,   \* failures in a window that cause a block
    blockDurationMs,        \* length of a block
    MaxNow                  \* bound: the clock stops here

(* rateLimiter = new RateLimiter(60000, 10, 300000) in server.ts.  With a  *)
(* threshold of 1 the first failure would not block: recordFailure returns *)
(* before it compares a new record with the threshold.                     *)
ASSUME LimiterAssumption ==
    /\ windowMs \in Nat \ {0}
    /\ maxFailedConnections \in Nat /\ maxFailedConnections >= 2
    /\ blockDurationMs \in Nat \ {0}
    /\ MaxNow \in Nat

VARIABLES
    now,                    \* Date.now()
    failedConnectionsByIP   \* the map

rlVars == <<now, failedConnectionsByIP>>

RateLimitRecord == [count : Nat, firstFailure : Nat, blockedUntil : Nat]

\* Fault: the record of a first failure starts its window one window early.
FirstFailureEarly(t) ==
    [count |-> 1, firstFailure |-> t - windowMs, blockedUntil |-> 0]

NoRecord == [count |-> 0, firstFailure |-> 0, blockedUntil |-> 0]

FirstFailureRecord(t) == [count |-> 1, firstFailure |-> t, blockedUntil |-> 0]

RLTypeOK ==
    /\ now \in Nat
    /\ failedConnectionsByIP \in [IPs -> RateLimitRecord]

----------------------------------------------------------------------------
(* What the two methods make of a record at time t.                        *)

\* The first test of isBlocked, and its answer.
BlockedAt(record, t) == record.blockedUntil # 0 /\ t < record.blockedUntil

\* The test both methods make before they forget a record.
ExpiredAt(record, t) == t - record.firstFailure > windowMs

\* Fault: the window test comes first, and forgets a record that blocks.
AfterCheckWindowOnly(record, t) ==
    IF ExpiredAt(record, t) THEN NoRecord ELSE record

\* isBlocked deletes a record that is not blocking once its window is over.
AfterCheck(record, t) ==
    IF ~BlockedAt(record, t) /\ ExpiredAt(record, t) THEN NoRecord ELSE record

\* Fault: the threshold is passed, not reached.
CountFailureStrict(record, t) ==
    LET count == record.count + 1
    IN  [count |-> count,
         firstFailure |-> record.firstFailure,
         blockedUntil |->
            IF count > maxFailedConnections /\ record.blockedUntil = 0
            THEN t + blockDurationMs
            ELSE record.blockedUntil]

\* Fault: without the test of blockedUntil every failure moves the block.
CountFailureRestart(record, t) ==
    LET count == record.count + 1
    IN  [count |-> count,
         firstFailure |-> record.firstFailure,
         blockedUntil |->
            IF count >= maxFailedConnections
            THEN t + blockDurationMs
            ELSE record.blockedUntil]

\* The counting branch of recordFailure: a known address, window still open.
CountFailure(record, t) ==
    LET count == record.count + 1
    IN  [count |-> count,
         firstFailure |-> record.firstFailure,
         blockedUntil |->
            IF count >= maxFailedConnections /\ record.blockedUntil = 0
            THEN t + blockDurationMs
            ELSE record.blockedUntil]

\* Fault: failures add up across windows.
AfterFailureNoWindow(record, t) ==
    IF record.count = 0 THEN FirstFailureRecord(t) ELSE CountFailure(record, t)

\* recordFailure: a new window for an unknown address or an expired window
\* (a block in the old record goes with it), otherwise one more failure.
AfterFailure(record, t) ==
    IF record.count = 0 \/ ExpiredAt(record, t)
    THEN FirstFailureRecord(t)
    ELSE CountFailure(record, t)

----------------------------------------------------------------------------
(* The methods.                                                            *)

Blocked(ip) == BlockedAt(failedConnectionsByIP[ip], now)

IsBlocked(ip) ==
    failedConnectionsByIP' =
        [failedConnectionsByIP EXCEPT ![ip] = AfterCheck(@, now)]

RecordFailure(ip) ==
    failedConnectionsByIP' =
        [failedConnectionsByIP EXCEPT ![ip] = AfterFailure(@, now)]

Tick == now < MaxNow /\ now' = now + 1

=============================================================================
