------------------------------ MODULE GoLimiter ------------------------------
(***************************************************************************)
(* The limiter of the Go port, internal/ratelimit/limiter.go: called from  *)
(* many goroutines, its map guarded by a sync.RWMutex, with a Cleanup that *)
(* sweeps the map in place of the deletion in the TypeScript isBlocked.    *)
(*                                                                         *)
(* A call is made, acquires the mutex, looks (it reads the clock and the   *)
(* record) and returns, which writes what it has to and unlocks.  Other    *)
(* goroutines and the clock move between any two of these steps.  The      *)
(* TypeScript limiter gets the same calls, each as one step at the moment  *)
(* the goroutine looks: RateLimiterAudit says what it does with them.      *)
(*                                                                         *)
(* A nil BlockedUntil is 0, as in RateLimiter.  An address that is not in  *)
(* the map has the record NoRecord.                                        *)
(***************************************************************************)
EXTENDS RateLimiterAudit, FiniteSets

CONSTANT Goroutines

(* Cleanup forgets a block that is over with the failures of its window,   *)
(* so a block lasts as long as a window, as in New(60000, 10, 300000).     *)
ASSUME PortAssumption == blockDurationMs >= windowMs

VARIABLES
    goFailedConnectionsByIP,
    task                    \* what each goroutine is at

goVars == <<vars, goFailedConnectionsByIP, task>>

Calls == [op : {"IsBlocked", "RecordFailure"}, ip : IPs] \union {[op |-> "Cleanup"]}

\* seen is the map, or the part of it the call needs, as it was when the
\* clock said at.
Idle == [step |-> "idle"]

GoTypeOK ==
    /\ goFailedConnectionsByIP \in [IPs -> RateLimitRecord]
    /\ task \in [Goroutines ->
            {Idle} \union [step : {"waiting", "locked"}, call : Calls]
            \union [step : {"looked"}, call : Calls, at : Nat,
                    seen : [IPs -> RateLimitRecord]]]

GoInit ==
    /\ Init
    /\ goFailedConnectionsByIP = [ip \in IPs |-> NoRecord]
    /\ task = [g \in Goroutines |-> Idle]

----------------------------------------------------------------------------
(* What the methods make of a record at time t.                            *)

GoBlocked(record, t) == record.blockedUntil # 0 /\ t < record.blockedUntil

GoWindowExpired(record, t) == t - record.firstFailure > windowMs

\* Fault: the window of a first failure began one window ago.
GoAfterFailureEarly(record, t) ==
    IF record = NoRecord \/ GoWindowExpired(record, t)
    THEN [count |-> 1, firstFailure |-> t - windowMs, blockedUntil |-> 0]
    ELSE [record EXCEPT !.count = @ + 1]

\* RecordFailure.
GoAfterFailure(record, t) ==
    IF record = NoRecord \/ GoWindowExpired(record, t)
    THEN [count |-> 1, firstFailure |-> t, blockedUntil |-> 0]
    ELSE [record EXCEPT
            !.count = @ + 1,
            !.blockedUntil =
                IF record.count + 1 >= maxFailedConnections /\ @ = 0
                THEN t + blockDurationMs
                ELSE @]

\* Fault: every record whose window is over is swept.
GoAfterCleanupWindowOnly(record, t) ==
    IF GoWindowExpired(record, t) THEN NoRecord ELSE record

\* Cleanup: the window is over and nothing was blocked, or the block is over.
GoAfterCleanup(record, t) ==
    IF \/ GoWindowExpired(record, t) /\ record.blockedUntil = 0
       \/ record.blockedUntil # 0 /\ t > record.blockedUntil
    THEN NoRecord
    ELSE record

----------------------------------------------------------------------------
(* The mutex.                                                              *)

Holders == {g \in Goroutines : task[g].step \in {"locked", "looked"}}

Reads(g) == task[g].call.op = "IsBlocked"

\* Fault: every method takes the read lock.
MayLockShared(g) == TRUE

\* RLock waits for a writer, Lock for everybody.
MayLock(g) == \A h \in Holders : Reads(g) /\ Reads(h)

----------------------------------------------------------------------------
(* The steps of a goroutine.                                               *)

Failing(ip) == {g \in Goroutines : /\ task[g].step \in {"waiting", "locked"}
                                   /\ task[g].call.op = "RecordFailure"
                                   /\ task[g].call.ip = ip}

\* MaxFailures bounds the failures recorded and under way.
Call(g, call) ==
    /\ task[g] = Idle
    /\ call.op = "RecordFailure" =>
            Len(failures[call.ip]) + Cardinality(Failing(call.ip)) < MaxFailures
    /\ task' = [task EXCEPT ![g] = [step |-> "waiting", call |-> call]]
    /\ UNCHANGED <<vars, goFailedConnectionsByIP>>

Acquire(g) ==
    /\ task[g].step = "waiting"
    /\ MayLock(g)
    /\ task' = [task EXCEPT ![g] = [step |-> "locked", call |-> task[g].call]]
    /\ UNCHANGED <<vars, goFailedConnectionsByIP>>

\* The TypeScript method that is called where this one is.
TypeScript(call) ==
    CASE call.op = "IsBlocked" -> Check(call.ip)
      [] call.op = "RecordFailure" -> Fail(call.ip)
      [] call.op = "Cleanup" -> UNCHANGED vars

Look(g) ==
    /\ task[g].step = "locked"
    /\ task' = [task EXCEPT ![g] =
            [step |-> "looked", call |-> task[g].call, at |-> now,
             seen |-> goFailedConnectionsByIP]]
    /\ TypeScript(task[g].call)
    /\ UNCHANGED goFailedConnectionsByIP

Return(g) ==
    /\ task[g].step = "looked"
    /\ LET call == task[g].call
           seen == task[g].seen
           at   == task[g].at
       IN  goFailedConnectionsByIP' =
            CASE call.op = "IsBlocked" -> goFailedConnectionsByIP
              [] call.op = "RecordFailure" ->
                    [goFailedConnectionsByIP EXCEPT ![call.ip] =
                        GoAfterFailure(seen[call.ip], at)]
              [] call.op = "Cleanup" ->
                    [ip \in IPs |-> GoAfterCleanup(seen[ip], at)]
    /\ task' = [task EXCEPT ![g] = Idle]
    /\ UNCHANGED vars

GoAdvance == Advance /\ UNCHANGED <<goFailedConnectionsByIP, task>>

GoNext ==
    \/ \E g \in Goroutines :
          \/ \E call \in Calls : Call(g, call)
          \/ Acquire(g) \/ Look(g) \/ Return(g)
    \/ GoAdvance

GoSpec == GoInit /\ [][GoNext]_goVars

----------------------------------------------------------------------------
\* A failure of ip the TypeScript limiter knows of and the Go map does not.
Recording(ip) == {g \in Goroutines : /\ task[g].step = "looked"
                                     /\ task[g].call.op = "RecordFailure"
                                     /\ task[g].call.ip = ip}

(* The port agrees with the original.  Whatever the goroutines interleave, *)
(* and whenever Cleanup runs, an address is blocked by the Go limiter, now *)
(* and at every later time, exactly if the TypeScript limiter blocks it,   *)
(* and the next failure leaves both with the same record: no failure is    *)
(* lost, and Cleanup removes nothing that counts (limiter.go 37-118).      *)
PortAgrees ==
    \A ip \in IPs : Recording(ip) = {} =>
        \A t \in now..(now + windowMs + blockDurationMs) :
            LET go == goFailedConnectionsByIP[ip]
                ts == failedConnectionsByIP[ip]
            IN  /\ GoBlocked(go, t) <=> BlockedAt(ts, t)
                /\ GoAfterFailure(go, t) = AfterFailure(ts, t)

=============================================================================
