-------------------------- MODULE RateLimiterAudit --------------------------
(***************************************************************************)
(* The limiter called in every order, with a history: failures[ip] lists   *)
(* the times of the failures recorded for ip, oldest first.  The limiter   *)
(* itself keeps a count and the time of one failure; the history says what *)
(* really happened, and the properties relate the two.                     *)
(***************************************************************************)
EXTENDS RateLimiter, Sequences

CONSTANT MaxFailures        \* bound: failures recorded per address

ASSUME AuditAssumption == MaxFailures \in Nat

VARIABLE failures

vars == <<now, failedConnectionsByIP, failures>>

TypeOK ==
    /\ RLTypeOK
    /\ failures \in [IPs -> Seq(Nat)]

Init ==
    /\ now = 0
    /\ failedConnectionsByIP = [ip \in IPs |-> NoRecord]
    /\ failures = [ip \in IPs |-> <<>>]

\* A WebSocket connects: wsServer.on('connection') asks isBlocked.
Check(ip) ==
    /\ IsBlocked(ip)
    /\ UNCHANGED <<now, failures>>

\* An unauthenticated WebSocket closes: ws.on('close') calls recordFailure.
Fail(ip) ==
    /\ Len(failures[ip]) < MaxFailures
    /\ RecordFailure(ip)
    /\ failures' = [failures EXCEPT ![ip] = Append(@, now)]
    /\ UNCHANGED now

Advance ==
    /\ Tick
    /\ UNCHANGED <<failedConnectionsByIP, failures>>

Next ==
    \/ \E ip \in IPs : Check(ip) \/ Fail(ip)
    \/ Advance

Spec == Init /\ [][Next]_vars

----------------------------------------------------------------------------
(* A block is earned.  Whenever a record carries a block, the history      *)
(* holds maxFailedConnections consecutive failures of that address, all    *)
(* within one window, the last of them at the moment the block was set.    *)
(* (recordFailure, rate-limiter.ts:51-79.)                                 *)
BlockEarned ==
    \A ip \in IPs :
        failedConnectionsByIP[ip].blockedUntil # 0 =>
            \E last \in maxFailedConnections..Len(failures[ip]) :
                LET first == last - maxFailedConnections + 1
                IN  /\ failures[ip][last] + blockDurationMs
                         = failedConnectionsByIP[ip].blockedUntil
                    /\ failures[ip][last] - failures[ip][first] <= windowMs

(* No free failures.  A record counts exactly the latest failures of its   *)
(* address: they are the last `count' of the history, none lies before     *)
(* firstFailure or beyond the window after it, and once the threshold is   *)
(* reached the record carries a block.                                     *)
RecordMatchesHistory ==
    \A ip \in IPs :
        LET r == failedConnectionsByIP[ip]
            n == Len(failures[ip])
        IN  /\ r.count <= n
            /\ \A i \in (n - r.count + 1)..n :
                  /\ r.firstFailure <= failures[ip][i]
                  /\ failures[ip][i] - r.firstFailure <= windowMs
            /\ r.count >= maxFailedConnections => r.blockedUntil # 0

(* A block survives its window.  As long as the failure window a block was *)
(* earned in is open, nothing removes, shortens or extends the block: not  *)
(* further failures (the test !record.blockedUntil), not isBlocked.        *)
BlockHoldsInWindow ==
    [][\A ip \in IPs :
          Blocked(ip) /\ ~ExpiredAt(failedConnectionsByIP[ip], now) =>
              failedConnectionsByIP'[ip].blockedUntil
                  = failedConnectionsByIP[ip].blockedUntil]_vars

(* Asking is free.  What isBlocked deletes is garbage: from the record it  *)
(* leaves, every later question gets the answer, and every later failure   *)
(* leads to the record, that it would have had without the deletion.       *)
CheckIsFree ==
    [][\A ip \in IPs : Check(ip) =>
          \A t \in now..(now + windowMs + blockDurationMs) :
              /\ BlockedAt(failedConnectionsByIP'[ip], t)
                    <=> BlockedAt(failedConnectionsByIP[ip], t)
              /\ AfterFailure(failedConnectionsByIP'[ip], t)
                    = AfterFailure(failedConnectionsByIP[ip], t)]_vars

=============================================================================
