-------------------------- MODULE ConnectionQuota --------------------------
(***************************************************************************)
(* What the connection limit of subscribers promises, whatever the broker  *)
(* keeps to enforce it: a subscriber with a limit never holds more         *)
(* sessions than that.                                                     *)
(***************************************************************************)
EXTENDS Naturals, FiniteSets

CONSTANTS
    Subscribers,
    Conns,                  \* what a session is held through
    maxConn, NoLimit        \* the limit of each subscriber, or none

VARIABLE sessions           \* sessions[u]: the connections u holds

Init == sessions = [u \in Subscribers |-> {}]

Admit(u, c) ==
    /\ \A s \in Subscribers : c \notin sessions[s]
    /\ maxConn[u] # NoLimit => Cardinality(sessions[u]) < maxConn[u]
    /\ sessions' = [sessions EXCEPT ![u] = @ \union {c}]

Leave(u, c) ==
    /\ c \in sessions[u]
    /\ sessions' = [sessions EXCEPT ![u] = @ \ {c}]

Next == \E u \in Subscribers, c \in Conns : Admit(u, c) \/ Leave(u, c)

Spec == Init /\ [][Next]_sessions

=============================================================================
