-------------------------- MODULE MCBrokerSessions --------------------------
(* Instances of BrokerSessions for TLC, from a configuration and from the  *)
(* requests the connections begin with.  Whatever headers they carry, they *)
(* come from one address.                                                  *)
EXTENDS BrokerSessions, SubscriberConfig, ClientAddress

Number(n) == [lead |-> n, clean |-> TRUE]
Text == [lead |-> NaN, clean |-> FALSE]

Entry(name, limit) ==
    [username |-> name, password |-> "pw", role |-> Number(2), maxConn |-> limit]

\* A viewer with a limit of two and, after an entry without a password and
\* an earlier one of its own, a guest with the default limit.  The entry after
\* the gap is not read.
MCEnvironment ==
    <<Entry("viewer", Number(2)), Entry("guest", Number(1)),
      [Entry("nobody", Text) EXCEPT !.password = ""], Entry("guest", Text),
      Unset, Entry("late", Number(1))>>

MCSubscribers == Usernames(MCEnvironment)

\* SUBSCRIBER_MAX_CONNECTIONS_DEFAULT that is no number: no limit.
MCmaxConn == subscriberMaxConnections(MCEnvironment, NaN)

\* The viewer alone.
MCViewer == {"viewer"}
MCmaxConnViewer == [u \in MCViewer |-> MCmaxConn[u]]

Request ==
    [cfConnectingIP |-> "", xForwardedFor |-> <<>>, xRealIP |-> "",
     remoteAddress |-> "proxy"]

MCRequests ==
    <<[Request EXCEPT !.cfConnectingIP = "ip1"],
      [Request EXCEPT !.xForwardedFor = <<"ip1", "proxy">>, !.xRealIP = "proxy"],
      [Request EXCEPT !.xRealIP = "ip1"],
      [Request EXCEPT !.remoteAddress = "ip1"]>>

MCipOf == [c \in Conns |-> getClientIP(MCRequests[c])]

\* Every connection presents a client id of its own.
MCDistinctIds == [c \in Conns |-> c]

\* Connection 2 presents the client id of connection 1.
MCTakeover == [c \in Conns |-> IF c = 2 THEN 1 ELSE c]

=============================================================================
