--------------------------- MODULE MCTopicAccess ---------------------------
(* An instance of TopicAccess for TLC: a publisher of each of two keys and *)
(* an admin; each part of a topic in each spelling, one part at a time.    *)
EXTENDS TopicAccess

MCClients == {"pubA", "pubB", "admin"}

MCwho == [c \in MCClients |->
            CASE c = "pubA" -> "A" [] c = "pubB" -> "B" [] OTHER -> "ADMIN"]

Packet(t, r, p) == [topic |-> t, retain |-> r, payload |-> p]

Status == Exact("SEA", "A", "status")

\* Messages that pass.
MCMessages ==
    {Packet(Status, TRUE, "A"),
     Packet([Status EXCEPT !.loc.as = "padded"], FALSE, "A"),
     Packet([Status EXCEPT !.key.as = "otherCase"], FALSE, "A"),
     Packet([Status EXCEPT !.sub.as = "padded"], FALSE, "A"),
     Packet([Status EXCEPT !.sub.as = "otherCase"], TRUE, "A"),
     Packet(Exact("test", "A", "internal"), TRUE, "A"),
     Packet([Exact("test", "A", "packets") EXCEPT !.loc.as = "otherCase"], FALSE, "A"),
     Packet(Exact("SEA", "B", "serial/commands"), FALSE, "B")}

\* Serial traffic, deletions, and packets that do not pass, for each reason.
MCPackets ==
    MCMessages \union
    {Packet(Exact("SEA", "A", "serial/responses"), TRUE, "jwt"),
     Packet(Exact("SEA", "A", "serial/responses"), TRUE, "junk"),
     Packet([Exact("SEA", "A", "serial/responses") EXCEPT !.sub.as = "otherCase"], FALSE, "jwt"),
     Packet(Exact("SEA", "A", "packets"), FALSE, "junk"),
     Packet(Exact("test", "A", "internal"), TRUE, "empty"),
     Packet(Status, TRUE, "empty"),
     Packet(Exact("SEA", "A", "serial/commands"), FALSE, "jwt"),
     Packet([Exact("SEA", "A", "serial/commands") EXCEPT !.key.as = "otherCase"], FALSE, "jwt"),
     Packet(Exact("SEA", "B", "packets"), FALSE, "A"),
     Packet([Status EXCEPT !.loc.as = "otherCase"], FALSE, "A"),
     Packet(Exact("XXX", "A", "packets"), FALSE, "A"),
     Packet(Exact("SEA", "none", "packets"), FALSE, "A"),
     Packet(Elsewhere, FALSE, "A")}

MCFilters ==
    {Exact("+", "B", "serial/commands"),
     [Exact("SEA", "A", "serial/commands") EXCEPT !.key.as = "otherCase"],
     [Exact("SEA", "A", "serial/commands") EXCEPT !.key.as = "padded"]}

MCwill == [c \in MCClients |->
    CASE c = "pubA" -> Packet(Status, TRUE, "A")
      [] c = "pubB" -> Packet(Exact("SEA", "B", "packets"), FALSE, "A")
      [] OTHER -> NoWill]

\* As above, with a status whose topic ends in a blank.
MCPaddedStatus ==
    {Packet([Status EXCEPT !.sub.as = "padded"], TRUE, "A"), Packet(Status, TRUE, "A")}

MCNoWill == [c \in MCClients |-> NoWill]

=============================================================================
