---------------------------- MODULE MCForwarding ----------------------------
(* An instance of Forwarding for TLC: a client of each role, the LIMITED   *)
(* one interested in one location only, and a device that is heard at two. *)
(* Times 1 to 3 let a message be older than, as old as and newer than      *)
(* another, in every order; one that is new is on a topic for admins, and  *)
(* one elsewhere.                                                          *)
EXTENDS Forwarding

MCrole == [c \in Clients |-> c]

MCfilter == [c \in Clients |->
    IF c = "LIMITED" THEN {t \in Topic : t.place = "SEA"} ELSE Topic]

On(place, contains, ends) == [place |-> place, contains |-> contains, ends |-> ends]

Status(o, t) ==
    [topic |-> On("SEA", {}, "status"), origin |-> o, time |-> t, fields |-> {"stats"}]

MCPackets ==
    {Status("devA", t) : t \in 0..2}
    \union {Status("devB", 1),
            [Status("devA", 3) EXCEPT !.topic = On("SEA", {"internal"}, "status")],
            [Status("devA", 2) EXCEPT !.topic = On("LAX", {}, "status")],
            [topic |-> On("SEA", {}, "packets"), origin |-> "devA", time |-> 2,
             fields |-> {"SNR"}]}

=============================================================================
