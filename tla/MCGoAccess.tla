----------------------------- MODULE MCGoAccess -----------------------------
(* An instance of GoAccess for TLC: two keys, one of them also written in  *)
(* lower case, a subscriber of each role, an entry of each flaw, wills,    *)
(* and clients that name a property of the hook themselves, rightly.       *)
EXTENDS GoAccess

Number(n) == [lead |-> n, clean |-> TRUE]
Text == [lead |-> NaN, clean |-> FALSE]

Entry(name, role, limit) ==
    [username |-> name, password |-> name, role |-> role, maxConn |-> limit]

\* An environment without flaws, whose last entry of the writer counts, with
\* a limit of 0; and one with a role and a limit that go on after a digit, a
\* role that does not exist, one that is missing and leaves an earlier entry in
\* force in the port, an entry too many, which does so too, and one after a gap.
MCEnvironments ==
    {<<Entry("admin", Number(1), Text), Entry("writer", Number(1), Number(3)),
       Entry("reader", Number(2), Number(1)), Entry("writer", Number(3), Number(0))>>,
     <<Entry("writer", Number(2), Text),
       Entry("admin", [lead |-> 1, clean |-> FALSE], Text), Entry("admin", Number(4), Text),
       Entry("writer", Text, Text), Entry("reader", Number(2), [lead |-> 5, clean |-> FALSE]),
       Entry("reader", Number(1), Text), Unset, Entry("late", Number(1), Text)>>}

MCupper == [level \in {"a", "test"} |-> IF level = "a" THEN "A" ELSE "TEST"]

Token(signer, key) ==
    [wellFormed |-> TRUE, signer |-> signer, publicKey |-> key,
     aud |-> "here", iat |-> 0, exp |-> 1]

None == [name \in {} |-> ""]

Login(username, password) ==
    [username |-> username, password |-> password, props |-> None, will |-> Nothing]

MCCredentials ==
    {Login(u, u) : u \in {"admin", "reader", "writer"}} \union
    {[Login("reader", "reader") EXCEPT !.will = <<"meshcore", "SEA", "A", "status">>],
     [Login("A", Token("A", "A")) EXCEPT !.will = <<"meshcore", "test", "a", "internal">>,
                                         !.props = [publicKey |-> "A"]],
     [Login("admin", "admin") EXCEPT !.props = [clientType |-> "subscriber"]]} \union
    {Login("admin", "guess"), Login("stranger", "stranger"),
     Login("a", Token("A", "a")),
     Login("A", Token("B", "A")),
     Login("B", Token("A", "A")),
     Login("B", [Token("B", "B") EXCEPT !.iat = 2, !.exp = NaN]),
     Login("B", [Token("B", "B") EXCEPT !.aud = "elsewhere"]),
     Login("B", [Token("B", "B") EXCEPT !.wellFormed = FALSE])}

MCTopics ==
    {<<"meshcore", "SEA", "A", "status">>,
     <<"meshcore", "test", "a", "internal">>,
     <<"meshcore", "XXX", "A", "status">>,
     <<"meshcore", "sea", "B", "status">>,
     <<"meshcore", "SEA", "A", "serial", "commands">>,
     <<"meshcore", "SEA", "A">>,
     <<"meshcore">>,
     <<"internal">>,
     <<"$SYS", "uptime">>}

MCFilters ==
    {<<"#">>, <<"meshcore", "+", "+", "internal">>, <<"$SYS", "uptime">>,
     <<"meshcore", "SEA", "a", "serial", "commands">>,
     <<"meshcore", "+", "A", "serial", "commands">>}

=============================================================================
