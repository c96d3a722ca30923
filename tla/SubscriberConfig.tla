-------------------------- MODULE SubscriberConfig --------------------------
(***************************************************************************)
(* The subscribers of the TypeScript broker, from the environment:         *)
(* src/server.ts 44-103 and src/config.ts 36-45.  SUBSCRIBER_1,            *)
(* SUBSCRIBER_2, ... are username:password:role:maxConnections.            *)
(*                                                                         *)
(* A field that is a text is a member of a small set, "" when it is empty  *)
(* or missing.  A field that is a number is what its text begins with:     *)
(* [lead |-> an integer or NaN, clean |-> does nothing follow].            *)
(***************************************************************************)
EXTENDS Integers, Sequences

CONSTANTS
    NaN,                    \* the number of a text that begins with none
    Unset                   \* an environment variable that is not set

LastPlace(S) == CHOOSE i \in S : \A j \in S : j <= i

\* parseInt reads the digits a text begins with, whatever follows.
parseInt(field) == field.lead

\* The loop ends at the first variable that is unset or empty.
Read(env) == {i \in DOMAIN env : \A j \in 1..i : env[j] # Unset}

\* An entry without a username or a password is skipped with a warning.
Valid(env) == {i \in Read(env) : env[i].username # "" /\ env[i].password # ""}

Usernames(env) == {env[i].username : i \in Valid(env)}

\* Later entries overwrite earlier ones of the same username.
EntryOf(env, u) == env[LastPlace({i \in Valid(env) : env[i].username = u})]

Role(entry) ==
    IF parseInt(entry.role) \in 1..3 THEN parseInt(entry.role) ELSE 3

\* "D" and a text that is no number begin with NaN.
MaxConn(entry, default) ==
    LET parsed == parseInt(entry.maxConn)
    IN  IF parsed # NaN /\ parsed > 0 THEN parsed ELSE default

subscriberUsers(env) == [u \in Usernames(env) |-> EntryOf(env, u).password]
subscriberRoles(env) == [u \in Usernames(env) |-> Role(EntryOf(env, u))]

\* default is the parsed SUBSCRIBER_MAX_CONNECTIONS_DEFAULT, which only has
\* to be set: it may be NaN.
subscriberMaxConnections(env, default) ==
    [u \in Usernames(env) |-> MaxConn(EntryOf(env, u), default)]

=============================================================================
