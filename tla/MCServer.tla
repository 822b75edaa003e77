------------------------------- MODULE MCServer -------------------------------
(***************************************************************************)
(* The instances of Server that TLC checks: one username, two passwords,   *)
(* so that there can be two accounts with the same username; one or two    *)
(* connections, two being enough for registrations to race.                *)
(***************************************************************************)
EXTENDS Server

CONSTANTS alice, p1, p2, short, control, c1, c2

With(ops, username, password) ==
    { [op |-> o, username |-> username, password |-> password] : o \in ops }
Plain(ops) == { [op |-> o] : o \in ops }

Credentials == {"LOGIN", "REGISTER"}

\* For the races on the user file: well-formed requests only.
AccountRequest == With(Credentials, alice, p1) \cup With(Credentials, alice, p2)

\* For the handlers: every kind of request.
AnyRequest == AccountRequest \cup With({"REGISTER"}, short, p1)
              \cup With(Credentials, control, p1) \cup Plain({"INSERT", "SEARCH", "UNKNOWN"})

MCConsoleChange == {<<alice, ADMIN>>, <<alice, ANONYMOUS>>}

MCRegisteredLevel == {ANONYMOUS, USER}

Twins == Permutations(Conn)
=============================================================================
