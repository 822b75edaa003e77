------------------------------- MODULE Accounts -------------------------------
(***************************************************************************)
(* What user_db.c promises to login.c, register.c and the console: a list  *)
(* of accounts in the order of their registration.  A login is granted the *)
(* level of the first account with its username and its password; the      *)
(* console changes the first account with the username it names.           *)
(***************************************************************************)
EXTENDS UserDB

CONSTANTS Credentials,  \* pairs of a username and a password
          Level

VARIABLES users, reply

vars == <<users, reply>>

NoReply == [status |-> "none"]
Granted(level) == [status |-> "OK", level |-> level]
Answer(status) == [status |-> status]

Init == users = << >> /\ reply = NoReply

Login(u, p) ==
    LET i == check_credentials(users, u, p)
    IN  /\ reply' = IF i = NotFound THEN Answer("INVALID_CREDENTIALS")
                                    ELSE Granted(users[i].level)
        /\ UNCHANGED users

Taken(u, p) ==
    /\ check_credentials(users, u, p) # NotFound
    /\ reply' = Answer("USERNAME_TAKEN")
    /\ UNCHANGED users

Register(u, p, level) ==
    /\ users' = add_user(users, u, p, level)
    /\ reply' = Answer("OK")

Perm(u, level) ==
    /\ users' = change_permissions(users, u, level)
    /\ reply' = Answer(IF WithName(users, u) = {} THEN "unknown" ELSE "changed")

\* A new process knows of no request.
Restart ==
    /\ reply' = NoReply
    /\ UNCHANGED users

Next ==
    \/ Restart
    \/ \E c \in Credentials :
          \/ Login(c[1], c[2]) \/ Taken(c[1], c[2])
          \/ \E level \in Level : Register(c[1], c[2], level) \/ Perm(c[1], level)

Spec == Init /\ [][Next]_vars
=============================================================================
