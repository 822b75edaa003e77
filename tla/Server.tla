-------------------------------- MODULE Server --------------------------------
(***************************************************************************)
(* The sessions of the server: connection_handler of src/server/main.c,    *)
(* with login.c, register.c and the permissions that the console changes.  *)
(*                                                                         *)
(* One thread serves each connection.  Its session -- who is logged in,    *)
(* with which level -- is local to it and lasts until the client is gone;  *)
(* the accounts are shared by all of them.  A handler that calls user_db.c *)
(* twice, as register.c does, is two steps.                                *)
(*                                                                         *)
(* What an authorised INSERT, DELETE or SEARCH does is in ContactDB.  A    *)
(* handler whose call of the lock is interrupted answers SERVER_ERROR.     *)
(* The user file is whole: what follows when an append to it is cut short, *)
(* as the LOGIN that is not answered, is in UserFile.                      *)
(***************************************************************************)
EXTENDS UserDB, FiniteSets

CONSTANTS Conn,             \* the connections, each with its client and its thread
          Request,          \* the requests that clients send
          BadSize,          \* usernames shorter than 4 or longer than 32 characters
          Unprintable,      \* usernames with a character outside 0x20 .. 0x7E
          RegisteredLevel,  \* what new_user.auth_level may hold: nobody sets it
          ConsoleChange,    \* the <<username, level>> that the console sets
          MaxUsers          \* bound on the records of the user file

ContactOp == {"INSERT", "DELETE", "SEARCH"}
Op == {"LOGIN", "REGISTER"} \cup ContactOp

NoOne == << >>
NoRequest == [op |-> "none"]

ASSUME ConnAssumption == IsFiniteSet(Conn)

ASSUME RequestAssumption ==
    \A r \in Request : r.op \in {"LOGIN", "REGISTER"} => {"username", "password"} \subseteq DOMAIN r

\* The levels are written into one byte of the record.
ASSUME LevelAssumption == RegisteredLevel \subseteq 0 .. 255 /\ RegisteredLevel # {}

\* The operator's digit is 0, 1 or 2: main.c:369.
ASSUME ConsoleAssumption == \A change \in ConsoleChange : change[2] \in {ANONYMOUS, USER, ADMIN}

VARIABLES users,     \* the records of USER_DB_FILENAME
          phase,     \* where the thread of each connection is
          request,   \* the request it serves
          session,   \* its user_t: the credentials it was given, and its level
          answer,    \* the status that it is about to send, and whether it then closes
          gone,      \* the clients that have left a connection still served
          granted,   \* the <<username, password, level>> above ANONYMOUS that
                     \* the file ever held
          raised     \* SEM_WRITER_WAITING of the user database is left raised by a
                     \* writer that has given up

vars == <<users, phase, request, session, answer, gone, granted, raised>>

Off == [id |-> NoOne, level |-> ANONYMOUS]
NoAnswer == [status |-> "none", closes |-> FALSE]

Init ==
    /\ users = << >>
    /\ phase = [c \in Conn |-> "off"]
    /\ request = [c \in Conn |-> NoRequest]
    /\ session = [c \in Conn |-> Off]
    /\ answer = [c \in Conn |-> NoAnswer]
    /\ gone = {}
    /\ granted = {}
    /\ raised = FALSE

Grants(us) ==
    { <<us[i].username, us[i].password, us[i].level>> :
         i \in { j \in DOMAIN us : us[j].level # ANONYMOUS } }

WriteUsers(us) == users' = us /\ granted' = granted \cup Grants(us)

-----------------------------------------------------------------------------
(***************************************************************************)
(* The client: it connects, sends a request once the last was answered,    *)
(* and may leave at any time, whatever the thread is doing.                *)
(***************************************************************************)

Connect(c) ==
    /\ phase[c] = "off"
    /\ phase' = [phase EXCEPT ![c] = "idle"]
    /\ UNCHANGED <<users, request, session, answer, gone, granted, raised>>

Registering == { c \in Conn : request[c].op = "REGISTER" }

Send(c, r) ==
    /\ phase[c] = "idle" /\ c \notin gone
    /\ r.op = "REGISTER" => Len(users) + Cardinality(Registering) < MaxUsers
    /\ phase' = [phase EXCEPT ![c] = "request"]
    /\ request' = [request EXCEPT ![c] = r]
    /\ UNCHANGED <<users, session, answer, gone, granted, raised>>

Leave(c) ==
    /\ phase[c] # "off" /\ c \notin gone
    /\ gone' = gone \cup {c}
    /\ UNCHANGED <<users, phase, request, session, answer, granted, raised>>

-----------------------------------------------------------------------------
(***************************************************************************)
(* The handlers.                                                           *)
(***************************************************************************)

Serves(c, op) == phase[c] = "request" /\ request[c].op = op

Username(c) == request[c].username
Password(c) == request[c].password
Id(c)       == <<Username(c), Password(c)>>

WellFormed(c) == Username(c) \notin BadSize \cup Unprintable

Found(c) == check_credentials(users, Username(c), Password(c))

\* A call of check_credentials gets the lock: no writer is announced, in particular
\* none that has given up.
ReaderEnters == ~raised

\* The handler has decided what it answers; send_packet comes next.
Answers(c, status, closes) ==
    /\ phase' = [phase EXCEPT ![c] = "answer"]
    /\ request' = [request EXCEPT ![c] = NoRequest]
    /\ answer' = [answer EXCEPT ![c] = [status |-> status, closes |-> closes]]
    /\ UNCHANGED gone

LogIn(c, level) == session' = [session EXCEPT ![c] = [id |-> Id(c), level |-> level]]

\* Mutant: the status for unknown credentials has no case, and nothing is sent.
LoginRefusedSilently(c) ==
    /\ Serves(c, "LOGIN") /\ WellFormed(c) /\ ReaderEnters
    /\ Found(c) = NotFound
    /\ phase' = [phase EXCEPT ![c] = "idle"]
    /\ UNCHANGED <<users, request, session, answer, gone, granted, raised>>

LoginRefused(c) ==
    /\ Serves(c, "LOGIN") /\ WellFormed(c) /\ ReaderEnters
    /\ Found(c) = NotFound
    /\ Answers(c, "INVALID_CREDENTIALS", FALSE)
    /\ UNCHANGED <<users, session, granted, raised>>

LoginAccepted(c) ==
    /\ Serves(c, "LOGIN") /\ WellFormed(c) /\ ReaderEnters
    /\ Found(c) # NotFound
    /\ LogIn(c, users[Found(c)].level)
    /\ Answers(c, "OK", FALSE)
    /\ UNCHANGED <<users, granted, raised>>

\* The semop of the reader fails, behind a writer that is there or has been.
LoginInterrupted(c) ==
    /\ Serves(c, "LOGIN") /\ WellFormed(c)
    /\ Answers(c, "SERVER_ERROR", TRUE)
    /\ UNCHANGED <<users, session, granted, raised>>

\* The two handlers refuse a bad username; only the size closes a REGISTER.
CredentialsMalformed(c) ==
    /\ Serves(c, "LOGIN") \/ Serves(c, "REGISTER")
    /\ ~WellFormed(c)
    /\ Answers(c, "MALFORMED_REQUEST",
               request[c].op = "LOGIN" \/ Username(c) \in BadSize)
    /\ UNCHANGED <<users, session, granted, raised>>

RegisterTaken(c) ==
    /\ Serves(c, "REGISTER") /\ WellFormed(c) /\ ReaderEnters
    /\ Found(c) # NotFound
    /\ Answers(c, "USERNAME_TAKEN", FALSE)
    /\ UNCHANGED <<users, session, granted, raised>>

\* Mutant: the handler does not look for the account.
RegisterUnchecked(c) ==
    /\ Serves(c, "REGISTER") /\ WellFormed(c)
    /\ phase' = [phase EXCEPT ![c] = "checked"]
    /\ UNCHANGED <<users, request, session, answer, gone, granted, raised>>

\* check_credentials has found nothing and has released the lock.
RegisterChecked(c) ==
    /\ Serves(c, "REGISTER") /\ WellFormed(c) /\ ReaderEnters
    /\ Found(c) = NotFound
    /\ phase' = [phase EXCEPT ![c] = "checked"]
    /\ UNCHANGED <<users, request, session, answer, gone, granted, raised>>

\* Mutant: the session keeps the level that it had.
RegisterAddedKeepLevel(c) ==
    /\ phase[c] = "checked"
    /\ \E level \in RegisteredLevel :
          WriteUsers(add_user(users, Username(c), Password(c), level))
    /\ LogIn(c, session[c].level)
    /\ Answers(c, "OK", FALSE)
    /\ UNCHANGED raised

\* add_user, with an auth_level that nobody has set; the session is anonymous.
RegisterAdded(c) ==
    /\ phase[c] = "checked"
    /\ \E level \in RegisteredLevel :
          WriteUsers(add_user(users, Username(c), Password(c), level))
    /\ LogIn(c, ANONYMOUS)
    /\ Answers(c, "OK", FALSE)
    /\ UNCHANGED raised

\* The same for the first call of register.c.
RegisterInterrupted(c) ==
    /\ Serves(c, "REGISTER") /\ WellFormed(c)
    /\ Answers(c, "SERVER_ERROR", FALSE)
    /\ UNCHANGED <<users, session, granted, raised>>

\* The second call is interrupted while it sleeps, and stays announced: add_user
\* returns -1, the connection goes on, and no reader gets the lock any more.
AddInterrupted(c) ==
    /\ phase[c] = "checked"
    /\ raised' = TRUE
    /\ Answers(c, "SERVER_ERROR", FALSE)
    /\ UNCHANGED <<users, session, granted>>

\* Who may call which handler of the contacts.
Allowed(op) == IF op = "SEARCH" THEN {USER, ADMIN} ELSE {ADMIN}

Unauthorized(c) ==
    /\ phase[c] = "request" /\ request[c].op \in ContactOp
    /\ session[c].level \notin Allowed(request[c].op)
    /\ Answers(c, "UNAUTHORIZED", FALSE)
    /\ UNCHANGED <<users, session, granted, raised>>

\* handle_insert, handle_delete, handle_search; any answer of theirs is recorded
\* under the name of the operation.
ServeContacts(c) ==
    /\ phase[c] = "request" /\ request[c].op \in ContactOp
    /\ session[c].level \in Allowed(request[c].op)
    /\ Answers(c, request[c].op, FALSE)
    /\ UNCHANGED <<users, session, granted, raised>>

UnknownOpcode(c) ==
    /\ phase[c] = "request" /\ request[c].op \notin Op
    /\ Answers(c, "MALFORMED_REQUEST", TRUE)
    /\ UNCHANGED <<users, session, granted, raised>>

\* Mutant: the user_t outlives the connection.
CloseKeepsSession(c) ==
    /\ phase' = [phase EXCEPT ![c] = "off"]
    /\ request' = [request EXCEPT ![c] = NoRequest]
    /\ answer' = [answer EXCEPT ![c] = NoAnswer]
    /\ gone' = gone \ {c}
    /\ UNCHANGED <<users, session, granted, raised>>

\* close, sem_post, return: the thread and its session are gone.
Close(c) ==
    /\ phase' = [phase EXCEPT ![c] = "off"]
    /\ request' = [request EXCEPT ![c] = NoRequest]
    /\ session' = [session EXCEPT ![c] = Off]
    /\ answer' = [answer EXCEPT ![c] = NoAnswer]
    /\ gone' = gone \ {c}
    /\ UNCHANGED <<users, granted, raised>>

\* send_packet succeeds, if only into the buffer of a client that has left.
Reply(c) ==
    /\ phase[c] = "answer" /\ ~answer[c].closes
    /\ phase' = [phase EXCEPT ![c] = "idle"]
    /\ answer' = [answer EXCEPT ![c] = NoAnswer]
    /\ UNCHANGED <<users, request, session, gone, granted, raised>>

\* It is sent, or it fails because the client has left; the handler closes.
ReplyAndClose(c) ==
    /\ phase[c] = "answer" /\ (answer[c].closes \/ c \in gone)
    /\ Close(c)

\* recv returns 0 or fails.
Disconnected(c) ==
    /\ phase[c] = "idle" /\ c \in gone
    /\ Close(c)

-----------------------------------------------------------------------------

\* The operator types perm, a username and a level: main.c:341.
Perm(username, level) ==
    /\ WithName(users, username) # {}
    /\ WriteUsers(change_permissions(users, username, level))
    /\ UNCHANGED <<phase, request, session, answer, gone, raised>>

\* A handler that may be inside the user database.
UsesAccounts(c) ==
    \/ phase[c] = "checked"
    \/ (Serves(c, "LOGIN") \/ Serves(c, "REGISTER")) /\ WellFormed(c)

\* Its change_permissions sleeps behind one, is interrupted and stays announced.
PermInterrupted ==
    /\ \E c \in Conn : UsesAccounts(c)
    /\ raised' = TRUE
    /\ UNCHANGED <<users, phase, request, session, answer, gone, granted>>

Login(c)    == LoginRefused(c) \/ LoginAccepted(c)
Register(c) == RegisterTaken(c) \/ RegisterChecked(c) \/ RegisterAdded(c)
Contacts(c) == Unauthorized(c) \/ ServeContacts(c)
Finish(c)   == Reply(c) \/ ReplyAndClose(c) \/ Disconnected(c)

Handler(c) ==
    \/ Login(c) \/ Register(c) \/ CredentialsMalformed(c)
    \/ Contacts(c) \/ UnknownOpcode(c) \/ Finish(c)

Interrupted(c) == LoginInterrupted(c) \/ RegisterInterrupted(c) \/ AddInterrupted(c)

Client(c) == Connect(c) \/ Leave(c) \/ \E r \in Request : Send(c, r)

Console ==
    \/ \E change \in ConsoleChange : Perm(change[1], change[2])
    \/ PermInterrupted

Next == Console \/ \E c \in Conn : Client(c) \/ Handler(c) \/ Interrupted(c)

Spec == Init /\ [][Next]_vars

\* Each thread is scheduled.  A writer gets the lock, and a reader does when the
\* writers have all gone, as they do again and again when they come from a console
\* and now and then from a registration (WriterProgress, ReaderProgress of RWLock);
\* a reader behind a writer that has given up does not.  Nothing must interrupt one.
FairSpec == Spec /\ \A c \in Conn : WF_vars(Handler(c))

-----------------------------------------------------------------------------
(***************************************************************************)
(* Properties.                                                             *)
(***************************************************************************)

Phase == {"off", "idle", "request", "checked", "answer"}

\* A thread that has no client keeps no session, and one that has looked up an
\* account is serving a REGISTER.
TypeOK ==
    /\ phase \in [Conn -> Phase]
    /\ gone \subseteq Conn /\ raised \in BOOLEAN
    /\ \A c \in Conn : /\ session[c].level \in 0 .. 255
                       /\ phase[c] = "off" => session[c] = Off /\ c \notin gone
                       /\ phase[c] = "checked" => request[c].op = "REGISTER"
    /\ Grants(users) \subseteq granted

\* Contacts are served only to a session that holds credentials which the user
\* file has at some time associated with a sufficient level.
ContactsGuarded ==
    \A c \in Conn :
        answer[c].status \in ContactOp =>
            \E level \in Allowed(answer[c].status) :
                <<session[c].id[1], session[c].id[2], level>> \in granted

\* What a login with given credentials is granted changes only when the console
\* changes that username, and an account never disappears: neither the
\* registration of the same or of other credentials, nor the race of two of
\* them, does it.
LevelOf(us, u, p) == us[check_credentials(us, u, p)].level

AccountsStable ==
    [][\A i \in DOMAIN users :
          LET u == users[i].username
              p == users[i].password
          IN  \/ /\ check_credentials(users', u, p) # NotFound
                 /\ LevelOf(users', u, p) = LevelOf(users, u, p)
              \/ \E change \in ConsoleChange :
                    change[1] = u /\ Perm(change[1], change[2])]_vars

\* Two clients that register the same credentials may both pass the check, so
\* that there are copies of a record, but never more than there are connections.
DuplicatesBounded ==
    \A i \in DOMAIN users :
        Cardinality(WithCredentials(users, users[i].username, users[i].password))
            <= Cardinality(Conn)

\* An account has the level Anonymous, or one that the console can have given it
\* (docs/relazione.tex:80).
RegisteredAnonymous ==
    \A i \in DOMAIN users :
        users[i].level # ANONYMOUS => <<users[i].username, users[i].level>> \in ConsoleChange

\* A LOGIN or a REGISTER that sleeps behind a writer which has given up.
Blocked(c) ==
    /\ raised
    /\ Serves(c, "LOGIN") \/ Serves(c, "REGISTER")
    /\ WellFormed(c)

\* Every request comes to an answer or to the end of the connection, unless it must
\* look up an account after a writer of the user database was interrupted.  All the
\* others, and a registration that has looked already, are answered even then.
RequestAnswered ==
    \A c \in Conn : phase[c] \in {"request", "checked"} ~>
                       phase[c] \in {"answer", "off"} \/ Blocked(c)
=============================================================================
