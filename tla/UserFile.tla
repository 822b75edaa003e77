------------------------------- MODULE UserFile -------------------------------
(***************************************************************************)
(* The user file byte by byte, as src/server/database/user_db.c reads and  *)
(* writes it, with what login.c, register.c and the console make of the    *)
(* results:                                                                *)
(*                                                                         *)
(*    USERNAME_LEN (1) | AUTH_LEVEL (1) | PASSWORD (32) | username         *)
(*                                                                         *)
(* Each call runs inside the lock of RWLock, so as one step.  An append    *)
(* that a full disk cuts short leaves part of a record behind, and the     *)
(* server goes on: what comes after it is read out of frame.               *)
(***************************************************************************)
EXTENDS UserDB, DbFile, FiniteSets

CONSTANTS Credentials,      \* pairs of a username and a digest, sequences of bytes
          RegisteredLevel,  \* what new_user.auth_level may hold: nobody sets it
          ConsoleLevel,     \* the levels that the console sets
          MaxRegistering,   \* bound on the threads between the two calls of register.c
          MaxAppends,       \* bound on the records written, whole or not
          MaxTorn           \* bound on those cut short by a full disk

PASSWORD_LEN == 32

Username == { c[1] : c \in Credentials }

ASSUME UserFileAssumption ==
    /\ Credentials \subseteq Seq(32 .. 126) \X Seq(Byte)
    /\ \A c \in Credentials : Len(c[1]) \in 4 .. 32 /\ Len(c[2]) = PASSWORD_LEN
    /\ RegisteredLevel \subseteq Byte
    /\ ConsoleLevel \subseteq {ANONYMOUS, USER, ADMIN}

VARIABLES file,         \* the bytes of USER_DB_FILENAME
          registering,  \* the credentials of which register.c has looked up the account
          reply,        \* the answer to the last request, or what perm prints
          appends,      \* records written so far, whole or not
          torn,         \* those cut short
          stored        \* the accounts answered OK before the first of these, with
                        \* the levels that the console has given them since

vars == <<file, registering, reply, appends, torn, stored>>

NoReply == [status |-> "none"]
Granted(level) == [status |-> "OK", level |-> level]
Answer(status) == [status |-> status]

Init ==
    /\ file = << >>
    /\ registering = {}
    /\ reply = NoReply
    /\ appends = 0
    /\ torn = 0
    /\ stored = << >>

-----------------------------------------------------------------------------
(***************************************************************************)
(* The walk over the records that the two scans share: where it goes does  *)
(* not depend on the username that they look for.                          *)
(***************************************************************************)

UsernameLength(f, o) == f[o + 1]
LevelAt(f, o)        == f[o + 2]
PasswordAt(f, o)     == Pread(f, PASSWORD_LEN, o + 2)
UsernameAt(f, o)     == Pread(f, UsernameLength(f, o), o + 2 + PASSWORD_LEN)

\* Mutant: the byte of the level is not skipped with the rest.
AfterNoLevel(f, o) == o + 1 + PASSWORD_LEN + UsernameLength(f, o)

After(f, o) == o + 2 + PASSWORD_LEN + UsernameLength(f, o)

\* The offsets at which a scan that finds nothing reads a username_length.
Starts(f) ==
    LET from[o \in Nat] == IF o >= Len(f) THEN {} ELSE {o} \cup from[After(f, o)]
    IN  from[0]

\* pread of the rest of the record returns fewer bytes than asked for, but some.
Short(f, o) == After(f, o) > Len(f) /\ o + 1 < Len(f)

IsWhole(f, o) == After(f, o) <= Len(f)

\* The records of which a scan for a username reads more than the length, and
\* where it ends: with "corrupted database", or with one of the passwords.
Ends(f, u, passwords) ==
    { o \in Starts(f) :
        /\ UsernameLength(f, o) = Len(u)
        /\ Short(f, o) \/ (IsWhole(f, o) /\ UsernameAt(f, o) = u /\ PasswordAt(f, o) \in passwords) }

\* The status of a scan, and where the record is: -2, 0 or 1.
Scan(f, u, passwords) ==
    LET ends == Ends(f, u, passwords)
    IN  IF ends = {} THEN [status |-> 0]
        ELSE IF Short(f, Min(ends)) THEN [status |-> -2]
        ELSE [status |-> 1, offset |-> Min(ends)]

CheckCredentials(f, u, p) == Scan(f, u, {p})

\* A change of level does not look at the password.
FindUser(f, u) == Scan(f, u, [1 .. PASSWORD_LEN -> Byte])

\* Mutant: the username is written with its terminator.
RecordTerminated(u, p, level) == <<Len(u), level>> \o p \o u \o <<0>>

Record(u, p, level) == <<Len(u), level>> \o p \o u

-----------------------------------------------------------------------------
(***************************************************************************)
(* The handlers.                                                           *)
(***************************************************************************)

\* The status -2 has no case in handle_login: nothing is sent, and the
\* connection goes on.
LoginAnswer(scan) ==
    CASE scan.status = 0  -> Answer("INVALID_CREDENTIALS")
      [] scan.status = 1  -> Granted(LevelAt(file, scan.offset))
      [] scan.status = -2 -> Answer("silence")

Login(u, p) ==
    /\ reply' = LoginAnswer(CheckCredentials(file, u, p))
    /\ UNCHANGED <<file, registering, appends, torn, stored>>

RegisterTaken(u, p) ==
    /\ CheckCredentials(file, u, p).status = 1
    /\ reply' = Answer("USERNAME_TAKEN")
    /\ UNCHANGED <<file, registering, appends, torn, stored>>

\* -2 has no case in handle_register either, which goes on as for 0.
RegisterChecked(u, p) ==
    /\ CheckCredentials(file, u, p).status # 1
    /\ Cardinality(registering) < MaxRegistering
    /\ registering' = registering \cup {<<u, p>>}
    /\ UNCHANGED <<file, reply, appends, torn, stored>>

\* One more append, before or after the first that was cut short.
Appended(newFile) ==
    /\ appends < MaxAppends
    /\ appends' = appends + 1
    /\ file' = newFile

\* Mutant: the record is written where the walk stops reading, and not at the
\* end of the file.
RegisterAddedAtLast(u, p) ==
    /\ <<u, p>> \in registering
    /\ \E level \in RegisteredLevel :
          /\ Appended(Pwrite(file, Record(u, p, level), Max(Starts(file) \cup {0})))
          /\ stored' = IF torn = 0 THEN add_user(stored, u, p, level) ELSE stored
    /\ registering' = registering \ {<<u, p>>}
    /\ reply' = Answer("OK")
    /\ UNCHANGED torn

\* _unlocked_add_user, at the end of the file that lseek gives.
RegisterAdded(u, p) ==
    /\ <<u, p>> \in registering
    /\ \E level \in RegisteredLevel :
          /\ Appended(Pwrite(file, Record(u, p, level), Len(file)))
          /\ stored' = IF torn = 0 THEN add_user(stored, u, p, level) ELSE stored
    /\ registering' = registering \ {<<u, p>>}
    /\ reply' = Answer("OK")
    /\ UNCHANGED torn

\* The disk is full: what was written stays, and the server goes on.
RegisterTorn(u, p) ==
    /\ <<u, p>> \in registering
    /\ torn < MaxTorn
    /\ \E level \in RegisteredLevel :
          \E newFile \in TornWrites(file, Record(u, p, level), Len(file)) : Appended(newFile)
    /\ torn' = torn + 1
    /\ registering' = registering \ {<<u, p>>}
    /\ reply' = Answer("SERVER_ERROR")
    /\ UNCHANGED stored

\* What the console prints; -2 has no case, and nothing is printed.
PermAnswer(scan) ==
    CASE scan.status = 0  -> Answer("unknown")
      [] scan.status = 1  -> Answer("changed")
      [] scan.status = -2 -> Answer("silence")

\* Mutant: the offset has been advanced by 1 once too few.
PermBefore(u, level) ==
    LET scan == FindUser(file, u)
    IN  /\ file' = IF scan.status = 1 THEN Pwrite(file, <<level>>, scan.offset) ELSE file
        /\ reply' = PermAnswer(scan)
        /\ stored' = change_permissions(stored, u, level)
        /\ UNCHANGED <<registering, appends, torn>>

\* _unlocked_change_permissions overwrites one byte, which no full disk prevents.
Perm(u, level) ==
    LET scan == FindUser(file, u)
    IN  /\ file' = IF scan.status = 1 THEN Pwrite(file, <<level>>, scan.offset + 1) ELSE file
        /\ reply' = PermAnswer(scan)
        /\ stored' = change_permissions(stored, u, level)
        /\ UNCHANGED <<registering, appends, torn>>

\* The process ends and is started again: init_user_db opens the file as it is.
Restart ==
    /\ registering' = {}
    /\ reply' = NoReply
    /\ UNCHANGED <<file, appends, torn, stored>>

Next ==
    \/ Restart
    \/ \E c \in Credentials :
          \/ Login(c[1], c[2])
          \/ RegisterTaken(c[1], c[2]) \/ RegisterChecked(c[1], c[2])
          \/ RegisterAdded(c[1], c[2]) \/ RegisterTorn(c[1], c[2])
    \/ \E u \in Username, level \in ConsoleLevel : Perm(u, level)

Spec == Init /\ [][Next]_vars

-----------------------------------------------------------------------------
(***************************************************************************)
(* Properties.                                                             *)
(***************************************************************************)

AccountAt(f, o) == [username |-> UsernameAt(f, o), password |-> PasswordAt(f, o),
                    level |-> LevelAt(f, o)]

\* The accounts in the file, in the order in which the scans meet them.
Users(f) ==
    LET from[o \in Nat] ==
          IF o >= Len(f) THEN << >>
          ELSE (IF IsWhole(f, o) THEN <<AccountAt(f, o)>> ELSE << >>) \o from[After(f, o)]
    IN  from[0]

\* A file without a torn append is a row of whole records.
TypeOK ==
    /\ torn = 0 => \A o \in Starts(file) : IsWhole(file, o)
    /\ Range(file) \subseteq Byte
    /\ registering \subseteq Credentials
    /\ torn <= appends

A == INSTANCE Accounts WITH users <- Users(file), Level <- RegisteredLevel \cup ConsoleLevel

\* As long as no append is cut short, the file with its scans implements the
\* list of accounts: records of any length are walked in frame, the first that
\* has the credentials counts, and a change of level finds its byte.
ImplementsAccounts ==
    A!Init /\ [][torn' = 0 => A!Next]_A!vars

\* The accounts stored before the first torn append are found for ever, with the
\* level that the console last gave them: what lies behind them, in frame or not,
\* neither hides them nor is a change of level written into them.
StoredFound ==
    \A c \in Credentials :
        LET i    == check_credentials(stored, c[1], c[2])
            scan == CheckCredentials(file, c[1], c[2])
        IN  i # NotFound => /\ scan.status = 1
                            /\ LevelAt(file, scan.offset) = stored[i].level
=============================================================================
