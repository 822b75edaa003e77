-------------------------------- MODULE UserDB --------------------------------
(***************************************************************************)
(* The operations of src/server/database/user_db.c, on the file seen as    *)
(* the sequence of its records, in the order in which the scans meet them. *)
(* Each is applied inside the lock of RWLock, so as one step.              *)
(*                                                                         *)
(* A record is found by its username, or by its username and the digest of *)
(* its password; several may have the same username, or the same of both.  *)
(***************************************************************************)
EXTENDS Naturals, Sequences, SequencesExt

ANONYMOUS == 0
USER == 1
ADMIN == 2

NotFound == 0

WithName(users, username) == { i \in DOMAIN users : users[i].username = username }

WithCredentials(users, username, password) ==
    { i \in WithName(users, username) : users[i].password = password }

\* The scan stops at the first record that it looks for.
First(found) == IF found = {} THEN NotFound ELSE Min(found)

\* Mutant: the scan goes on, and the last record with the credentials counts.
check_credentials_last(users, username, password) ==
    LET found == WithCredentials(users, username, password)
    IN  IF found = {} THEN NotFound ELSE Max(found)

\* The record that a login with these credentials finds, or NotFound.
check_credentials(users, username, password) ==
    First(WithCredentials(users, username, password))

\* Appended at the end of the file.
add_user(users, username, password, level) ==
    Append(users, [username |-> username, password |-> password, level |-> level])

\* Only the first record with that username is changed.
change_permissions(users, username, level) ==
    LET i == First(WithName(users, username))
    IN  IF i = NotFound THEN users ELSE [users EXCEPT ![i].level = level]
=============================================================================
