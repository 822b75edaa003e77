---------------------------- MODULE MCLockedUserDB ----------------------------
(***************************************************************************)
(* The calls with which TLC runs LockedUserDB: a login, the registration   *)
(* of two accounts, and a change of level of the second.                   *)
(***************************************************************************)
EXTENDS LockedUserDB

CONSTANTS anna, mario, p

Check(u) == [op |-> "check_credentials", username |-> u, password |-> p]
Add(u) == [op |-> "add_user", username |-> u, password |-> p, level |-> ANONYMOUS]
Change(u) == [op |-> "change_permissions", username |-> u, level |-> ADMIN]

MCJobs == {Check(mario), Add(anna), Add(mario), Change(mario)}
=============================================================================
