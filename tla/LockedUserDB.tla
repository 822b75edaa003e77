----------------------------- MODULE LockedUserDB -----------------------------
(***************************************************************************)
(* The user database under its lock: the threads of RWLock walk the user   *)
(* file of src/server/database/user_db.c one record at a time, and write   *)
(* what they have decided in a step of its own.  Only the lock keeps them  *)
(* apart.                                                                  *)
(*                                                                         *)
(* A call whose semop is interrupted returns -1, and its callers go on.    *)
(* A record is whole or is being written, by a pwrite_exact of one or more *)
(* pwrites; UserFile has the bytes.                                        *)
(***************************************************************************)
EXTENDS RWLock, UserDB, Integers

CONSTANTS Job,       \* the calls of the handlers and of the console
          MaxUsers   \* bound on the records of the file

ASSUME JobAssumption ==
    \A j \in Job : j.op \in {"check_credentials", "add_user", "change_permissions"}

VARIABLES users,   \* the records, in their order in the file
          half,    \* the numbers of those of which a part is written
          job,     \* what each thread has called, or NoJob
          step,    \* where it is in it: "scan", "seek", "write", "done", or "none"
          offset,  \* its local variable: the number of a record, or the end
          result   \* what it returns

dbVars == <<users, half, job, step, offset, result>>
allVars == <<vars, dbVars>>

NoJob == [op |-> "none"]
Nothing == [status |-> "none"]
Returned(status) == [status |-> status]

DbInit ==
    /\ Init
    /\ users = << >> /\ half = {}
    /\ job = [t \in Thread |-> NoJob]
    /\ step = [t \in Thread |-> "none"]
    /\ offset = [t \in Thread |-> 1]
    /\ result = [t \in Thread |-> Nothing]

-----------------------------------------------------------------------------

Adding == { t \in Thread : job[t].op = "add_user" /\ step[t] # "done" }

\* check_credentials reads, add_user and change_permissions write.
Call(t, j) ==
    /\ IF j.op = "check_credentials" THEN AskRead(t) ELSE AnnounceWriter(t)
    /\ j.op = "add_user" => Len(users) + Cardinality(Adding) < MaxUsers
    /\ job' = [job EXCEPT ![t] = j]
    /\ UNCHANGED <<users, half, step, offset, result>>

\* The lock is held, and the offset is 0: the first record.
Enter(t) ==
    /\ step' = [step EXCEPT ![t] = IF job[t].op = "add_user" THEN "seek" ELSE "scan"]
    /\ offset' = [offset EXCEPT ![t] = 1]
    /\ UNCHANGED <<users, half, job, result>>

EnterReader(t) == GetReader(t) /\ Enter(t)
EnterWriter(t) == GetWriter(t) /\ Enter(t)

Finish(t, res) ==
    /\ step' = [step EXCEPT ![t] = "done"]
    /\ result' = [result EXCEPT ![t] = res]

\* Is the record one that the scan looks for?  Usernames differ in their lengths.
Wanted(t, record) ==
    /\ record.username = job[t].username
    /\ job[t].op = "check_credentials" =>
          record.password = job[t].password \/ offset[t] \in half

\* What the scan makes of a record that it looks for; of one that is not whole
\* it reads too little: -2.
Decide(t) ==
    IF offset[t] \in half THEN Finish(t, Returned(-2))
    ELSE IF job[t].op = "check_credentials"
    THEN Finish(t, [status |-> 1, level |-> users[offset[t]].level])
    ELSE step' = [step EXCEPT ![t] = "write"] /\ UNCHANGED result

\* Mutant: read, and not pread: the threads share the offset of the file.
LookShared(t) ==
    /\ step[t] = "scan"
    /\ IF offset[t] > Len(users)
       THEN Finish(t, Returned(0)) /\ UNCHANGED offset
       ELSE IF Wanted(t, users[offset[t]])
       THEN Decide(t) /\ UNCHANGED offset
       ELSE /\ offset' = [u \in Thread |-> IF step[u] = "scan" THEN offset[u] + 1 ELSE offset[u]]
            /\ UNCHANGED <<step, result>>
    /\ UNCHANGED <<vars, users, half, job>>

\* One turn of the loop of _unlocked_check_credentials or
\* _unlocked_change_permissions: pread of a record, or of nothing at the end.
Look(t) ==
    /\ step[t] = "scan"
    /\ IF offset[t] > Len(users)
       THEN Finish(t, Returned(0)) /\ UNCHANGED offset
       ELSE IF Wanted(t, users[offset[t]])
       THEN Decide(t) /\ UNCHANGED offset
       ELSE /\ offset' = [offset EXCEPT ![t] = @ + 1]
            /\ UNCHANGED <<step, result>>
    /\ UNCHANGED <<vars, users, half, job>>

\* lseek to the end, in _unlocked_add_user.
Seek(t) ==
    /\ step[t] = "seek"
    /\ offset' = [offset EXCEPT ![t] = Len(users) + 1]
    /\ step' = [step EXCEPT ![t] = "write"]
    /\ UNCHANGED <<vars, users, half, job, result>>

\* pwrite_exact of the new record, where the end was: a part of it, and the rest.
WritePart(t) ==
    LET j      == job[t]
        record == [username |-> j.username, password |-> j.password, level |-> j.level]
    IN  /\ step[t] = "write" /\ j.op = "add_user" /\ offset[t] \notin half
        /\ users' = [i \in DOMAIN users \cup {offset[t]} |->
                        IF i = offset[t] THEN record ELSE users[i]]
        /\ half' = half \cup {offset[t]}
        /\ UNCHANGED <<vars, job, step, offset, result>>

WriteRest(t) ==
    /\ step[t] = "write" /\ job[t].op = "add_user" /\ offset[t] \in half
    /\ half' = half \ {offset[t]}
    /\ Finish(t, Returned(0))
    /\ UNCHANGED <<vars, users, job, offset>>

\* pwrite of the level, where the record was found.
WriteLevel(t) ==
    /\ step[t] = "write" /\ job[t].op = "change_permissions"
    /\ users' = [users EXCEPT ![offset[t]].level = job[t].level]
    /\ Finish(t, Returned(1))
    /\ UNCHANGED <<vars, half, job, offset>>

Back(t) ==
    /\ step' = [step EXCEPT ![t] = "none"]
    /\ job' = [job EXCEPT ![t] = NoJob]
    /\ result' = [result EXCEPT ![t] = Nothing]
    /\ UNCHANGED <<users, half, offset>>

LeaveReader(t) == step[t] = "done" /\ ReleaseReader(t) /\ Back(t)
LeaveWriter(t) == step[t] = "done" /\ ReleaseWriter(t) /\ Back(t)

\* The lock is not given: -1.
Fail(t) == (InterruptReader(t) \/ InterruptWriter(t)) /\ Back(t)

-----------------------------------------------------------------------------

Section(t) == Look(t) \/ Seek(t) \/ WritePart(t) \/ WriteRest(t) \/ WriteLevel(t)

DbNext ==
    \E t \in Thread :
        \/ \E j \in Job : Call(t, j)
        \/ EnterReader(t) \/ EnterWriter(t)
        \/ Section(t)
        \/ LeaveReader(t) \/ LeaveWriter(t)
        \/ Fail(t)

DbSpec == DbInit /\ [][DbNext]_allVars

\* A thread inside is scheduled, and its scan ends with the file; for the two
\* semops that sleep, see Fairness of RWLock.
DbFairness ==
    \A t \in Thread : /\ WF_allVars(Section(t))
                      /\ WF_allVars(LeaveReader(t)) /\ WF_allVars(LeaveWriter(t))
                      /\ SF_allVars(EnterReader(t)) /\ SF_allVars(EnterWriter(t))

FairDbSpec == DbSpec /\ DbFairness

-----------------------------------------------------------------------------
(***************************************************************************)
(* Properties, beside those of RWLock.                                     *)
(***************************************************************************)

\* Where a call is, seen from outside.
Stage(t) ==
    CASE pc[t] = "idle" -> "idle"
      [] step[t] = "done" -> "done"
      [] OTHER -> "called"

\* The records that are whole: only the last one can be without its end.
Whole == IF half = {} THEN users ELSE SubSeq(users, 1, Len(users) - 1)

A == INSTANCE AtomicUserDB WITH users <- Whole,
                                stage <- [t \in Thread |-> Stage(t)]

\* The database is atomic: each call of each thread takes effect at once, on
\* accounts that no other call has half changed.  No login meets a record that
\* is being written, no account is written over by another registration, and a
\* call that is interrupted has no effect.
ImplementsAtomicUserDB == A!Spec
=============================================================================
