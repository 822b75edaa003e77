----------------------------- MODULE AtomicUserDB -----------------------------
(***************************************************************************)
(* What the threads of the server get from the user database: a call takes *)
(* effect once, all at once, at some moment between its start and its      *)
(* return, as the operators of UserDB say; or it fails and has no effect.  *)
(* Server and UserFile have each call as one step.                         *)
(***************************************************************************)
EXTENDS UserDB

CONSTANTS Thread,
          Job       \* the calls: [op |-> ..., username |-> ..., password |-> ..., level |-> ...]

VARIABLES users,    \* the accounts, in their order in the file
          stage,    \* of each thread: "idle", "called" or "done"
          job,      \* what it has called
          result    \* what it will return

vars == <<users, stage, job, result>>

NoJob == [op |-> "none"]
Nothing == [status |-> "none"]
Returned(status) == [status |-> status]

Init ==
    /\ users = << >>
    /\ stage = [t \in Thread |-> "idle"]
    /\ job = [t \in Thread |-> NoJob]
    /\ result = [t \in Thread |-> Nothing]

Call(t, j) ==
    /\ stage[t] = "idle"
    /\ stage' = [stage EXCEPT ![t] = "called"]
    /\ job' = [job EXCEPT ![t] = j]
    /\ UNCHANGED <<users, result>>

\* What check_credentials finds, with the level it gives.
Check(u, p) ==
    LET i == check_credentials(users, u, p)
    IN  IF i = NotFound THEN Returned(0) ELSE [status |-> 1, level |-> users[i].level]

Effect(t) ==
    LET j == job[t]
    IN  \/ /\ j.op = "check_credentials"
           /\ result' = [result EXCEPT ![t] = Check(j.username, j.password)]
           /\ UNCHANGED users
        \/ /\ j.op = "add_user"
           /\ result' = [result EXCEPT ![t] = Returned(0)]
           /\ users' = add_user(users, j.username, j.password, j.level)
        \/ /\ j.op = "change_permissions"
           /\ result' = [result EXCEPT ![t] =
                            Returned(IF WithName(users, j.username) = {} THEN 0 ELSE 1)]
           /\ users' = change_permissions(users, j.username, j.level)

Do(t) ==
    /\ stage[t] = "called"
    /\ stage' = [stage EXCEPT ![t] = "done"]
    /\ Effect(t)
    /\ UNCHANGED job

Back(t, from) ==
    /\ stage[t] = from
    /\ stage' = [stage EXCEPT ![t] = "idle"]
    /\ job' = [job EXCEPT ![t] = NoJob]
    /\ result' = [result EXCEPT ![t] = Nothing]
    /\ UNCHANGED users

Next ==
    \E t \in Thread :
        \/ \E j \in Job : Call(t, j)
        \/ Do(t) \/ Back(t, "done") \/ Back(t, "called")

Spec == Init /\ [][Next]_vars
=============================================================================
