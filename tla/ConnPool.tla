------------------------------- MODULE ConnPool -------------------------------
(***************************************************************************)
(* The accept loop of src/server/main.c, and how connection_handler gives  *)
(* back what it was given: the descriptor of the connection and a unit of  *)
(* conn_sem, in two steps.                                                 *)
(*                                                                         *)
(* The threads are neither joined nor detached, so that each connection    *)
(* leaves something behind in the process; when pthread_create fails the   *)
(* process exits, as it does when accept fails.  Somebody starts it again. *)
(***************************************************************************)
EXTENDS Naturals, Sequences, FiniteSets

CONSTANTS Client,           \* those who connect
          MAX_CONNECTIONS,  \* 16 in config.h: of conn_sem and of the backlog
          MaxThreads        \* how many threads the process can create in its life

ASSUME ClientAssumption == IsFiniteSet(Client)
ASSUME MaxAssumption == MAX_CONNECTIONS \in Nat /\ MaxThreads \in Nat

VARIABLES up,       \* whether the process runs
          conn_sem,
          backlog,  \* the connections that the kernel has established, oldest first
          state,    \* where each client is
          open,     \* the clients whose descriptor the process holds
          threads   \* the threads created so far

vars == <<up, conn_sem, backlog, state, open, threads>>

\* accepted: the main thread has its descriptor; admitted: and a unit of conn_sem;
\* closed: its thread has closed the descriptor and not yet called sem_post.
State == {"away", "queued", "accepted", "admitted", "served", "closed"}

In(states) == { c \in Client : state[c] \in states }

Move(c, from, to) == state[c] = from /\ state' = [state EXCEPT ![c] = to]

Init ==
    /\ up = TRUE
    /\ conn_sem = MAX_CONNECTIONS
    /\ backlog = << >>
    /\ state = [c \in Client |-> "away"]
    /\ open = {}
    /\ threads = 0

-----------------------------------------------------------------------------

Connect(c) ==
    /\ Move(c, "away", "queued")
    /\ Len(backlog) < MAX_CONNECTIONS
    /\ backlog' = Append(backlog, c)
    /\ UNCHANGED <<up, conn_sem, open, threads>>

\* The main thread does one connection at a time.
Accept ==
    /\ In({"accepted", "admitted"}) = {}
    /\ backlog # << >>
    /\ Move(Head(backlog), "queued", "accepted")
    /\ open' = open \cup {Head(backlog)}
    /\ backlog' = Tail(backlog)
    /\ UNCHANGED <<up, conn_sem, threads>>

\* accept returns -1: sem_post, and main returns.
AcceptFails ==
    /\ In({"accepted", "admitted"}) = {}
    /\ conn_sem' = conn_sem + 1
    /\ up' = FALSE
    /\ UNCHANGED <<backlog, state, open, threads>>

\* Mutant: the result of sem_trywait is ignored.
AdmitUnchecked(c) ==
    /\ Move(c, "accepted", "admitted")
    /\ conn_sem' = IF conn_sem > 0 THEN conn_sem - 1 ELSE 0
    /\ UNCHANGED <<up, backlog, open, threads>>

\* sem_trywait succeeds.
Admit(c) ==
    /\ Move(c, "accepted", "admitted")
    /\ conn_sem > 0
    /\ conn_sem' = conn_sem - 1
    /\ UNCHANGED <<up, backlog, open, threads>>

\* Mutant: the connection is refused and its descriptor stays open.
RefuseKeepsOpen(c) ==
    /\ Move(c, "accepted", "away")
    /\ conn_sem = 0
    /\ UNCHANGED <<up, conn_sem, backlog, open, threads>>

\* Mutant: sem_wait instead of sem_trywait, so that nobody is refused.
RefuseNever(c) == FALSE

\* sem_trywait fails: SERVER_ERROR is sent and the descriptor closed.
Refuse(c) ==
    /\ Move(c, "accepted", "away")
    /\ conn_sem = 0
    /\ open' = open \ {c}
    /\ UNCHANGED <<up, conn_sem, backlog, threads>>

StartThread(c) ==
    /\ Move(c, "admitted", "served")
    /\ threads < MaxThreads
    /\ threads' = threads + 1
    /\ UNCHANGED <<up, conn_sem, backlog, open>>

\* pthread_create fails: exit(-1).
NoThread(c) ==
    /\ state[c] = "admitted"
    /\ threads = MaxThreads
    /\ up' = FALSE
    /\ UNCHANGED <<conn_sem, backlog, state, open, threads>>

\* Mutant: a path out of the handler forgets close.
CloseForgotten(c) ==
    /\ Move(c, "served", "closed")
    /\ UNCHANGED <<up, conn_sem, backlog, open, threads>>

\* The thread leaves connection_handler, on any of its paths: close ...
CloseFd(c) ==
    /\ Move(c, "served", "closed")
    /\ open' = open \ {c}
    /\ UNCHANGED <<up, conn_sem, backlog, threads>>

\* Mutant: a path out of the handler forgets sem_post.
PostForgotten(c) ==
    /\ Move(c, "closed", "away")
    /\ UNCHANGED <<up, conn_sem, backlog, open, threads>>

\* ... and sem_post.
Post(c) ==
    /\ Move(c, "closed", "away")
    /\ conn_sem' = conn_sem + 1
    /\ UNCHANGED <<up, backlog, open, threads>>

\* main: sem_init and the rest, in a new process.
Restart ==
    /\ ~up
    /\ up' = TRUE
    /\ conn_sem' = MAX_CONNECTIONS
    /\ backlog' = << >>
    /\ state' = [c \in Client |-> "away"]
    /\ open' = {}
    /\ threads' = 0

Main == \/ Accept
        \/ \E c \in Client : Admit(c) \/ Refuse(c) \/ StartThread(c) \/ NoThread(c)

Next ==
    \/ up /\ \/ Main
             \/ AcceptFails
             \/ \E c \in Client : Connect(c) \/ CloseFd(c) \/ Post(c)
    \/ Restart

Spec == Init /\ [][Next]_vars

\* The main thread is scheduled.  Nothing makes a client connect or leave, or
\* accept fail, or the operator start the server again.
FairSpec == Spec /\ WF_vars(up /\ Main)

-----------------------------------------------------------------------------
(***************************************************************************)
(* Properties.                                                             *)
(***************************************************************************)

\* The main thread has at most one connection in its hands, and a descriptor is
\* open from accept to close, whichever thread is to close it.
TypeOK ==
    /\ up \in BOOLEAN
    /\ conn_sem \in Nat
    /\ backlog \in Seq(Client)
    /\ state \in [Client -> State]
    /\ \A c, d \in In({"accepted", "admitted"}) : c = d
    /\ open = In({"accepted", "admitted", "served"})
    /\ threads \in 0 .. MaxThreads

\* No path through the accept loop or out of a handler loses or invents a unit
\* of conn_sem.
SlotsConserved ==
    up => conn_sem + Cardinality(In({"admitted", "served", "closed"})) = MAX_CONNECTIONS

\* The descriptors of the process stay bounded: one per slot, and the one that
\* the main thread is about to refuse.
DescriptorsBounded == Cardinality(open) <= MAX_CONNECTIONS + 1

\* A connection that is established is not left waiting: it is served or refused,
\* unless the process ends.
QueueServed ==
    \A c \in Client : state[c] = "queued" ~> (state[c] \in {"served", "away"} \/ ~up)

\* The clients connected are a bounded pool.
Pool == INSTANCE SlotPool WITH held <- In({"admitted", "served", "closed"})
ImplementsSlotPool == Pool!Spec
=============================================================================
