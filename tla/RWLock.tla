------------------------------- MODULE RWLock -------------------------------
(***************************************************************************)
(* The readers-writers lock of src/server/database/sync.c: one System V    *)
(* semaphore set of three semaphores.  Every action below is one semop     *)
(* call, which the kernel applies to all its semaphores or to none.        *)
(*                                                                         *)
(* user_db.c and contact_db.c each keep one such lock.  A thread is a      *)
(* connection handler or the console thread; it calls the lock as a reader *)
(* or as a writer, as the request it serves requires.                      *)
(*                                                                         *)
(* A semop that sleeps fails with EINTR when the process is stopped and    *)
(* continued, or handles a signal: rwlock_get_reader and rwlock_get_writer *)
(* then return false, and their caller goes on without the lock.  A semop  *)
(* that can go on at once does not sleep, and does not fail.               *)
(***************************************************************************)
EXTENDS Naturals, FiniteSets

CONSTANTS Thread,         \* the threads that use the database
          MaxInterrupts   \* bound on the writers interrupted while they sleep

ASSUME ThreadAssumption == IsFiniteSet(Thread)
ASSUME InterruptAssumption == MaxInterrupts \in Nat

VARIABLES semReaders,        \* semaphore 0, SEM_READERS
          semWriterWaiting,  \* semaphore 1, SEM_WRITER_WAITING
          mutexWriting,      \* semaphore 2, MUTEX_WRITING
          pc,                \* where each thread is in the protocol
          abandoned          \* writers that left without the lock

vars == <<semReaders, semWriterWaiting, mutexWriting, pc, abandoned>>

Phase == {"idle", "wantRead", "reading", "wantWrite", "writing"}

In(phases) == {t \in Thread : pc[t] \in phases}

-----------------------------------------------------------------------------

Init ==  \* rwlock_init: SETALL {0, 0, 1}
    /\ semReaders = 0
    /\ semWriterWaiting = 0
    /\ mutexWriting = 1
    /\ pc = [t \in Thread |-> "idle"]
    /\ abandoned = 0

Goto(t, from, to) == pc[t] = from /\ pc' = [pc EXCEPT ![t] = to]

\* A reader calls rwlock_get_reader; it may have to sleep in its semop.
AskRead(t) ==
    /\ Goto(t, "idle", "wantRead")
    /\ UNCHANGED <<semReaders, semWriterWaiting, mutexWriting, abandoned>>

\* Mutant: the reader does not wait for the announced writers, only for the mutex.
GetReaderPastWaiters(t) ==
    /\ Goto(t, "wantRead", "reading")
    /\ mutexWriting = 1
    /\ semReaders' = semReaders + 1
    /\ UNCHANGED <<semWriterWaiting, mutexWriting, abandoned>>

\* Mutant: the reader waits on semaphore 2, MUTEX_WRITING, instead of 1.
GetReaderWrongSemaphore(t) ==
    /\ Goto(t, "wantRead", "reading")
    /\ mutexWriting = 0
    /\ semReaders' = semReaders + 1
    /\ UNCHANGED <<semWriterWaiting, mutexWriting, abandoned>>

\* {SEM_WRITER_WAITING == 0, SEM_READERS += 1} in one semop.
GetReader(t) ==
    /\ Goto(t, "wantRead", "reading")
    /\ semWriterWaiting = 0
    /\ semReaders' = semReaders + 1
    /\ UNCHANGED <<semWriterWaiting, mutexWriting, abandoned>>

ReleaseReader(t) ==
    /\ Goto(t, "reading", "idle")
    /\ semReaders > 0
    /\ semReaders' = semReaders - 1
    /\ UNCHANGED <<semWriterWaiting, mutexWriting, abandoned>>

\* The first semop of rwlock_get_writer, which never sleeps.
AnnounceWriter(t) ==
    /\ Goto(t, "idle", "wantWrite")
    /\ semWriterWaiting' = semWriterWaiting + 1
    /\ UNCHANGED <<semReaders, mutexWriting, abandoned>>

\* Mutant: the writer takes the mutex and does not wait for the readers to leave.
GetWriterAmongReaders(t) ==
    /\ Goto(t, "wantWrite", "writing")
    /\ mutexWriting > 0
    /\ mutexWriting' = mutexWriting - 1
    /\ UNCHANGED <<semReaders, semWriterWaiting, abandoned>>

\* Mutant: the writer waits for the readers first and takes the mutex unchecked.
GetWriterNoMutex(t) ==
    /\ Goto(t, "wantWrite", "writing")
    /\ semReaders = 0
    /\ mutexWriting' = 0
    /\ UNCHANGED <<semReaders, semWriterWaiting, abandoned>>

\* Its second semop: {MUTEX_WRITING -= 1, SEM_READERS == 0}.
GetWriter(t) ==
    /\ Goto(t, "wantWrite", "writing")
    /\ mutexWriting > 0
    /\ semReaders = 0
    /\ mutexWriting' = mutexWriting - 1
    /\ UNCHANGED <<semReaders, semWriterWaiting, abandoned>>

\* Mutant: the release forgets SEM_WRITER_WAITING.
ReleaseWriterStillWaiting(t) ==
    /\ Goto(t, "writing", "idle")
    /\ mutexWriting' = mutexWriting + 1
    /\ UNCHANGED <<semReaders, semWriterWaiting, abandoned>>

\* Mutant: the release forgets MUTEX_WRITING.
ReleaseWriterKeepMutex(t) ==
    /\ Goto(t, "writing", "idle")
    /\ semWriterWaiting > 0
    /\ semWriterWaiting' = semWriterWaiting - 1
    /\ UNCHANGED <<semReaders, mutexWriting, abandoned>>

\* {SEM_WRITER_WAITING -= 1, MUTEX_WRITING += 1} in one semop.
ReleaseWriter(t) ==
    /\ Goto(t, "writing", "idle")
    /\ semWriterWaiting > 0
    /\ semWriterWaiting' = semWriterWaiting - 1
    /\ mutexWriting' = mutexWriting + 1
    /\ UNCHANGED <<semReaders, abandoned>>

\* The semop of a reader sleeps, behind a writer, and fails: nothing has been
\* changed.
InterruptReader(t) ==
    /\ MaxInterrupts > 0
    /\ semWriterWaiting # 0
    /\ Goto(t, "wantRead", "idle")
    /\ UNCHANGED <<semReaders, semWriterWaiting, mutexWriting, abandoned>>

\* The second semop of a writer cannot go on: a writer or a reader is inside.
WriterSleeps == mutexWriting = 0 \/ semReaders # 0

\* Mutant: a writer that gives up posts MUTEX_WRITING, which it never took.
InterruptWriterPosts(t) ==
    /\ abandoned < MaxInterrupts
    /\ WriterSleeps
    /\ Goto(t, "wantWrite", "idle")
    /\ mutexWriting' = mutexWriting + 1
    /\ abandoned' = abandoned + 1
    /\ UNCHANGED <<semReaders, semWriterWaiting>>

\* The sleeping semop of a writer fails: the announcement is not taken back.
InterruptWriter(t) ==
    /\ abandoned < MaxInterrupts
    /\ WriterSleeps
    /\ Goto(t, "wantWrite", "idle")
    /\ abandoned' = abandoned + 1
    /\ UNCHANGED <<semReaders, semWriterWaiting, mutexWriting>>

Read(t)  == AskRead(t) \/ GetReader(t) \/ ReleaseReader(t) \/ InterruptReader(t)
Write(t) == \/ AnnounceWriter(t) \/ GetWriter(t)
            \/ ReleaseWriter(t)  \/ InterruptWriter(t)

Next == \E t \in Thread : Read(t) \/ Write(t)

Spec == Init /\ [][Next]_vars

\* A section under the lock is a finite scan of a file, so it ends.  The
\* kernel retries the sleeping semops of a set, oldest first, at every change
\* of the set, so one that can succeed again and again does succeed.
Fairness ==
    \A t \in Thread : /\ WF_vars(ReleaseReader(t)) /\ WF_vars(ReleaseWriter(t))
                      /\ SF_vars(GetReader(t))     /\ SF_vars(GetWriter(t))

FairSpec == Spec /\ Fairness

-----------------------------------------------------------------------------
(***************************************************************************)
(* Properties.                                                             *)
(***************************************************************************)

\* The semaphores stay natural numbers, MUTEX_WRITING a binary one.
TypeOK ==
    /\ semReaders \in Nat
    /\ semWriterWaiting \in Nat
    /\ mutexWriting \in {0, 1}
    /\ pc \in [Thread -> Phase]
    /\ abandoned \in Nat

\* No thread reads a database file while another one writes it, and no two
\* threads write it: what the scans of user_db.c and contact_db.c rely on.
MutualExclusion ==
    \A w \in In({"writing"}) : In({"reading", "writing"}) = {w}

\* The semaphores count the threads: readers inside, writers announced and not
\* yet gone (with those that gave up), and one minus the writer inside.
CountersAgree ==
    /\ semReaders = Cardinality(In({"reading"}))
    /\ semWriterWaiting = Cardinality(In({"wantWrite", "writing"})) + abandoned
    /\ mutexWriting + Cardinality(In({"writing"})) = 1

\* Writers go first: from the moment a writer announces itself, no reader
\* enters before that writer has had its turn.
WriterPriority ==
    [][\A r, w \in Thread :
          (r \notin In({"reading"}) /\ pc[w] = "wantWrite") => pc'[r] # "reading"]_vars

\* A reader is kept out only by a writer that waits or writes
\* (docs/relazione.tex:310).
ReadersHeldByWritersOnly ==
    semWriterWaiting > 0 => In({"wantWrite", "writing"}) # {}

\* No writer starves, however many readers and writers come: it gets the lock,
\* or its semop is interrupted.
WriterProgress ==
    \A t \in Thread : pc[t] = "wantWrite" ~> pc[t] \in {"writing", "idle"}

\* A reader starves only if the writers never all go away at once.
ReaderProgress ==
    \A t \in Thread :
        []<>(semWriterWaiting = 0) => (pc[t] = "wantRead" ~> pc[t] \in {"reading", "idle"})

\* The lock implements the abstract readers and writers.
RW == INSTANCE ReadersWriters WITH reading <- In({"reading"}),
                                   writing <- In({"writing"})
ImplementsRW == RW!Spec
=============================================================================
