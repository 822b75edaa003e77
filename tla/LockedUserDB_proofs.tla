-------------------------- MODULE LockedUserDB_proofs --------------------------
(***************************************************************************)
(* The lock of src/server/database/sync.c excludes, for every set of       *)
(* threads and every number of interrupted writers, and implements the     *)
(* abstract readers and writers.  The threads of the user database do to   *)
(* the semaphores what RWLock says, so that the theorems about the lock    *)
(* are theorems about them: what a scan has passed is not changed behind   *)
(* its back, and the calls take effect at once.                            *)
(***************************************************************************)
EXTENDS LockedUserDB, Database_proofs

-----------------------------------------------------------------------------
(***************************************************************************)
(* The lock.                                                               *)
(*                                                                         *)
(* Mutual exclusion is not inductive: that GetReader is safe follows from  *)
(* SEM_WRITER_WAITING counting the writer inside, and that GetWriter is    *)
(* safe from SEM_READERS counting the readers.  IInv adds those counts.    *)
(***************************************************************************)

WritersExcludeReaders == In({"writing"}) # {} => In({"reading"}) = {}

IInv == TypeOK /\ CountersAgree /\ WritersExcludeReaders

-----------------------------------------------------------------------------
(***************************************************************************)
(* How a step of one thread changes the sets In(S).                        *)
(***************************************************************************)

\* The threads in some phases are finitely many, so that they can be counted.
LEMMA InFinite ==
    ASSUME NEW S
    PROVE  IsFiniteSet(In(S)) /\ Cardinality(In(S)) \in Nat
<1>1. In(S) \in SUBSET Thread
  BY DEF In
<1>2. IsFiniteSet(In(S))
  BY <1>1, FS_Subset, ThreadAssumption
<1> QED
  BY <1>2, FS_CardinalityType

\* A thread that enters the phases S is one more.
LEMMA Enters ==
    ASSUME NEW S, pc \in [Thread -> Phase], NEW t \in Thread,
           NEW from, NEW to, Goto(t, from, to), from \notin S, to \in S
    PROVE  /\ In(S)' = In(S) \cup {t}
           /\ Cardinality(In(S)') = Cardinality(In(S)) + 1
<1>1. In(S)' = In(S) \cup {t} /\ t \notin In(S)
  BY DEF In, Goto
<1> QED
  BY <1>1, InFinite, FS_AddElement

\* A thread that leaves the phases S is one less.
LEMMA Leaves ==
    ASSUME NEW S, pc \in [Thread -> Phase], NEW t \in Thread,
           NEW from, NEW to, Goto(t, from, to), from \in S, to \notin S
    PROVE  /\ In(S)' = In(S) \ {t}
           /\ t \in In(S)
           /\ Cardinality(In(S)') = Cardinality(In(S)) - 1
<1>1. In(S)' = In(S) \ {t} /\ t \in In(S)
  BY DEF In, Goto
<1> QED
  BY <1>1, InFinite, FS_RemoveElement

\* A thread that moves outside S, or inside S, leaves In(S) as it was.
LEMMA Stays ==
    ASSUME NEW S, pc \in [Thread -> Phase], NEW t \in Thread,
           NEW from, NEW to, Goto(t, from, to), from \in S <=> to \in S
    PROVE  In(S)' = In(S)
  BY DEF In, Goto

\* Counting tells which sets are empty.
LEMMA Empty ==
    ASSUME NEW S
    PROVE  Cardinality(In(S)) = 0 <=> In(S) = {}
  BY InFinite, FS_EmptySet

-----------------------------------------------------------------------------
(***************************************************************************)
(* IInv is an inductive invariant.                                         *)
(***************************************************************************)

LEMMA InitIInv == Init => IInv
<1> SUFFICES ASSUME Init PROVE IInv
  OBVIOUS
<1>1. In({"reading"}) = {} /\ In({"writing"}) = {} /\ In({"wantWrite", "writing"}) = {}
  BY DEF Init, In
<1> QED
  BY <1>1, FS_EmptySet DEF Init, IInv, TypeOK, CountersAgree, WritersExcludeReaders, Phase

LEMMA NextIInv == IInv /\ [Next]_vars => IInv'
<1> SUFFICES ASSUME IInv, [Next]_vars PROVE IInv'
  OBVIOUS
<1> USE DEF IInv
<1> DEFINE Readers == In({"reading"})
           Writers == In({"writing"})
           Announced == In({"wantWrite", "writing"})
<1>0. /\ Cardinality(Readers) \in Nat
      /\ Cardinality(Writers) \in Nat
      /\ Cardinality(Announced) \in Nat
  BY InFinite
<1>1. CASE UNCHANGED vars
  <2>1. Readers' = Readers /\ Writers' = Writers /\ Announced' = Announced
    BY <1>1 DEF vars, In
  <2> QED
    BY <1>1, <2>1 DEF vars, TypeOK, CountersAgree, WritersExcludeReaders
<1> SUFFICES ASSUME NEW t \in Thread, Read(t) \/ Write(t) PROVE IInv'
  BY <1>1 DEF Next
<1>2. ASSUME NEW from \in Phase, NEW to \in Phase, Goto(t, from, to)
      PROVE  pc' \in [Thread -> Phase]
  BY <1>2 DEF Goto, TypeOK
<1>3. CASE AskRead(t) \/ InterruptReader(t)
  <2>1. Readers' = Readers /\ Writers' = Writers /\ Announced' = Announced
    BY <1>3, Stays DEF AskRead, InterruptReader, TypeOK
  <2>2. pc' \in [Thread -> Phase]
    BY <1>2, <1>3 DEF AskRead, InterruptReader, Phase
  <2> QED
    BY <1>3, <2>1, <2>2
    DEF AskRead, InterruptReader, TypeOK, CountersAgree, WritersExcludeReaders
<1>4. CASE GetReader(t)
  <2>1. Cardinality(Readers') = Cardinality(Readers) + 1
    BY <1>4, Enters DEF GetReader, TypeOK
  <2>2. Writers' = Writers /\ Announced' = Announced
    BY <1>4, Stays DEF GetReader, TypeOK
  <2>3. pc' \in [Thread -> Phase]
    BY <1>2, <1>4 DEF GetReader, Phase
  <2>4. Announced = {}
    BY <1>0, <1>4, Empty DEF GetReader, CountersAgree, TypeOK
  <2>5. Writers = {}
    BY <2>4 DEF In
  <2> QED
    BY <1>4, <2>1, <2>2, <2>3, <2>5
    DEF GetReader, TypeOK, CountersAgree, WritersExcludeReaders
<1>5. CASE ReleaseReader(t)
  <2>1. /\ Cardinality(Readers') = Cardinality(Readers) - 1
        /\ Readers' \subseteq Readers
    BY <1>5, Leaves DEF ReleaseReader, TypeOK
  <2>2. Writers' = Writers /\ Announced' = Announced
    BY <1>5, Stays DEF ReleaseReader, TypeOK
  <2>3. pc' \in [Thread -> Phase]
    BY <1>2, <1>5 DEF ReleaseReader, Phase
  <2> QED
    BY <1>5, <2>1, <2>2, <2>3
    DEF ReleaseReader, TypeOK, CountersAgree, WritersExcludeReaders
<1>6. CASE AnnounceWriter(t)
  <2>1. Cardinality(Announced') = Cardinality(Announced) + 1
    BY <1>6, Enters DEF AnnounceWriter, TypeOK
  <2>2. Readers' = Readers /\ Writers' = Writers
    BY <1>6, Stays DEF AnnounceWriter, TypeOK
  <2>3. pc' \in [Thread -> Phase]
    BY <1>2, <1>6 DEF AnnounceWriter, Phase
  <2> QED
    BY <1>0, <1>6, <2>1, <2>2, <2>3
    DEF AnnounceWriter, TypeOK, CountersAgree, WritersExcludeReaders
<1>7. CASE GetWriter(t)
  <2>1. Cardinality(Writers') = Cardinality(Writers) + 1
    BY <1>7, Enters DEF GetWriter, TypeOK
  <2>2. Readers' = Readers /\ Announced' = Announced
    BY <1>7, Stays DEF GetWriter, TypeOK
  <2>3. pc' \in [Thread -> Phase]
    BY <1>2, <1>7 DEF GetWriter, Phase
  <2>4. Readers' = {}
    BY <1>7, <2>2, Empty DEF GetWriter, CountersAgree
  <2>5. mutexWriting = 1 /\ mutexWriting' = 0
    BY <1>7 DEF GetWriter, TypeOK
  <2>6. TypeOK'
    BY <1>7, <2>3, <2>5 DEF GetWriter, TypeOK
  <2>7. Cardinality(Writers) = 0 /\ Cardinality(Writers') = 1
    BY <1>0, <2>1, <2>5 DEF CountersAgree
  <2>8. UNCHANGED <<semReaders, semWriterWaiting, abandoned>>
    BY <1>7 DEF GetWriter
  <2>9. CountersAgree'
    BY <2>2, <2>5, <2>7, <2>8 DEF CountersAgree
  <2> QED
    BY <2>4, <2>6, <2>9 DEF IInv, WritersExcludeReaders
<1>8. CASE ReleaseWriter(t)
  <2>1. /\ Cardinality(Writers') = Cardinality(Writers) - 1
        /\ Writers' \subseteq Writers
        /\ Cardinality(Announced') = Cardinality(Announced) - 1
    BY <1>8, Leaves DEF ReleaseWriter, TypeOK
  <2>2. Readers' = Readers
    BY <1>8, Stays DEF ReleaseWriter, TypeOK
  <2>3. pc' \in [Thread -> Phase]
    BY <1>2, <1>8 DEF ReleaseWriter, Phase
  <2>4. Cardinality(Writers') \in Nat
    BY InFinite, <1>0, <2>1, Leaves, <1>8, FS_Subset, FS_CardinalityType DEF ReleaseWriter
  <2> QED
    BY <1>0, <1>8, <2>1, <2>2, <2>3, <2>4
    DEF ReleaseWriter, TypeOK, CountersAgree, WritersExcludeReaders
<1>9. CASE InterruptWriter(t)
  <2>1. Cardinality(Announced') = Cardinality(Announced) - 1
    BY <1>9, Leaves DEF InterruptWriter, TypeOK
  <2>2. Readers' = Readers /\ Writers' = Writers
    BY <1>9, Stays DEF InterruptWriter, TypeOK
  <2>3. pc' \in [Thread -> Phase]
    BY <1>2, <1>9 DEF InterruptWriter, Phase
  <2> QED
    BY <1>0, <1>9, <2>1, <2>2, <2>3
    DEF InterruptWriter, TypeOK, CountersAgree, WritersExcludeReaders
<1> QED
  BY <1>3, <1>4, <1>5, <1>6, <1>7, <1>8, <1>9 DEF Read, Write

\* Every reachable state satisfies the inductive invariant.
LEMMA Invariance == Spec => []IInv
  BY InitIInv, NextIInv, PTL DEF Spec

-----------------------------------------------------------------------------
(***************************************************************************)
(* The results.                                                            *)
(***************************************************************************)

\* Type correctness: MUTEX_WRITING stays a binary semaphore.
THEOREM TypeCorrect == Spec => []TypeOK
<1>1. IInv => TypeOK
  BY DEF IInv
<1> QED
  BY <1>1, Invariance, PTL

\* The semaphores of sync.c count the threads inside and the writers announced.
THEOREM CountersExact == Spec => []CountersAgree
<1>1. IInv => CountersAgree
  BY DEF IInv
<1> QED
  BY <1>1, Invariance, PTL

LEMMA IInvExcludes == IInv => MutualExclusion
<1> SUFFICES ASSUME IInv, NEW w \in In({"writing"})
             PROVE  In({"reading", "writing"}) = {w}
  BY DEF MutualExclusion
<1>1. Cardinality(In({"writing"})) # 0
  BY Empty
<1>2. Cardinality(In({"writing"})) = 1
  BY <1>1, InFinite DEF IInv, TypeOK, CountersAgree
<1>3. In({"writing"}) = {w}
  BY <1>2, InFinite, FS_Singleton
<1>4. In({"reading"}) = {}
  BY DEF IInv, WritersExcludeReaders
<1> QED
  BY <1>3, <1>4 DEF In

\* Readers and writers exclude each other, and writers each other, for any
\* number of threads.
THEOREM Exclusion == Spec => []MutualExclusion
  BY IInvExcludes, Invariance, PTL

LEMMA StepPriority ==
    ASSUME IInv, [Next]_vars, NEW r \in Thread, NEW w \in Thread,
           r \notin In({"reading"}), pc[w] = "wantWrite"
    PROVE  pc'[r] # "reading"
<1>1. semWriterWaiting # 0
  <2>1. w \in In({"wantWrite", "writing"})
    BY DEF In
  <2>2. Cardinality(In({"wantWrite", "writing"})) # 0
    BY <2>1, Empty
  <2> QED
    BY <2>2, InFinite DEF IInv, CountersAgree, TypeOK
<1>2. CASE UNCHANGED vars
  BY <1>2 DEF vars, In
<1>3. ASSUME NEW t \in Thread, Read(t) \/ Write(t)
      PROVE  pc'[r] # "reading"
  <2>1. ~GetReader(t)
    BY <1>1 DEF GetReader
  <2>2. pc \in [Thread -> Phase] /\ pc[r] # "reading"
    BY DEF IInv, TypeOK, In
  <2> QED
    BY <1>3, <2>1, <2>2 DEF Read, Write, AskRead, ReleaseReader, InterruptReader,
       AnnounceWriter, GetWriter, ReleaseWriter, InterruptWriter, Goto
<1> QED
  BY <1>2, <1>3 DEF Next

\* Writers have priority: no reader enters past a writer that has announced itself.
THEOREM Priority == Spec => WriterPriority
<1>1. IInv /\ [Next]_vars =>
      [\A r, w \in Thread :
          (r \notin In({"reading"}) /\ pc[w] = "wantWrite") => pc'[r] # "reading"]_vars
  BY StepPriority
<1> QED
  BY <1>1, Invariance, PTL DEF Spec, WriterPriority

-----------------------------------------------------------------------------
(***************************************************************************)
(* The lock implements the abstract readers and writers.                   *)
(***************************************************************************)

LEMMA InitRefines == Init => RW!Init
  BY DEF Init, In, RW!Init

LEMMA StepRefines == IInv /\ [Next]_vars => [RW!Next]_RW!vars
<1> SUFFICES ASSUME IInv, [Next]_vars PROVE [RW!Next]_RW!vars
  OBVIOUS
<1> USE DEF IInv, TypeOK
<1>1. CASE UNCHANGED vars
  BY <1>1 DEF vars, In, RW!vars
<1> SUFFICES ASSUME NEW t \in Thread, Read(t) \/ Write(t) PROVE [RW!Next]_RW!vars
  BY <1>1 DEF Next
<1>2. CASE GetReader(t)
  <2>1. In({"wantWrite", "writing"}) = {}
    BY <1>2, Empty, InFinite DEF GetReader, CountersAgree
  <2>2. In({"writing"}) = {}
    BY <2>1 DEF In
  <2>3. In({"reading"})' = In({"reading"}) \cup {t}
    BY <1>2, Enters DEF GetReader
  <2>4. In({"writing"})' = In({"writing"})
    BY <1>2, Stays DEF GetReader
  <2>5. t \notin In({"reading"})
    BY <1>2 DEF GetReader, Goto, In
  <2> QED
    BY <2>2, <2>3, <2>4, <2>5 DEF RW!StartRead, RW!Next
<1>3. CASE ReleaseReader(t)
  <2>1. In({"reading"})' = In({"reading"}) \ {t} /\ t \in In({"reading"})
    BY <1>3, Leaves DEF ReleaseReader
  <2>2. In({"writing"})' = In({"writing"})
    BY <1>3, Stays DEF ReleaseReader
  <2> QED
    BY <2>1, <2>2 DEF RW!EndRead, RW!Next
<1>4. CASE GetWriter(t)
  <2>1. In({"reading"}) = {} /\ In({"writing"}) = {}
    <3>1. mutexWriting = 1 /\ semReaders = 0
      BY <1>4 DEF GetWriter
    <3>2. Cardinality(In({"writing"})) = 0
      BY <3>1, InFinite DEF CountersAgree
    <3> QED
      BY <3>1, <3>2, Empty DEF CountersAgree
  <2>2. In({"writing"})' = In({"writing"}) \cup {t}
    BY <1>4, Enters DEF GetWriter
  <2>3. In({"reading"})' = In({"reading"})
    BY <1>4, Stays DEF GetWriter
  <2>4. In({"writing"})' = {t}
    BY <2>1, <2>2
  <2> QED
    BY <2>1, <2>3, <2>4 DEF RW!StartWrite, RW!Next
<1>5. CASE ReleaseWriter(t)
  <2>1. In({"writing"})' = In({"writing"}) \ {t} /\ t \in In({"writing"})
    BY <1>5, Leaves DEF ReleaseWriter
  <2>2. In({"reading"})' = In({"reading"})
    BY <1>5, Stays DEF ReleaseWriter
  <2> QED
    BY <2>1, <2>2 DEF RW!EndWrite, RW!Next
<1>6. CASE AskRead(t) \/ InterruptReader(t) \/ AnnounceWriter(t) \/ InterruptWriter(t)
  <2>1. /\ In({"reading"})' = In({"reading"})
        /\ In({"writing"})' = In({"writing"})
    BY <1>6, Stays DEF AskRead, InterruptReader, AnnounceWriter, InterruptWriter
  <2> QED
    BY <2>1 DEF RW!vars
<1> QED
  BY <1>2, <1>3, <1>4, <1>5, <1>6 DEF Read, Write

\* Every step of the lock is a step of the abstract readers and writers, or
\* changes nothing that they see.
THEOREM Refinement == Spec => ImplementsRW
  BY InitRefines, StepRefines, Invariance, PTL DEF Spec, ImplementsRW, RW!Spec

-----------------------------------------------------------------------------
(***************************************************************************)
(* The threads of the user database under the lock.                        *)
(***************************************************************************)

\* Each step of the database is one semop of one thread, as its place in the
\* protocol of the lock allows, or leaves the semaphores alone.
LEMMA StepOfLock ==
  ASSUME [DbNext]_allVars
  PROVE  [Next]_vars
<1>1. CASE UNCHANGED allVars
  BY <1>1 DEF allVars
<1>2. ASSUME NEW t \in Thread, NEW j \in Job, Call(t, j)
      PROVE  [Next]_vars
  BY <1>2 DEF Call, Next, Read, Write
<1>3. ASSUME NEW t \in Thread, EnterReader(t) \/ EnterWriter(t)
      PROVE  [Next]_vars
  BY <1>3 DEF EnterReader, EnterWriter, Next, Read, Write
<1>4. ASSUME NEW t \in Thread, Section(t)
      PROVE  [Next]_vars
  BY <1>4 DEF Section, Look, Seek, WritePart, WriteRest, WriteLevel, vars
<1>5. ASSUME NEW t \in Thread, LeaveReader(t) \/ LeaveWriter(t)
      PROVE  [Next]_vars
  BY <1>5 DEF LeaveReader, LeaveWriter, Next, Read, Write
<1>6. ASSUME NEW t \in Thread, Fail(t)
      PROVE  [Next]_vars
  BY <1>6 DEF Fail, Next, Read, Write
<1> QED
  BY <1>1, <1>2, <1>3, <1>4, <1>5, <1>6 DEF DbNext

\* The user database uses its lock as the protocol of RWLock has it.
THEOREM UsesLock == DbSpec => Spec
<1>1. DbInit => Init
  BY DEF DbInit
<1>2. [DbNext]_allVars => [Next]_vars
  BY StepOfLock
<1> QED
  BY <1>1, <1>2, PTL DEF DbSpec, Spec

\* No thread reads the user file while another one writes to it, whatever the
\* threads call and however long their scans are.
THEOREM ScansExclude == DbSpec => []MutualExclusion
  BY UsesLock, Exclusion, PTL

\* No login or registration gets into the user file past a thread that waits to
\* write to it.
THEOREM WritersFirst == DbSpec => WriterPriority
  BY UsesLock, Priority, PTL

-----------------------------------------------------------------------------
(***************************************************************************)
(* Where the threads are in their scans, and what they have still to       *)
(* write.  DbInv is inductive together with the invariant of the lock,     *)
(* which keeps the file as it is under a scan.                             *)
(***************************************************************************)

Account == AccountOf({ j.username : j \in Job }, { j.password : j \in Job },
                     { j.level : j \in Job })

\* The record that add_user writes.
NewRecord(j) == [username |-> j.username, password |-> j.password, level |-> j.level]

\* The records that a scan of the file stops at.
Target(j) ==
    IF j.op = "check_credentials" THEN WithCredentials(users, j.username, j.password)
                                  ELSE WithName(users, j.username)

\* None of the records before an offset is one of them.
NoneBefore(j, o) == \A i \in Target(j) : o <= i

Step == {"none", "scan", "seek", "write", "done"}

DbTypes ==
    /\ users \in Seq(Account)
    /\ job \in [Thread -> Job \cup {NoJob}]
    /\ step \in [Thread -> Step]
    /\ offset \in [Thread -> Nat]
    /\ DOMAIN result = Thread

\* What a thread has called, and where it is, as its place in the lock allows.
Placed(t) ==
    /\ pc[t] = "idle" <=> job[t] = NoJob
    /\ pc[t] # "idle" => job[t] \in Job
    /\ pc[t] \in {"wantRead", "reading"} => job[t].op = "check_credentials"
    /\ pc[t] \in {"wantWrite", "writing"} => job[t].op \in {"add_user", "change_permissions"}
    /\ pc[t] \in {"reading", "writing"} <=> step[t] # "none"
    /\ step[t] = "scan" => job[t].op # "add_user"
    /\ step[t] = "seek" => job[t].op = "add_user"
    /\ step[t] = "write" => pc[t] = "writing"
    /\ step[t] # "done" => result[t] = Nothing

\* How far a scan has come; where a write goes.
Walks(t) ==
    /\ step[t] = "scan" => offset[t] \in 1 .. Len(users) + 1 /\ NoneBefore(job[t], offset[t])
    /\ step[t] = "write" /\ job[t].op = "change_permissions" =>
          offset[t] \in Target(job[t]) /\ NoneBefore(job[t], offset[t])
    /\ step[t] = "write" /\ job[t].op = "add_user" =>
          IF half = {} THEN offset[t] = Len(users) + 1
          ELSE /\ users # << >> /\ offset[t] = Len(users)
               /\ users[offset[t]] = NewRecord(job[t])

\* A record is without its end only as long as the thread that adds it is inside.
HalfWritten ==
    half # {} =>
        \E w \in Thread : /\ pc[w] = "writing" /\ step[w] = "write"
                          /\ job[w].op = "add_user" /\ half = {offset[w]}

DbInv == DbTypes /\ HalfWritten /\ \A t \in Thread : Placed(t) /\ Walks(t)

Inside(t) == pc[t] \in {"reading", "writing"}

\* What the lock gives to a thread that writes: no other one is inside.
LEMMA Alone ==
    ASSUME MutualExclusion, NEW w \in Thread, pc[w] = "writing",
           NEW u \in Thread, Inside(u)
    PROVE  u = w
<1>1. w \in In({"writing"}) /\ u \in In({"reading", "writing"})
  BY DEF In, Inside
<1> QED
  BY <1>1 DEF MutualExclusion

\* A thread inside that is not itself adding a record finds every record whole.
LEMMA AllWhole ==
    ASSUME DbInv, MutualExclusion, NEW t \in Thread, Inside(t),
           ~(step[t] = "write" /\ job[t].op = "add_user")
    PROVE  half = {}
<1> SUFFICES ASSUME NEW w \in Thread, pc[w] = "writing",
                    step[w] = "write" /\ job[w].op = "add_user"
             PROVE  FALSE
  BY DEF DbInv, HalfWritten
<1>1. t = w
  BY Alone
<1> QED
  BY <1>1

\* One that is adding one has written a part of it, or nothing.
LEMMA OwnHalf ==
    ASSUME DbInv, MutualExclusion, NEW t \in Thread, pc[t] = "writing", half # {}
    PROVE  half = {offset[t]}
<1>1. PICK w \in Thread : pc[w] = "writing" /\ half = {offset[w]}
  BY DEF DbInv, HalfWritten
<1>2. t = w
  BY <1>1, Alone DEF Inside
<1> QED
  BY <1>1, <1>2

\* A step of another thread leaves u where it is, and changes the file only when u
\* is not inside.
LEMMA OtherThread ==
    ASSUME DbInv, NEW u \in Thread,
           pc'[u] = pc[u], job'[u] = job[u], step'[u] = step[u],
           offset'[u] = offset[u], result'[u] = result[u],
           (users' = users /\ half' = half) \/ ~Inside(u)
    PROVE  Placed(u)' /\ Walks(u)'
<1>1. Placed(u) /\ Walks(u)
  BY DEF DbInv
<1>2. Placed(u)'
  BY <1>1 DEF Placed
<1>3. CASE ~Inside(u)
  <2>1. step'[u] = "none"
    BY <1>1, <1>3 DEF Placed, Inside
  <2> QED
    BY <1>2, <2>1 DEF Walks
<1>4. CASE users' = users /\ half' = half
  BY <1>1, <1>2, <1>4 DEF Walks, NoneBefore, Target
<1> QED
  BY <1>3, <1>4

\* A step of t that keeps the records and those that are half written.
LEMMA SameFile ==
    ASSUME DbInv, NEW t \in Thread, users' = users, half' = half,
           \A u \in Thread \ {t} :
               /\ pc'[u] = pc[u] /\ job'[u] = job[u] /\ step'[u] = step[u]
               /\ offset'[u] = offset[u] /\ result'[u] = result[u],
           DbTypes', Placed(t)', Walks(t)',
           half = {} \/ ~Inside(t)
    PROVE  DbInv'
<1>1. \A u \in Thread : Placed(u)' /\ Walks(u)'
  BY OtherThread
<1>2. HalfWritten'
  <2>1. CASE half = {}
    BY <2>1 DEF HalfWritten
  <2>2. CASE half # {}
    <3>1. PICK w \in Thread : /\ pc[w] = "writing" /\ step[w] = "write"
                              /\ job[w].op = "add_user" /\ half = {offset[w]}
      BY <2>2 DEF DbInv, HalfWritten
    <3>2. w # t
      BY <2>2, <3>1 DEF Inside
    <3> QED
      BY <3>1, <3>2 DEF HalfWritten
  <2> QED
    BY <2>1, <2>2
<1> QED
  BY <1>1, <1>2 DEF DbInv

-----------------------------------------------------------------------------
(***************************************************************************)
(* The steps that leave the file as it is keep DbInv.                      *)
(***************************************************************************)

LEMMA CallDbInv ==
    ASSUME DbInv, IInv, NEW t \in Thread, NEW j \in Job, Call(t, j)
    PROVE  DbInv'
<1> USE DEF Call
<1>1. /\ pc[t] = "idle"
      /\ pc' = [pc EXCEPT ![t] = IF j.op = "check_credentials" THEN "wantRead" ELSE "wantWrite"]
  BY DEF AskRead, AnnounceWriter, Goto
<1>2. job[t] = NoJob /\ step[t] = "none" /\ result[t] = Nothing
  BY <1>1 DEF DbInv, Placed
<1>3. DbTypes'
  BY DEF DbInv, DbTypes
<1>4. pc'[t] = (IF j.op = "check_credentials" THEN "wantRead" ELSE "wantWrite") /\ job'[t] = j
  BY <1>1 DEF DbInv, DbTypes, IInv, TypeOK
<1>5. j # NoJob
  BY JobAssumption DEF NoJob
<1>6. Placed(t)' /\ Walks(t)'
  BY <1>2, <1>4, <1>5, JobAssumption DEF Placed, Walks
<1>7. \A u \in Thread \ {t} : pc'[u] = pc[u] /\ job'[u] = job[u]
  BY <1>1 DEF DbInv, DbTypes, IInv, TypeOK
<1> QED
  BY <1>1, <1>3, <1>6, <1>7, SameFile DEF Inside

\* A scan stops at records of the file.
LEMMA TargetInFile ==
    ASSUME DbInv, NEW j
    PROVE  Target(j) \subseteq 1 .. Len(users) /\ Len(users) \in Nat
<1>1. users \in Seq(Account)
  BY DEF DbInv, DbTypes
<1>2. /\ WithName(users, j.username) \subseteq 1 .. Len(users)
      /\ WithCredentials(users, j.username, j.password) \subseteq 1 .. Len(users)
  BY <1>1, FoundInFile
<1> QED
  BY <1>1, <1>2 DEF Target

LEMMA EnterDbInv ==
    ASSUME DbInv, IInv, MutualExclusion', NEW t \in Thread,
           EnterReader(t) \/ EnterWriter(t)
    PROVE  DbInv'
<1> USE DEF Enter
<1>1. \/ pc[t] = "wantRead" /\ pc' = [pc EXCEPT ![t] = "reading"]
      \/ pc[t] = "wantWrite" /\ pc' = [pc EXCEPT ![t] = "writing"]
  BY DEF EnterReader, EnterWriter, GetReader, GetWriter, Goto
<1>2. /\ step' = [step EXCEPT ![t] = IF job[t].op = "add_user" THEN "seek" ELSE "scan"]
      /\ offset' = [offset EXCEPT ![t] = 1]
      /\ UNCHANGED <<users, half, job, result>>
  BY DEF EnterReader, EnterWriter
<1>3. Placed(t)
  BY DEF DbInv
<1>4. DbTypes'
  BY <1>2 DEF DbInv, DbTypes, Step
<1>5. /\ pc[t] = "wantRead" => pc'[t] = "reading"
      /\ pc[t] = "wantWrite" => pc'[t] = "writing"
      /\ step'[t] = (IF job[t].op = "add_user" THEN "seek" ELSE "scan")
      /\ offset'[t] = 1 /\ job'[t] = job[t] /\ result'[t] = result[t]
  BY <1>1, <1>2 DEF DbInv, DbTypes, IInv, TypeOK
<1>6. Placed(t)'
  BY <1>1, <1>3, <1>5 DEF Placed
<1>7. Walks(t)'
  <2>1. Target(job[t]) \subseteq 1 .. Len(users) /\ Len(users) \in Nat
    BY TargetInFile
  <2>2. NoneBefore(job[t], 1)
    BY <2>1 DEF NoneBefore
  <2>3. NoneBefore(job[t], 1)'
    BY <1>2, <2>2 DEF NoneBefore, Target
  <2> QED
    BY <1>2, <1>5, <2>1, <2>3 DEF Walks
<1>8. \A u \in Thread \ {t} : pc'[u] = pc[u] /\ step'[u] = step[u] /\ offset'[u] = offset[u]
  BY <1>1, <1>2 DEF DbInv, DbTypes, IInv, TypeOK
<1> QED
  BY <1>1, <1>2, <1>4, <1>6, <1>7, <1>8, SameFile DEF Inside

LEMMA LeaveDbInv ==
    ASSUME DbInv, IInv, MutualExclusion, NEW t \in Thread,
           LeaveReader(t) \/ LeaveWriter(t) \/ Fail(t)
    PROVE  DbInv'
<1>1. /\ pc[t] # "idle" /\ pc' = [pc EXCEPT ![t] = "idle"]
      /\ step[t] = "done" \/ ~Inside(t)
  BY DEF LeaveReader, LeaveWriter, Fail, ReleaseReader, ReleaseWriter, InterruptReader,
     InterruptWriter, Goto, Inside
<1>2. /\ step' = [step EXCEPT ![t] = "none"]
      /\ job' = [job EXCEPT ![t] = NoJob]
      /\ result' = [result EXCEPT ![t] = Nothing]
      /\ UNCHANGED <<users, half, offset>>
  BY DEF LeaveReader, LeaveWriter, Fail, Back
<1>3. DbTypes'
  BY <1>2 DEF DbInv, DbTypes, Step
<1>4. pc'[t] = "idle" /\ step'[t] = "none" /\ job'[t] = NoJob /\ result'[t] = Nothing
  BY <1>1, <1>2 DEF DbInv, DbTypes, IInv, TypeOK
<1>5. Placed(t)' /\ Walks(t)'
  BY <1>4 DEF Placed, Walks, NoJob
<1>6. \A u \in Thread \ {t} : /\ pc'[u] = pc[u] /\ step'[u] = step[u]
                              /\ job'[u] = job[u] /\ result'[u] = result[u]
  BY <1>1, <1>2 DEF DbInv, DbTypes, IInv, TypeOK
<1>7. half = {} \/ ~Inside(t)
  BY <1>1, AllWhole
<1> QED
  BY <1>2, <1>3, <1>5, <1>6, <1>7, SameFile

\* What the scan looks for is what it stops at.
LEMMA WantedTarget ==
    ASSUME DbInv, NEW t \in Thread, offset[t] \in 1 .. Len(users), half = {}
    PROVE  Wanted(t, users[offset[t]]) <=> offset[t] \in Target(job[t])
<1>1. users \in Seq(Account)
  BY DEF DbInv, DbTypes
<1>2. offset[t] \in DOMAIN users
  BY <1>1
<1> QED
  BY <1>2 DEF Wanted, Target, WithName, WithCredentials

LEMMA LookDbInv ==
    ASSUME DbInv, IInv, MutualExclusion, NEW t \in Thread, Look(t)
    PROVE  DbInv'
<1> USE DEF Look
<1>1. Placed(t) /\ Walks(t) /\ step[t] = "scan"
  BY DEF DbInv
<1>2. half = {} /\ Inside(t)
  BY <1>1, AllWhole DEF Placed, Inside
<1>3. /\ offset[t] \in 1 .. Len(users) + 1 /\ NoneBefore(job[t], offset[t])
      /\ Len(users) \in Nat
  BY <1>1 DEF Walks, DbInv, DbTypes
<1>4. UNCHANGED <<pc, users, half, job>>
  BY DEF vars
<1>5. ASSUME NEW res, Finish(t, res), offset' = offset
      PROVE  DbInv'
  <2>1. DbTypes'
    BY <1>4, <1>5 DEF Finish, DbInv, DbTypes, Step
  <2>2. step'[t] = "done"
    BY <1>5 DEF Finish, DbInv, DbTypes
  <2>3. Placed(t)' /\ Walks(t)'
    BY <1>1, <1>2, <1>4, <2>2 DEF Placed, Walks, Inside
  <2>4. \A u \in Thread \ {t} : step'[u] = step[u] /\ result'[u] = result[u]
    BY <1>5 DEF Finish, DbInv, DbTypes
  <2> QED
    BY <1>2, <1>4, <1>5, <2>1, <2>3, <2>4, SameFile
<1>6. CASE offset[t] > Len(users)
  BY <1>5, <1>6
<1>7. CASE offset[t] <= Len(users) /\ Wanted(t, users[offset[t]])
  <2>1. offset[t] \in Target(job[t])
    BY <1>2, <1>3, <1>7, WantedTarget
  <2>2. CASE job[t].op = "check_credentials"
    BY <1>2, <1>3, <1>5, <1>7, <2>2 DEF Decide
  <2>3. CASE job[t].op # "check_credentials"
    <3>1. step' = [step EXCEPT ![t] = "write"] /\ UNCHANGED <<result, offset>>
      BY <1>2, <1>3, <1>7, <2>3 DEF Decide
    <3>2. DbTypes'
      BY <1>4, <3>1 DEF DbInv, DbTypes, Step
    <3>3. step'[t] = "write"
      BY <3>1 DEF DbInv, DbTypes
    <3>4. Placed(t)'
      BY <1>1, <1>2, <1>4, <2>3, <3>1, <3>3 DEF Placed, Inside
    <3>5. job[t].op # "add_user"
      BY <1>1 DEF Placed
    <3>6. Walks(t)'
      BY <1>3, <1>4, <2>1, <3>1, <3>3, <3>5 DEF Walks, NoneBefore, Target
    <3>7. \A u \in Thread \ {t} : step'[u] = step[u]
      BY <3>1 DEF DbInv, DbTypes
    <3> QED
      BY <1>2, <1>4, <3>1, <3>2, <3>4, <3>6, <3>7, SameFile
  <2> QED
    BY <2>2, <2>3
<1>8. CASE offset[t] <= Len(users) /\ ~Wanted(t, users[offset[t]])
  <2>1. offset' = [offset EXCEPT ![t] = offset[t] + 1] /\ UNCHANGED <<step, result>>
    BY <1>3, <1>8
  <2>2. DbTypes'
    BY <1>4, <2>1 DEF DbInv, DbTypes
  <2>3. offset'[t] = offset[t] + 1
    BY <2>1 DEF DbInv, DbTypes
  <2>4. offset[t] \notin Target(job[t])
    BY <1>2, <1>3, <1>8, WantedTarget
  <2>5. Target(job[t]) \subseteq 1 .. Len(users)
    BY TargetInFile
  <2>6. NoneBefore(job[t], offset[t] + 1)
    BY <1>3, <2>4, <2>5 DEF NoneBefore
  <2>7. NoneBefore(job[t], offset[t])'
    BY <1>4, <2>3, <2>6 DEF NoneBefore, Target
  <2>8. Placed(t)' /\ Walks(t)'
    BY <1>1, <1>3, <1>4, <1>8, <2>1, <2>3, <2>7 DEF Placed, Walks
  <2>9. \A u \in Thread \ {t} : offset'[u] = offset[u]
    BY <2>1 DEF DbInv, DbTypes
  <2> QED
    BY <1>2, <1>4, <2>1, <2>2, <2>8, <2>9, SameFile
<1> QED
  BY <1>3, <1>6, <1>7, <1>8

LEMMA SeekDbInv ==
    ASSUME DbInv, IInv, MutualExclusion, NEW t \in Thread, Seek(t)
    PROVE  DbInv'
<1> USE DEF Seek
<1>1. Placed(t) /\ step[t] = "seek"
  BY DEF DbInv
<1>2. half = {} /\ Inside(t) /\ job[t].op = "add_user" /\ pc[t] = "writing"
  BY <1>1, AllWhole DEF Placed, Inside
<1>3. UNCHANGED <<pc, users, half, job, result>>
  BY DEF vars
<1>4. DbTypes'
  BY <1>3 DEF DbInv, DbTypes, Step
<1>5. step'[t] = "write" /\ offset'[t] = Len(users) + 1
  BY DEF DbInv, DbTypes
<1>6. Placed(t)' /\ Walks(t)'
  BY <1>1, <1>2, <1>3, <1>5 DEF Placed, Walks
<1>7. \A u \in Thread \ {t} : step'[u] = step[u] /\ offset'[u] = offset[u]
  BY DEF DbInv, DbTypes
<1> QED
  BY <1>2, <1>3, <1>4, <1>6, <1>7, SameFile

-----------------------------------------------------------------------------
(***************************************************************************)
(* The steps that write to the file.                                       *)
(***************************************************************************)

\* A step of a thread that writes, and so is alone inside.
LEMMA AloneWrites ==
    ASSUME DbInv, MutualExclusion, NEW t \in Thread, pc[t] = "writing",
           \A u \in Thread \ {t} :
               /\ pc'[u] = pc[u] /\ job'[u] = job[u] /\ step'[u] = step[u]
               /\ offset'[u] = offset[u] /\ result'[u] = result[u],
           DbTypes', Placed(t)', Walks(t)', HalfWritten'
    PROVE  DbInv'
<1>1. ASSUME NEW u \in Thread, u # t PROVE Placed(u)' /\ Walks(u)'
  <2>1. ~Inside(u)
    BY <1>1, Alone
  <2> QED
    BY <1>1, <2>1, OtherThread
<1> QED
  BY <1>1 DEF DbInv

LEMMA AppendIsFunction ==
    ASSUME NEW S, NEW us \in Seq(S), NEW r \in S
    PROVE  Append(us, r) = [i \in 1 .. Len(us) + 1 |-> IF i = Len(us) + 1 THEN r ELSE us[i]]
<1> DEFINE f == [i \in 1 .. Len(us) + 1 |-> IF i = Len(us) + 1 THEN r ELSE us[i]]
<1>1. /\ Append(us, r) \in Seq(S) /\ Len(Append(us, r)) = Len(us) + 1
      /\ \A i \in 1 .. Len(us) : Append(us, r)[i] = us[i]
      /\ Append(us, r)[Len(us) + 1] = r
  BY AppendProperties
<1>2. DOMAIN Append(us, r) = 1 .. Len(us) + 1 /\ Len(us) \in Nat
  BY <1>1
<1>3. Append(us, r) \in [1 .. Len(us) + 1 -> S]
  BY <1>1, LenProperties
<1>4. \A i \in 1 .. Len(us) + 1 : Append(us, r)[i] = f[i]
  BY <1>1, <1>2
<1> QED
  BY <1>2, <1>3, <1>4

\* A part of a record after the last one: the file has one record more.
LEMMA PartAppended ==
    ASSUME DbInv, IInv, MutualExclusion, NEW t \in Thread, WritePart(t)
    PROVE  /\ pc[t] = "writing"
           /\ half = {} /\ half' = {Len(users) + 1} /\ offset[t] = Len(users) + 1
           /\ NewRecord(job[t]) \in Account
           /\ users' = Append(users, NewRecord(job[t]))
<1> USE DEF WritePart
<1>1. Placed(t) /\ Walks(t) /\ users \in Seq(Account)
  BY DEF DbInv, DbTypes
<1>2. pc[t] = "writing"
  BY <1>1 DEF Placed
<1>3. half = {}
  BY <1>2, OwnHalf
<1>4. offset[t] = Len(users) + 1
  BY <1>1, <1>3 DEF Walks
<1>5. NewRecord(job[t]) \in Account
  BY <1>1, <1>2 DEF Placed, NewRecord, Account, AccountOf
<1> DEFINE r == NewRecord(job[t])
           o == offset[t]
<1>6. users' = [i \in DOMAIN users \cup {o} |-> IF i = o THEN r ELSE users[i]]
  BY DEF NewRecord
<1> HIDE DEF r
<1>7. DOMAIN users = 1 .. Len(users) /\ Len(users) \in Nat /\ o = Len(users) + 1
  BY <1>1, <1>4
<1> HIDE DEF o
<1>8. DOMAIN users \cup {o} = 1 .. Len(users) + 1
  BY <1>7
<1>9. users' = Append(users, r)
  <2>1. users' = [i \in 1 .. Len(users) + 1 |-> IF i = o THEN r ELSE users[i]]
    BY <1>6, <1>8
  <2> QED
    BY <1>1, <1>5, <1>7, <2>1, AppendIsFunction DEF r
<1> QED
  BY <1>2, <1>3, <1>4, <1>5, <1>9 DEF r

LEMMA WritePartDbInv ==
    ASSUME DbInv, IInv, MutualExclusion, NEW t \in Thread, WritePart(t)
    PROVE  DbInv'
<1> DEFINE r == NewRecord(job[t])
<1>1. /\ pc[t] = "writing"
      /\ half = {} /\ half' = {Len(users) + 1} /\ offset[t] = Len(users) + 1
      /\ r \in Account
      /\ users' = Append(users, r)
  BY PartAppended
<1>2. UNCHANGED <<pc, job, step, offset, result>> /\ step[t] = "write" /\ job[t].op = "add_user"
  BY DEF WritePart, vars
<1> HIDE DEF r
<1>3. users \in Seq(Account)
  BY DEF DbInv, DbTypes
<1>4. /\ users' \in Seq(Account) /\ Len(users') = Len(users) + 1 /\ users'[Len(users) + 1] = r
      /\ users' # << >>
  BY <1>1, <1>3
<1>5. DbTypes'
  BY <1>2, <1>4 DEF DbInv, DbTypes
<1>6. Placed(t)'
  BY <1>2 DEF DbInv, Placed
<1>7. Walks(t)'
  BY <1>1, <1>2, <1>4 DEF Walks, r
<1>8. HalfWritten'
  BY <1>1, <1>2 DEF HalfWritten
<1> QED
  BY <1>1, <1>2, <1>5, <1>6, <1>7, <1>8, AloneWrites

LEMMA WriteRestDbInv ==
    ASSUME DbInv, IInv, MutualExclusion, NEW t \in Thread, WriteRest(t)
    PROVE  DbInv'
<1> USE DEF WriteRest
<1>1. Placed(t) /\ Walks(t)
  BY DEF DbInv
<1>2. pc[t] = "writing" /\ UNCHANGED <<pc, users, job, offset>>
  BY <1>1 DEF Placed, vars
<1>3. half = {offset[t]}
  BY <1>2, OwnHalf
<1>4. half' = {}
  BY <1>3
<1>5. DbTypes'
  BY <1>2 DEF DbInv, DbTypes, Finish, Step
<1>6. step'[t] = "done"
  BY DEF DbInv, DbTypes, Finish
<1>7. Placed(t)' /\ Walks(t)' /\ HalfWritten'
  BY <1>1, <1>2, <1>4, <1>6 DEF Placed, Walks, HalfWritten
<1>8. \A u \in Thread \ {t} : step'[u] = step[u] /\ result'[u] = result[u]
  BY DEF DbInv, DbTypes, Finish
<1> QED
  BY <1>2, <1>5, <1>7, <1>8, AloneWrites

\* The level goes into the first record with the username.
LEMMA LevelChanged ==
    ASSUME DbInv, IInv, MutualExclusion, NEW t \in Thread, WriteLevel(t)
    PROVE  /\ pc[t] = "writing" /\ half = {} /\ job[t] \in Job
           /\ First(WithName(users, job[t].username)) = offset[t]
           /\ WithName(users, job[t].username) # {}
           /\ users' = change_permissions(users, job[t].username, job[t].level)
           /\ users' \in Seq(Account)
<1> USE DEF WriteLevel
<1>1. Placed(t) /\ Walks(t) /\ users \in Seq(Account)
  BY DEF DbInv, DbTypes
<1>2. pc[t] = "writing" /\ job[t] \in Job
  BY <1>1 DEF Placed
<1>3. half = {}
  BY <1>2, AllWhole DEF Inside
<1> DEFINE found == WithName(users, job[t].username)
<1>4. found \in SUBSET Nat /\ 0 \notin found
  <2>1. found = Target(job[t])
    BY DEF Target
  <2>2. found \subseteq 1 .. Len(users) /\ Len(users) \in Nat
    BY <2>1, TargetInFile
  <2> HIDE DEF found
  <2> QED
    BY <2>2
<1>5. offset[t] \in found /\ \A i \in found : offset[t] <= i
  BY <1>1 DEF Walks, NoneBefore, Target
<1>6. First(found) = offset[t]
  BY <1>4, <1>5, FirstIs
<1>7. users' = change_permissions(users, job[t].username, job[t].level)
  BY <1>4, <1>5, <1>6 DEF change_permissions, NotFound
<1>8. users' \in Seq(Account)
  <2> DEFINE Names == { j.username : j \in Job }
             Digests == { j.password : j \in Job }
             Levels == { j.level : j \in Job }
  <2>1. job[t].level \in Levels
    BY <1>2
  <2>2. Seq(Account) = Seq(AccountOf(Names, Digests, Levels))
    BY DEF Account
  <2> HIDE DEF Names, Digests, Levels
  <2> QED
    BY <1>1, <1>7, <2>1, <2>2, ChangeSets
<1> QED
  BY <1>2, <1>3, <1>5, <1>6, <1>7, <1>8

LEMMA WriteLevelDbInv ==
    ASSUME DbInv, IInv, MutualExclusion, NEW t \in Thread, WriteLevel(t)
    PROVE  DbInv'
<1>1. pc[t] = "writing" /\ half = {} /\ users' \in Seq(Account)
  BY LevelChanged
<1>2. /\ UNCHANGED <<pc, half, job, offset>> /\ Finish(t, Returned(1))
      /\ job[t].op = "change_permissions"
  BY DEF WriteLevel, vars
<1>3. DbTypes'
  BY <1>1, <1>2 DEF DbInv, DbTypes, Finish, Step
<1>4. step'[t] = "done"
  BY <1>2 DEF DbInv, DbTypes, Finish
<1>5. Placed(t)' /\ Walks(t)' /\ HalfWritten'
  BY <1>1, <1>2, <1>4 DEF DbInv, Placed, Walks, HalfWritten
<1>6. \A u \in Thread \ {t} : step'[u] = step[u] /\ result'[u] = result[u]
  BY <1>2 DEF DbInv, DbTypes, Finish
<1> QED
  BY <1>1, <1>2, <1>3, <1>5, <1>6, AloneWrites

-----------------------------------------------------------------------------

LEMMA InitDbInv == DbInit => DbInv
<1> SUFFICES ASSUME DbInit PROVE DbInv
  OBVIOUS
<1>1. /\ users = << >> /\ half = {}
      /\ pc = [t \in Thread |-> "idle"] /\ job = [t \in Thread |-> NoJob]
      /\ step = [t \in Thread |-> "none"] /\ offset = [t \in Thread |-> 1]
      /\ result = [t \in Thread |-> Nothing]
  BY DEF DbInit, Init
<1>2. DbTypes
  BY <1>1 DEF DbTypes, Step
<1>3. HalfWritten /\ \A t \in Thread : Placed(t) /\ Walks(t)
  BY <1>1 DEF HalfWritten, Placed, Walks, NoJob
<1> QED
  BY <1>2, <1>3 DEF DbInv

LEMMA NextDbInv ==
    ASSUME DbInv, IInv, MutualExclusion, MutualExclusion', [DbNext]_allVars
    PROVE  DbInv'
<1>1. CASE UNCHANGED allVars
  BY <1>1 DEF allVars, dbVars, vars, DbInv, DbTypes, HalfWritten, Placed, Walks, NoneBefore,
     Target
<1>2. ASSUME NEW t \in Thread, Section(t) PROVE DbInv'
  BY <1>2, LookDbInv, SeekDbInv, WritePartDbInv, WriteRestDbInv, WriteLevelDbInv DEF Section
<1> QED
  BY <1>1, <1>2, CallDbInv, EnterDbInv, LeaveDbInv DEF DbNext

\* Where each thread is in its scan holds in every reachable state.
LEMMA DbInvariance == DbSpec => []DbInv
<1>1. IInv /\ [DbNext]_allVars => IInv'
  BY StepOfLock, NextIInv
<1>2. DbInit => IInv
  BY InitIInv DEF DbInit
<1>3. IInv => MutualExclusion
  BY IInvExcludes
<1>4. DbInv /\ IInv /\ IInv' /\ [DbNext]_allVars => DbInv'
  <2>1. IInv' => MutualExclusion'
    BY <1>3, PTL
  <2> QED
    BY <1>3, <2>1, NextDbInv
<1> QED
  BY <1>1, <1>2, <1>4, InitDbInv, PTL DEF DbSpec
-----------------------------------------------------------------------------
(***************************************************************************)
(* The threads under the lock implement the calls of AtomicUserDB.  A call *)
(* takes effect with the step that finishes it: the last turn of its scan, *)
(* or the end of its last pwrite.                                          *)
(***************************************************************************)

stages == [t \in Thread |-> Stage(t)]

LEMMA SameOperators ==
    ASSUME NEW us, NEW u, NEW p, NEW l
    PROVE  /\ A!NotFound = NotFound
           /\ A!WithName(us, u) = WithName(us, u)
           /\ A!check_credentials(us, u, p) = First(WithCredentials(us, u, p))
           /\ A!add_user(us, u, p, l) = Append(us, [username |-> u, password |-> p, level |-> l])
           /\ A!change_permissions(us, u, l) = change_permissions(us, u, l)
<1>1. A!NotFound = NotFound
  BY DEF A!NotFound, NotFound
<1>2. A!WithName(us, u) = WithName(us, u)
  BY DEF A!WithName, WithName
<1>3. A!WithCredentials(us, u, p) = WithCredentials(us, u, p)
  BY <1>2 DEF A!WithCredentials, WithCredentials
<1>4. \A S : A!First(S) = First(S)
  BY <1>1 DEF A!First, First, A!Min, Min
<1> QED
  BY <1>1, <1>2, <1>3, <1>4 DEF A!check_credentials, A!add_user, A!change_permissions,
     change_permissions

\* A step of t moves t alone.
LEMMA StageMoves ==
    ASSUME NEW t \in Thread,
           \A u \in Thread \ {t} : pc'[u] = pc[u] /\ step'[u] = step[u]
    PROVE  stages' = [stages EXCEPT ![t] = Stage(t)']
<1>1. \A u \in Thread \ {t} : Stage(u)' = Stage(u)
  BY DEF Stage
<1> QED
  BY <1>1 DEF stages

LEMMA StageStays ==
    ASSUME NEW t \in Thread,
           \A u \in Thread \ {t} : pc'[u] = pc[u] /\ step'[u] = step[u],
           Stage(t)' = Stage(t)
    PROVE  stages' = stages
  BY DEF stages, Stage

\* The file as it was is the list of accounts as it was.
LEMMA WholeStays ==
    ASSUME users' = users, half' = half
    PROVE  Whole' = Whole
  BY DEF Whole

LEMMA CallRefines ==
    ASSUME DbInv, IInv, NEW t \in Thread, NEW j \in Job, Call(t, j)
    PROVE  A!Call(t, j)
<1>1. /\ pc[t] = "idle"
      /\ pc' = [pc EXCEPT ![t] = IF j.op = "check_credentials" THEN "wantRead" ELSE "wantWrite"]
  BY DEF Call, AskRead, AnnounceWriter, Goto
<1>2. step[t] = "none"
  BY <1>1 DEF DbInv, Placed
<1>3. job' = [job EXCEPT ![t] = j] /\ UNCHANGED <<users, half, step, result>>
  BY DEF Call
<1>4. Stage(t) = "idle" /\ Stage(t)' = "called"
  BY <1>1, <1>2, <1>3 DEF Stage, IInv, TypeOK
<1>5. \A u \in Thread \ {t} : pc'[u] = pc[u] /\ step'[u] = step[u]
  BY <1>1, <1>3 DEF IInv, TypeOK
<1>6. stages[t] = "idle" /\ stages' = [stages EXCEPT ![t] = "called"]
  BY <1>4, <1>5, StageMoves DEF stages
<1>7. Whole' = Whole
  BY <1>3, WholeStays
<1> QED
  BY <1>3, <1>6, <1>7 DEF A!Call, stages

LEMMA EnterRefines ==
    ASSUME DbInv, IInv, NEW t \in Thread, EnterReader(t) \/ EnterWriter(t)
    PROVE  UNCHANGED A!vars
<1>1. \/ pc[t] = "wantRead" /\ pc' = [pc EXCEPT ![t] = "reading"]
      \/ pc[t] = "wantWrite" /\ pc' = [pc EXCEPT ![t] = "writing"]
  BY DEF EnterReader, EnterWriter, GetReader, GetWriter, Goto
<1>2. /\ step' = [step EXCEPT ![t] = IF job[t].op = "add_user" THEN "seek" ELSE "scan"]
      /\ UNCHANGED <<users, half, job, result>>
  BY DEF EnterReader, EnterWriter, Enter
<1>3. step[t] = "none" /\ step'[t] \in {"seek", "scan"}
  BY <1>1, <1>2 DEF DbInv, Placed, DbTypes
<1>4. Stage(t) = "called" /\ Stage(t)' = "called"
  BY <1>1, <1>3 DEF Stage, IInv, TypeOK
<1>5. \A u \in Thread \ {t} : pc'[u] = pc[u] /\ step'[u] = step[u]
  BY <1>1, <1>2 DEF IInv, TypeOK, DbInv, DbTypes
<1>6. stages' = stages /\ Whole' = Whole
  BY <1>2, <1>4, <1>5, StageStays, WholeStays
<1> QED
  BY <1>2, <1>6 DEF A!vars, stages

\* A call returns, or fails before it has begun.
LEMMA LeaveRefines ==
    ASSUME DbInv, IInv, NEW t \in Thread, LeaveReader(t) \/ LeaveWriter(t) \/ Fail(t)
    PROVE  A!Back(t, "done") \/ A!Back(t, "called")
<1>1. /\ pc[t] # "idle" /\ pc' = [pc EXCEPT ![t] = "idle"]
      /\ step[t] = "done" \/ ~Inside(t)
  BY DEF LeaveReader, LeaveWriter, Fail, ReleaseReader, ReleaseWriter, InterruptReader,
     InterruptWriter, Goto, Inside
<1>2. /\ step' = [step EXCEPT ![t] = "none"]
      /\ job' = [job EXCEPT ![t] = NoJob]
      /\ result' = [result EXCEPT ![t] = Nothing]
      /\ UNCHANGED <<users, half>>
  BY DEF LeaveReader, LeaveWriter, Fail, Back
<1>3. Stage(t) \in {"done", "called"} /\ Stage(t)' = "idle"
  <2>1. pc'[t] = "idle" /\ step'[t] = "none"
    BY <1>1, <1>2 DEF IInv, TypeOK, DbInv, DbTypes
  <2>2. Stage(t)' = "idle"
    BY <2>1 DEF Stage
  <2>3. CASE step[t] = "done"
    BY <1>1, <2>2, <2>3 DEF Stage
  <2>4. CASE step[t] # "done"
    BY <1>1, <2>2, <2>4 DEF Stage
  <2> QED
    BY <2>3, <2>4
<1>4. \A u \in Thread \ {t} : pc'[u] = pc[u] /\ step'[u] = step[u]
  BY <1>1, <1>2 DEF IInv, TypeOK, DbInv, DbTypes
<1>5. stages[t] \in {"done", "called"} /\ stages' = [stages EXCEPT ![t] = "idle"]
  BY <1>3, <1>4, StageMoves DEF stages
<1>6. Whole' = Whole
  BY <1>2, WholeStays
<1>7. A!NoJob = NoJob /\ A!Nothing = Nothing
  BY DEF A!NoJob, NoJob, A!Nothing, Nothing
<1> QED
  BY <1>2, <1>5, <1>6, <1>7 DEF A!Back, stages

\* The step of a thread inside that finishes its call.
LEMMA FinishStage ==
    ASSUME DbInv, NEW t \in Thread, Inside(t), step[t] # "done", NEW res, Finish(t, res),
           pc' = pc
    PROVE  stages[t] = "called" /\ stages' = [stages EXCEPT ![t] = "done"]
<1>1. Stage(t) = "called" /\ Stage(t)' = "done"
  BY DEF Finish, Stage, Inside, DbInv, DbTypes
<1>2. \A u \in Thread \ {t} : pc'[u] = pc[u] /\ step'[u] = step[u]
  BY DEF Finish, DbInv, DbTypes
<1> QED
  BY <1>1, <1>2, StageMoves DEF stages

\* A step of a thread inside that does not.
LEMMA InsideStage ==
    ASSUME DbInv, NEW t \in Thread, Inside(t), step[t] # "done", pc' = pc,
           step'[t] # "done", \A u \in Thread \ {t} : step'[u] = step[u]
    PROVE  stages' = stages
<1>1. Stage(t) = "called" /\ Stage(t)' = "called"
  BY DEF Stage, Inside
<1> QED
  BY <1>1, StageStays

\* A login or a change of level takes effect with the last turn of its scan, if it
\* finds nothing; a login does too if it finds the account.
LEMMA LookRefines ==
    ASSUME DbInv, IInv, MutualExclusion, NEW t \in Thread, Look(t)
    PROVE  A!Do(t) \/ UNCHANGED A!vars
<1> USE DEF Look
<1>1. Placed(t) /\ Walks(t) /\ step[t] = "scan"
  BY DEF DbInv
<1>2. half = {} /\ Inside(t)
  BY <1>1, AllWhole DEF Placed, Inside
<1>3. /\ offset[t] \in 1 .. Len(users) + 1 /\ NoneBefore(job[t], offset[t])
      /\ Len(users) \in Nat
  BY <1>1 DEF Walks, DbInv, DbTypes
<1>4. UNCHANGED <<pc, users, half, job>>
  BY DEF vars
<1>5. Whole = users /\ Whole' = users
  BY <1>2, <1>4 DEF Whole
<1>6. Target(job[t]) \subseteq 1 .. Len(users)
  BY TargetInFile
<1>7. job[t].op \in {"check_credentials", "change_permissions"}
  BY <1>1, <1>2, JobAssumption DEF Placed, Inside
<1>8. A!Returned(0) = Returned(0)
  BY DEF A!Returned, Returned
<1> DEFINE u == job[t].username
           p == job[t].password
<1>9. CASE offset[t] > Len(users)
  <2>1. Finish(t, Returned(0))
    BY <1>9
  <2>2. Target(job[t]) = {}
    BY <1>3, <1>6, <1>9 DEF NoneBefore
  <2>3. stages[t] = "called" /\ stages' = [stages EXCEPT ![t] = "done"]
    BY <1>1, <1>2, <1>4, <2>1, FinishStage
  <2>4. A!Effect(t)
    <3>1. CASE job[t].op = "check_credentials"
      <4>1. A!check_credentials(users, u, p) = A!NotFound
        BY <2>2, <3>1, SameOperators DEF Target, First
      <4> QED
        BY <1>4, <1>5, <1>8, <2>1, <3>1, <4>1 DEF A!Effect, A!Check, Finish
    <3>2. CASE job[t].op = "change_permissions"
      <4>1. WithName(users, u) = {}
        BY <2>2, <3>2 DEF Target
      <4>2. First(WithName(users, u)) = NotFound
        BY <4>1 DEF First
      <4>3. change_permissions(users, u, job[t].level) = users
        BY <4>2 DEF change_permissions
      <4>4. A!WithName(users, u) = {} /\ A!change_permissions(users, u, job[t].level) = users
        BY <4>1, <4>3, SameOperators
      <4> QED
        BY <1>4, <1>5, <1>8, <2>1, <3>2, <4>4 DEF A!Effect, Finish
    <3> QED
      BY <1>7, <3>1, <3>2
  <2> QED
    BY <1>4, <2>3, <2>4 DEF A!Do, stages
<1>10. CASE offset[t] <= Len(users) /\ Wanted(t, users[offset[t]])
  <2>1. offset[t] \in Target(job[t])
    BY <1>2, <1>3, <1>10, WantedTarget
  <2>2. CASE job[t].op = "check_credentials"
    <3> DEFINE found == WithCredentials(users, u, p)
    <3>1. Finish(t, [status |-> 1, level |-> users[offset[t]].level])
      BY <1>2, <1>3, <1>10, <2>2 DEF Decide
    <3>2. found = Target(job[t])
      BY <2>2 DEF Target
    <3> HIDE DEF found
    <3>3. found \in SUBSET Nat /\ offset[t] \in found /\ \A i \in found : offset[t] <= i
      BY <1>3, <1>6, <2>1, <3>2 DEF NoneBefore
    <3>4. First(found) = offset[t]
      BY <3>3, FirstIs
    <3>5. A!check_credentials(users, u, p) = offset[t] /\ A!NotFound = 0
      BY <3>4, SameOperators DEF found, NotFound
    <3>6. offset[t] # 0
      BY <1>3
    <3>7. A!Check(u, p) = [status |-> 1, level |-> users[offset[t]].level]
      BY <1>5, <3>5, <3>6 DEF A!Check
    <3>8. A!Effect(t)
      BY <1>4, <1>5, <2>2, <3>1, <3>7 DEF A!Effect, Finish
    <3>9. stages[t] = "called" /\ stages' = [stages EXCEPT ![t] = "done"]
      BY <1>1, <1>2, <1>4, <3>1, FinishStage
    <3> QED
      BY <1>4, <3>8, <3>9 DEF A!Do, stages
  <2>3. CASE job[t].op # "check_credentials"
    <3>1. step' = [step EXCEPT ![t] = "write"] /\ UNCHANGED result
      BY <1>2, <1>3, <1>10, <2>3 DEF Decide
    <3>2. stages' = stages
      BY <1>1, <1>2, <1>4, <3>1, InsideStage DEF DbInv, DbTypes
    <3> QED
      BY <1>4, <1>5, <3>1, <3>2 DEF A!vars, stages
  <2> QED
    BY <2>2, <2>3
<1>11. CASE offset[t] <= Len(users) /\ ~Wanted(t, users[offset[t]])
  <2>1. UNCHANGED <<step, result>>
    BY <1>3, <1>11
  <2>2. stages' = stages
    BY <1>1, <1>2, <1>4, <2>1, InsideStage
  <2> QED
    BY <1>4, <1>5, <2>1, <2>2 DEF A!vars, stages
<1> QED
  BY <1>3, <1>9, <1>10, <1>11

LEMMA SeekRefines ==
    ASSUME DbInv, IInv, NEW t \in Thread, Seek(t)
    PROVE  UNCHANGED A!vars
<1>1. UNCHANGED <<pc, users, half, job, result>> /\ step[t] = "seek"
  BY DEF Seek, vars
<1>2. Inside(t)
  BY <1>1 DEF DbInv, Placed, Inside
<1>3. step'[t] = "write" /\ \A u \in Thread \ {t} : step'[u] = step[u]
  BY DEF Seek, DbInv, DbTypes
<1>4. stages' = stages /\ Whole' = Whole
  BY <1>1, <1>2, <1>3, InsideStage, WholeStays
<1> QED
  BY <1>1, <1>4 DEF A!vars, stages

\* The part of a new record is not yet an account.
LEMMA WritePartRefines ==
    ASSUME DbInv, IInv, MutualExclusion, NEW t \in Thread, WritePart(t)
    PROVE  UNCHANGED A!vars
<1> DEFINE r == NewRecord(job[t])
<1>1. /\ pc[t] = "writing"
      /\ half = {} /\ half' = {Len(users) + 1}
      /\ r \in Account
      /\ users' = Append(users, r)
  BY PartAppended
<1> HIDE DEF r
<1>2. users \in Seq(Account)
  BY DEF DbInv, DbTypes
<1>3. Len(users') = Len(users) + 1 /\ SubSeq(users', 1, Len(users)) = users
  BY <1>1, <1>2, AppendProperties
<1>4. Len(users) \in Nat /\ Len(users') - 1 = Len(users)
  BY <1>2, <1>3, SMTT(60)
<1>5. Whole' = Whole
  BY <1>1, <1>3, <1>4, ZenonT(60) DEF Whole
<1>6. UNCHANGED <<pc, step, job, result>> /\ step[t] = "write"
  BY DEF WritePart, vars
<1>7. stages' = stages
  BY <1>1, <1>6, InsideStage DEF Inside
<1> QED
  BY <1>5, <1>6, <1>7 DEF A!vars, stages

\* A registration takes effect with the rest of its record.
LEMMA WriteRestRefines ==
    ASSUME DbInv, IInv, MutualExclusion, NEW t \in Thread, WriteRest(t)
    PROVE  A!Do(t)
<1> USE DEF WriteRest
<1>1. Placed(t) /\ Walks(t) /\ users \in Seq(Account)
  BY DEF DbInv, DbTypes
<1>2. pc[t] = "writing" /\ UNCHANGED <<pc, users, job>>
  BY <1>1 DEF Placed, vars
<1>3. half = {offset[t]}
  BY <1>2, OwnHalf
<1>4. half' = {}
  BY <1>3
<1>5. offset[t] = Len(users) /\ users[offset[t]] = NewRecord(job[t]) /\ offset[t] \in Nat
  BY <1>1, <1>3 DEF Walks, DbInv, DbTypes
<1> DEFINE n == Len(users)
           front == SubSeq(users, 1, n - 1)
           r == NewRecord(job[t])
<1>6. r \in Account
  BY <1>1, <1>2 DEF Placed, NewRecord, Account, AccountOf
<1>7. users # << >>
  BY <1>1, <1>3 DEF Walks
<1>8. Append(front, users[n]) = users
  BY <1>1, <1>7, AppendProperties
<1>9. Whole = front /\ Whole' = Append(front, r)
  BY <1>2, <1>3, <1>4, <1>5, <1>8 DEF Whole
<1>10. Finish(t, Returned(0)) /\ job[t].op = "add_user" /\ step[t] = "write"
  OBVIOUS
<1>11. A!Returned(0) = Returned(0)
  BY DEF A!Returned, Returned
<1>12. A!add_user(Whole, job[t].username, job[t].password, job[t].level) = Whole'
  <2> DEFINE j == job[t]
             rec == [username |-> j.username, password |-> j.password, level |-> j.level]
  <2>1. r = rec
    BY DEF NewRecord
  <2>2. A!add_user(Whole, j.username, j.password, j.level) = Append(Whole, rec)
    BY SameOperators
  <2> QED
    BY <1>9, <2>1, <2>2
<1>13. A!Effect(t)
  BY <1>10, <1>11, <1>12 DEF A!Effect, Finish
<1>14. stages[t] = "called" /\ stages' = [stages EXCEPT ![t] = "done"]
  BY <1>2, <1>10, FinishStage DEF Inside
<1> QED
  BY <1>2, <1>13, <1>14 DEF A!Do, stages

\* A change of level takes effect with its pwrite.
LEMMA WriteLevelRefines ==
    ASSUME DbInv, IInv, MutualExclusion, NEW t \in Thread, WriteLevel(t)
    PROVE  A!Do(t)
<1>1. /\ pc[t] = "writing" /\ half = {}
      /\ WithName(users, job[t].username) # {}
      /\ users' = change_permissions(users, job[t].username, job[t].level)
  BY LevelChanged
<1>2. /\ UNCHANGED <<pc, half, job>> /\ Finish(t, Returned(1))
      /\ job[t].op = "change_permissions" /\ step[t] = "write"
  BY DEF WriteLevel, vars
<1>3. Whole = users /\ Whole' = users'
  BY <1>1, <1>2 DEF Whole
<1>4. A!Returned(1) = Returned(1)
  BY DEF A!Returned, Returned
<1>5. /\ A!WithName(users, job[t].username) # {}
      /\ A!change_permissions(users, job[t].username, job[t].level) = users'
  BY <1>1, SameOperators
<1>6. A!Effect(t)
  BY <1>2, <1>3, <1>4, <1>5 DEF A!Effect, Finish
<1>7. stages[t] = "called" /\ stages' = [stages EXCEPT ![t] = "done"]
  BY <1>1, <1>2, FinishStage DEF Inside
<1> QED
  BY <1>2, <1>6, <1>7 DEF A!Do, stages

LEMMA DbInitRefines == DbInit => A!Init
<1> SUFFICES ASSUME DbInit PROVE A!Init
  OBVIOUS
<1>1. /\ users = << >> /\ half = {}
      /\ pc = [t \in Thread |-> "idle"] /\ job = [t \in Thread |-> NoJob]
      /\ step = [t \in Thread |-> "none"] /\ result = [t \in Thread |-> Nothing]
  BY DEF DbInit, Init
<1>2. \A t \in Thread : Stage(t) = "idle"
  BY <1>1 DEF Stage
<1>3. Whole = << >>
  BY <1>1 DEF Whole
<1> QED
  BY <1>1, <1>2, <1>3 DEF A!Init, A!NoJob, NoJob, A!Nothing, Nothing

LEMMA DbStepRefines ==
    ASSUME DbInv, IInv, MutualExclusion, [DbNext]_allVars
    PROVE  [A!Next]_(A!vars)
<1>1. CASE UNCHANGED allVars
  BY <1>1 DEF allVars, dbVars, vars, A!vars, Stage, Whole
<1>2. ASSUME NEW t \in Thread, NEW j \in Job, Call(t, j) PROVE A!Next
  BY <1>2, CallRefines DEF A!Next
<1>3. ASSUME NEW t \in Thread, EnterReader(t) \/ EnterWriter(t) PROVE UNCHANGED A!vars
  BY <1>3, EnterRefines
<1>4. ASSUME NEW t \in Thread, Section(t) PROVE A!Do(t) \/ UNCHANGED A!vars
  BY <1>4, LookRefines, SeekRefines, WritePartRefines, WriteRestRefines, WriteLevelRefines
     DEF Section
<1>5. ASSUME NEW t \in Thread, LeaveReader(t) \/ LeaveWriter(t) \/ Fail(t) PROVE A!Next
  BY <1>5, LeaveRefines DEF A!Next
<1>6. ASSUME NEW t \in Thread, A!Do(t) PROVE A!Next
  BY <1>6 DEF A!Next
<1> QED
  BY <1>1, <1>2, <1>3, <1>4, <1>5, <1>6 DEF DbNext

\* Every call on the user database takes effect at once, on accounts that no other
\* call has half changed, however many threads call and in whatever order they run.
THEOREM Atomic == DbSpec => ImplementsAtomicUserDB
<1>1. DbSpec => []IInv
  <2>1. IInv /\ [DbNext]_allVars => IInv'
    BY StepOfLock, NextIInv
  <2>2. DbInit => IInv
    BY InitIInv DEF DbInit
  <2> QED
    BY <2>1, <2>2, PTL DEF DbSpec
<1>2. DbInv /\ IInv /\ MutualExclusion /\ [DbNext]_allVars => [A!Next]_(A!vars)
  BY DbStepRefines
<1> QED
  BY <1>1, <1>2, DbInitRefines, DbInvariance, ScansExclude, PTL
     DEF DbSpec, ImplementsAtomicUserDB, A!Spec
=============================================================================
