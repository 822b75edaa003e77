---------------------------- MODULE ConnPool_proofs ----------------------------
(***************************************************************************)
(* Proofs about the accept loop of src/server/main.c, for any number of    *)
(* clients, of slots and of threads.                                       *)
(*                                                                         *)
(* SlotsConserved says nothing of a process that has ended, which keeps    *)
(* its descriptors until the next one starts; HeldBounded is what remains  *)
(* of it then.                                                             *)
(***************************************************************************)
EXTENDS ConnPool, FiniteSetTheorems, TLAPS

Busy == In({"accepted", "admitted"})
Held == In({"admitted", "served", "closed"})
Descr == In({"accepted", "admitted", "served"})

HeldBounded == Cardinality(Held) <= MAX_CONNECTIONS

IInv == TypeOK /\ SlotsConserved /\ HeldBounded

-----------------------------------------------------------------------------
(***************************************************************************)
(* How a step of one client changes the sets In(S).                        *)
(***************************************************************************)

\* The clients in some states are finitely many, so that they can be counted.
LEMMA InFinite ==
    ASSUME NEW S
    PROVE  IsFiniteSet(In(S)) /\ Cardinality(In(S)) \in Nat
<1>1. In(S) \in SUBSET Client
  BY DEF In
<1>2. IsFiniteSet(In(S))
  BY <1>1, FS_Subset, ClientAssumption
<1> QED
  BY <1>2, FS_CardinalityType

\* A client that enters the states S is one more.
LEMMA Enters ==
    ASSUME NEW S, state \in [Client -> State], NEW c \in Client,
           NEW from, NEW to, Move(c, from, to), from \notin S, to \in S
    PROVE  /\ In(S)' = In(S) \cup {c}
           /\ c \notin In(S)
           /\ Cardinality(In(S)') = Cardinality(In(S)) + 1
<1>1. In(S)' = In(S) \cup {c} /\ c \notin In(S)
  BY DEF In, Move
<1> QED
  BY <1>1, InFinite, FS_AddElement

\* A client that leaves the states S is one less.
LEMMA Leaves ==
    ASSUME NEW S, state \in [Client -> State], NEW c \in Client,
           NEW from, NEW to, Move(c, from, to), from \in S, to \notin S
    PROVE  /\ In(S)' = In(S) \ {c}
           /\ c \in In(S)
           /\ Cardinality(In(S)') = Cardinality(In(S)) - 1
<1>1. In(S)' = In(S) \ {c} /\ c \in In(S)
  BY DEF In, Move
<1> QED
  BY <1>1, InFinite, FS_RemoveElement

\* A client that moves outside S, or inside S, leaves In(S) as it was.
LEMMA Stays ==
    ASSUME NEW S, state \in [Client -> State], NEW c \in Client,
           NEW from, NEW to, Move(c, from, to), from \in S <=> to \in S
    PROVE  In(S)' = In(S)
  BY DEF In, Move

\* A client goes from one state to another.
LEMMA Moves ==
    ASSUME state \in [Client -> State], NEW c \in Client,
           NEW from, NEW to \in State, Move(c, from, to)
    PROVE  state' \in [Client -> State]
  BY DEF Move

\* With every client away, nothing is held.
LEMMA AllAway ==
    ASSUME state = [c \in Client |-> "away"]
    PROVE  Busy = {} /\ Held = {} /\ Descr = {} /\ Cardinality(Held) = 0
<1>1. Busy = {} /\ Held = {} /\ Descr = {}
  BY DEF Busy, Held, Descr, In
<1> QED
  BY <1>1, FS_EmptySet

-----------------------------------------------------------------------------
(***************************************************************************)
(* IInv is an inductive invariant.                                         *)
(***************************************************************************)

\* A process that starts satisfies the invariant.
LEMMA InitIInv == Init => IInv
<1> SUFFICES ASSUME Init PROVE IInv
  OBVIOUS
<1>1. Busy = {} /\ Descr = {} /\ Cardinality(Held) = 0
  BY AllAway DEF Init
<1>2. TypeOK
  BY <1>1, MaxAssumption DEF Init, TypeOK, State, Busy, Descr
<1> QED
  BY <1>1, <1>2, MaxAssumption DEF Init, IInv, SlotsConserved, HeldBounded, Held

\* So does one that starts again: Restart establishes Init.
LEMMA RestartIInv == Restart => IInv'
<1>1. Restart => Init'
  BY DEF Restart, Init
<1>2. Init' => IInv'
  BY InitIInv, PTL
<1> QED
  BY <1>1, <1>2

LEMMA NextIInv == IInv /\ [Next]_vars => IInv'
<1> SUFFICES ASSUME IInv, [Next]_vars PROVE IInv'
  OBVIOUS
<1> USE DEF IInv, Busy, Held, Descr
<1>0. /\ Cardinality(Held) \in Nat
      /\ state \in [Client -> State]
      /\ \A c, d \in Busy : c = d
      /\ open = Descr
  BY InFinite DEF TypeOK
<1>1. CASE UNCHANGED vars
  <2>1. Busy' = Busy /\ Held' = Held /\ Descr' = Descr
    BY <1>1 DEF vars, In
  <2> QED
    BY <1>1, <2>1 DEF vars, TypeOK, SlotsConserved, HeldBounded
<1>2. CASE Restart
  BY <1>2, RestartIInv
<1>3. CASE up /\ AcceptFails
  <2>1. Busy' = Busy /\ Held' = Held /\ Descr' = Descr
    BY <1>3 DEF AcceptFails, In
  <2>2. ~up' /\ conn_sem' \in Nat /\ UNCHANGED <<backlog, state, open, threads>>
    BY <1>3 DEF AcceptFails, TypeOK
  <2>3. TypeOK'
    BY <1>3, <2>1, <2>2 DEF AcceptFails, TypeOK
  <2> QED
    BY <2>1, <2>2, <2>3 DEF SlotsConserved, HeldBounded
<1>4. CASE up /\ Accept
  <2> DEFINE c == Head(backlog)
  <2>1. c \in Client /\ backlog' \in Seq(Client)
    BY <1>4 DEF Accept, TypeOK
  <2>2. Busy' = Busy \cup {c} /\ Busy = {} /\ Descr' = Descr \cup {c}
    BY <1>0, <1>4, <2>1, Enters DEF Accept
  <2>3. Held' = Held
    BY <1>0, <1>4, <2>1, Stays DEF Accept
  <2>4. state' \in [Client -> State]
    BY <1>0, <1>4, <2>1, Moves DEF Accept, State
  <2> QED
    BY <1>4, <2>1, <2>2, <2>3, <2>4
    DEF Accept, TypeOK, SlotsConserved, HeldBounded
<1> SUFFICES ASSUME up, NEW c \in Client,
                    \/ Connect(c) \/ Admit(c) \/ Refuse(c) \/ StartThread(c)
                    \/ NoThread(c) \/ CloseFd(c) \/ Post(c)
             PROVE  IInv'
  BY <1>1, <1>2, <1>3, <1>4 DEF Next, Main
<1>5. CASE Connect(c)
  <2>1. Busy' = Busy /\ Held' = Held /\ Descr' = Descr
    BY <1>0, <1>5, Stays DEF Connect
  <2>2. state' \in [Client -> State]
    BY <1>0, <1>5, Moves DEF Connect, State
  <2>3. backlog' \in Seq(Client)
    BY <1>5 DEF Connect, TypeOK
  <2> QED
    BY <1>5, <2>1, <2>2, <2>3 DEF Connect, TypeOK, SlotsConserved, HeldBounded
<1>6. CASE Admit(c)
  <2>1. Busy' = Busy /\ Descr' = Descr
    BY <1>0, <1>6, Stays DEF Admit
  <2>2. Cardinality(Held') = Cardinality(Held) + 1
    BY <1>0, <1>6, Enters DEF Admit
  <2>3. state' \in [Client -> State]
    BY <1>0, <1>6, Moves DEF Admit, State
  <2>4. conn_sem \in Nat /\ conn_sem > 0 /\ conn_sem' = conn_sem - 1
    BY <1>6 DEF Admit, TypeOK
  <2>5. conn_sem' \in Nat /\ conn_sem' + Cardinality(Held') = MAX_CONNECTIONS
    BY <1>0, <2>2, <2>4 DEF SlotsConserved
  <2>6. Cardinality(Held') <= MAX_CONNECTIONS
    BY <1>0, <2>2, <2>5, MaxAssumption
  <2> QED
    BY <1>6, <2>1, <2>3, <2>5, <2>6 DEF Admit, TypeOK, SlotsConserved, HeldBounded
<1>7. CASE Refuse(c)
  <2>1. Busy' \subseteq Busy /\ Descr' = Descr \ {c}
    BY <1>0, <1>7, Leaves DEF Refuse
  <2>2. Held' = Held
    BY <1>0, <1>7, Stays DEF Refuse
  <2>3. state' \in [Client -> State]
    BY <1>0, <1>7, Moves DEF Refuse, State
  <2> QED
    BY <1>7, <2>1, <2>2, <2>3 DEF Refuse, TypeOK, SlotsConserved, HeldBounded
<1>8. CASE StartThread(c)
  <2>1. Held' = Held /\ Descr' = Descr
    BY <1>0, <1>8, Stays DEF StartThread
  <2>2. Busy' \subseteq Busy
    BY <1>0, <1>8, Leaves DEF StartThread
  <2>3. state' \in [Client -> State]
    BY <1>0, <1>8, Moves DEF StartThread, State
  <2>4. threads' \in 0 .. MaxThreads
    BY <1>8, MaxAssumption DEF StartThread, TypeOK
  <2> QED
    BY <1>8, <2>1, <2>2, <2>3, <2>4
    DEF StartThread, TypeOK, SlotsConserved, HeldBounded
<1>9. CASE NoThread(c)
  <2>1. Busy' = Busy /\ Held' = Held /\ Descr' = Descr
    BY <1>9 DEF NoThread, In
  <2> QED
    BY <1>9, <2>1 DEF NoThread, TypeOK, SlotsConserved, HeldBounded
<1>10. CASE CloseFd(c)
  <2>1. Busy' = Busy /\ Held' = Held
    BY <1>0, <1>10, Stays DEF CloseFd
  <2>2. Descr' = Descr \ {c}
    BY <1>0, <1>10, Leaves DEF CloseFd
  <2>3. state' \in [Client -> State]
    BY <1>0, <1>10, Moves DEF CloseFd, State
  <2> QED
    BY <1>10, <2>1, <2>2, <2>3 DEF CloseFd, TypeOK, SlotsConserved, HeldBounded
<1>11. CASE Post(c)
  <2>1. Busy' = Busy /\ Descr' = Descr
    BY <1>0, <1>11, Stays DEF Post
  <2>2. Cardinality(Held') = Cardinality(Held) - 1 /\ Cardinality(Held') \in Nat
    BY <1>0, <1>11, Leaves, FS_RemoveElement, FS_CardinalityType, InFinite DEF Post
  <2>3. state' \in [Client -> State]
    BY <1>0, <1>11, Moves DEF Post, State
  <2>4. conn_sem \in Nat /\ conn_sem' = conn_sem + 1
    BY <1>11 DEF Post, TypeOK
  <2>5. conn_sem' \in Nat /\ conn_sem' + Cardinality(Held') = MAX_CONNECTIONS
    BY <1>0, <2>2, <2>4 DEF SlotsConserved
  <2>6. Cardinality(Held') <= MAX_CONNECTIONS
    BY <2>2, <2>5, <2>4, MaxAssumption
  <2> QED
    BY <1>11, <2>1, <2>3, <2>5, <2>6 DEF Post, TypeOK, SlotsConserved, HeldBounded
<1> QED
  BY <1>5, <1>6, <1>7, <1>8, <1>9, <1>10, <1>11

\* Every reachable state satisfies the inductive invariant.
LEMMA Invariance == Spec => []IInv
  BY InitIInv, NextIInv, PTL DEF Spec

-----------------------------------------------------------------------------
(***************************************************************************)
(* The results.                                                            *)
(***************************************************************************)

\* Type correctness: the main thread holds one connection at a time, and the
\* open descriptors are those of the connections accepted and not yet closed.
THEOREM TypeCorrect == Spec => []TypeOK
<1>1. IInv => TypeOK
  BY DEF IInv
<1> QED
  BY <1>1, Invariance, PTL

\* No unit of conn_sem is lost or invented, for any number of connections.
THEOREM SlotsExact == Spec => []SlotsConserved
<1>1. IInv => SlotsConserved
  BY DEF IInv
<1> QED
  BY <1>1, Invariance, PTL

LEMMA IInvBounds == IInv => DescriptorsBounded
<1> SUFFICES ASSUME IInv PROVE DescriptorsBounded
  OBVIOUS
<1> USE DEF Busy, Held, Descr
<1> DEFINE Fresh == In({"accepted"})
<1>1. IsFiniteSet(Fresh) /\ IsFiniteSet(Held) /\ IsFiniteSet(Fresh \cup Held)
  BY InFinite, FS_Union
<1>2. Cardinality(Fresh) <= 1
  <2>1. CASE Fresh = {}
    BY <2>1, FS_EmptySet
  <2>2. CASE Fresh # {}
    <3>1. PICK c \in Fresh : TRUE
      BY <2>2
    <3>2. Fresh = {c}
      BY <3>1 DEF IInv, TypeOK, In
    <3> QED
      BY <3>2, FS_Singleton
  <2> QED
    BY <2>1, <2>2
<1>3. Cardinality(Fresh \cup Held) <= Cardinality(Fresh) + Cardinality(Held)
  <2>1. /\ Cardinality(Fresh \cup Held)
             = Cardinality(Fresh) + Cardinality(Held) - Cardinality(Fresh \cap Held)
        /\ Cardinality(Fresh \cap Held) \in Nat
    BY <1>1, FS_Union, FS_Intersection, FS_CardinalityType
  <2> QED
    BY <2>1, InFinite
<1>4. open \subseteq Fresh \cup Held
  BY DEF IInv, TypeOK, In
<1>5. /\ Cardinality(open) <= Cardinality(Fresh \cup Held)
      /\ Cardinality(open) \in Nat
      /\ Cardinality(Fresh \cup Held) \in Nat
  BY <1>1, <1>4, FS_Subset, FS_CardinalityType
<1> QED
  BY <1>2, <1>3, <1>5, InFinite, MaxAssumption DEF IInv, HeldBounded, DescriptorsBounded

\* The process holds at most one descriptor more than there are slots.
THEOREM DescriptorLimit == Spec => []DescriptorsBounded
  BY IInvBounds, Invariance, PTL

-----------------------------------------------------------------------------
(***************************************************************************)
(* The accept loop implements the bounded pool.                            *)
(***************************************************************************)

LEMMA InitRefines == Init => Pool!Init
  BY DEF Init, In, Pool!Init

LEMMA StepRefines == IInv /\ [Next]_vars => [Pool!Next]_(In({"admitted", "served", "closed"}))
<1> SUFFICES ASSUME IInv, [Next]_vars PROVE Pool!Next \/ UNCHANGED Held
  BY DEF Held
<1> USE DEF Held
<1>0. state \in [Client -> State]
  BY DEF IInv, TypeOK
<1>1. CASE UNCHANGED vars
  BY <1>1 DEF vars, In
<1>2. CASE Restart
  <2>1. Held' = {}
    BY <1>2 DEF Restart, In
  <2> QED
    BY <2>1 DEF Pool!Next, Pool!Reset
<1>3. CASE AcceptFails
  BY <1>3 DEF AcceptFails, In
<1>4. CASE Accept
  <2>1. Head(backlog) \in Client
    BY <1>4 DEF Accept, IInv, TypeOK
  <2> QED
    BY <1>0, <1>4, <2>1, Stays DEF Accept
<1> SUFFICES ASSUME up, NEW c \in Client,
                    \/ Connect(c) \/ Admit(c) \/ Refuse(c) \/ StartThread(c)
                    \/ NoThread(c) \/ CloseFd(c) \/ Post(c)
             PROVE  Pool!Next \/ UNCHANGED Held
  BY <1>1, <1>2, <1>3, <1>4 DEF Next, Main
<1>5. CASE Admit(c)
  <2>1. Held' = Held \cup {c} /\ c \notin Held
    BY <1>0, <1>5, Enters DEF Admit
  <2>2. Cardinality(Held) < MAX_CONNECTIONS
    BY <1>5, InFinite, MaxAssumption DEF Admit, IInv, TypeOK, SlotsConserved
  <2>3. Pool!Cardinality(Held) = Cardinality(Held)
    BY DEF Cardinality, Pool!Cardinality
  <2> QED
    BY <2>1, <2>2, <2>3 DEF Pool!Next, Pool!Take
<1>6. CASE Post(c)
  <2>1. Held' = Held \ {c} /\ c \in Held
    BY <1>0, <1>6, Leaves DEF Post
  <2> QED
    BY <2>1 DEF Pool!Next, Pool!Give
<1>7. CASE Connect(c) \/ Refuse(c) \/ StartThread(c) \/ CloseFd(c)
  BY <1>0, <1>7, Stays DEF Connect, Refuse, StartThread, CloseFd
<1>8. CASE NoThread(c)
  BY <1>8 DEF NoThread, In
<1> QED
  BY <1>5, <1>6, <1>7, <1>8

\* Every step of the accept loop takes a slot that is free, gives one back, or
\* changes nothing that the bounded pool sees.
THEOREM Refinement == Spec => ImplementsSlotPool
  BY InitRefines, StepRefines, Invariance, PTL DEF Spec, ImplementsSlotPool, Pool!Spec
=============================================================================
