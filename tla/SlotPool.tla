------------------------------- MODULE SlotPool -------------------------------
(***************************************************************************)
(* What conn_sem of src/server/main.c promises: a client holds one of      *)
(* MAX_CONNECTIONS slots while it is connected, never more than there are. *)
(***************************************************************************)
EXTENDS Naturals, FiniteSets

CONSTANTS Client, MAX_CONNECTIONS

VARIABLE held      \* the clients that hold a slot

Init == held = {}

Take(c) ==
    /\ c \notin held
    /\ Cardinality(held) < MAX_CONNECTIONS
    /\ held' = held \cup {c}

Give(c) == c \in held /\ held' = held \ {c}

\* The process ends, and another one starts with every slot free.
Reset == held' = {}

Next == Reset \/ \E c \in Client : Take(c) \/ Give(c)

Spec == Init /\ [][Next]_held
=============================================================================
