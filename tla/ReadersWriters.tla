--------------------------- MODULE ReadersWriters ---------------------------
(***************************************************************************)
(* What the lock of src/server/database/sync.c promises to the two         *)
(* databases: any number of threads read together, a thread that writes is *)
(* alone.  Nothing is said of how the lock decides, or of who waits.       *)
(***************************************************************************)
CONSTANT Thread

VARIABLES reading,   \* the threads inside a read section
          writing    \* the threads inside a write section

vars == <<reading, writing>>

Init == reading = {} /\ writing = {}

StartRead(t) ==
    /\ t \notin reading
    /\ writing = {}
    /\ reading' = reading \cup {t}
    /\ UNCHANGED writing

EndRead(t) ==
    /\ t \in reading
    /\ reading' = reading \ {t}
    /\ UNCHANGED writing

StartWrite(t) ==
    /\ reading = {} /\ writing = {}
    /\ writing' = {t}
    /\ UNCHANGED reading

EndWrite(t) ==
    /\ t \in writing
    /\ writing' = writing \ {t}
    /\ UNCHANGED reading

Next == \E t \in Thread : \/ StartRead(t)  \/ EndRead(t)
                          \/ StartWrite(t) \/ EndWrite(t)

Spec == Init /\ [][Next]_vars
=============================================================================
