----------------------------- MODULE MCContactDB -----------------------------
(***************************************************************************)
(* The requests with which TLC runs ContactDB.  The contacts are few and   *)
(* short, chosen so that deleted records are used again with the lengths   *)
(* split otherwise: a/1 has size 2, ab/1 and A/12 have size 3.             *)
(***************************************************************************)
EXTENDS ContactDB, SequencesExt

Request(bytes) == [size |-> Len(bytes), bytes |-> bytes]
InsertOf(name, phone) == Request(<<Len(name)>> \o name \o phone)
SearchOf(limit, prefix) == Request(<<limit>> \o prefix)

\* A request whose sender left before its last byte.
CutShort(r) == [r EXCEPT !.bytes = Front(@)]

a  == <<97>>
A  == <<65>>
ab == <<97, 98>>
Long(n) == [i \in 1 .. n |-> 97]

Inserts == {InsertOf(a, <<49>>), InsertOf(ab, <<49>>), InsertOf(A, <<49, 50>>)}

\* What the server refuses: no name, no phone number, one digit too many, more
\* digits than a byte counts, a name of 128 bytes, whose length is a negative
\* char, and a request cut short.
BadInserts == {InsertOf(<< >>, ab), InsertOf(ab, << >>), InsertOf(a, Long(21)),
               InsertOf(a, Long(300)), InsertOf(Long(128), a),
               CutShort(InsertOf(ab, <<49>>))}

Deletes     == {Request(a), Request(ab), Request(A), CutShort(Request(ab))}
LongDeletes == {Request(ab), Request(Long(257))}

Searches == {SearchOf(1, << >>), SearchOf(12, << >>), SearchOf(2, A), SearchOf(12, ab),
             Request(<< >>)}

\* With torn writes the requests are kept few.
TwoInserts == {InsertOf(a, <<49>>), InsertOf(ab, <<49>>)}
TwoDeletes == {Request(a), Request(ab)}
SearchAll == {SearchOf(12, << >>), SearchOf(1, ab)}

MCInserts == Inserts \cup BadInserts
=============================================================================
