------------------------------ MODULE PhoneBook ------------------------------
(***************************************************************************)
(* What contact_db.c promises to the handlers of insert.c, delete.c and    *)
(* search.c: a book of contacts.  A contact is a pair of a name and a      *)
(* phone number; nothing keeps two entries from having the same name, or   *)
(* the same of both.                                                       *)
(***************************************************************************)
EXTENDS Naturals, Sequences, FiniteSets

CONSTANTS Contact,    \* the contacts that clients insert: <<name, phone number>>
          Name,       \* the names that they delete
          Query,      \* the searches that they make: <<limit, prefix>>
          Matches(_, _)  \* Matches(prefix, name)

VARIABLES book,       \* the contact of each entry
          reply       \* the answer to the last request

vars == <<book, reply>>

Answer(status, found) == [status |-> status, found |-> found]
Nothing == [e \in {} |-> e]

\* The contacts of some entries.
Of(entries) == [e \in entries |-> book[e]]

Matching(prefix) == { e \in DOMAIN book : Matches(prefix, book[e][1]) }

Init == book = Nothing /\ reply = Answer("none", Nothing)

\* The contact gets an entry that no other has.
Insert(c) ==
    /\ \E e \in (DOMAIN book') \ DOMAIN book :
          book' = [d \in DOMAIN book \cup {e} |-> IF d = e THEN c ELSE book[d]]
    /\ reply' = Answer("OK", Nothing)

Delete(name) ==
    \E e \in DOMAIN book :
        /\ book[e][1] = name
        /\ book' = Of(DOMAIN book \ {e})
        /\ reply' = Answer("OK", Nothing)

DeleteMissing(name) ==
    /\ \A e \in DOMAIN book : book[e][1] # name
    /\ reply' = Answer("NOT_FOUND", Nothing)
    /\ UNCHANGED book

\* All of the matching contacts are returned if they are fewer than the limit, as
\* many as the limit otherwise.
Search(limit, prefix) ==
    /\ \/ /\ Cardinality(Matching(prefix)) < limit
          /\ reply' = Answer("ALL_RETURNED", Of(Matching(prefix)))
       \/ \E found \in SUBSET Matching(prefix) :
             /\ Cardinality(found) = limit
             /\ reply' = Answer("FEWER_RETURNED", Of(found))
    /\ UNCHANGED book

\* A request that cannot be understood changes nothing.
Refuse ==
    /\ reply' = Answer("MALFORMED_REQUEST", Nothing)
    /\ UNCHANGED book

Next ==
    \/ \E c \in Contact : Insert(c)
    \/ \E n \in Name : Delete(n) \/ DeleteMissing(n)
    \/ \E q \in Query : Search(q[1], q[2])
    \/ Refuse

Spec == Init /\ [][Next]_vars
=============================================================================
