------------------------------ MODULE ContactDB ------------------------------
(***************************************************************************)
(* The contact database, src/server/database/contact_db.c, with the        *)
(* handlers of insert.c, delete.c and search.c that call it.  The file is  *)
(* modelled byte by byte, as the scans walk it:                            *)
(*                                                                         *)
(*    ACTIVE | NAME_LENGTH | PHONE_NUMBER_LENGTH | name | phone number     *)
(*                                                                         *)
(* Every scan runs inside the lock of RWLock, whose theorems make it       *)
(* atomic: one action is one request, from its payload to its answer.      *)
(*                                                                         *)
(* A request is the payload_size of its header and the bytes that arrived, *)
(* fewer when the client left in the middle.                               *)
(***************************************************************************)
EXTENDS DbFile, Integers, FiniteSets

CONSTANTS InsertRequest, DeleteRequest, SearchRequest,  \* requests clients send
          MaxRecords,  \* bound on the records of the file
          MaxTorn      \* bound on the writes cut short by a full disk

MAX_CONTACT_NAME_LEN == 128
MAX_PHONE_NUMBER_LENGTH == 20

IsRequest(r) ==
    /\ r.size \in Nat /\ r.size < 65536
    /\ r.bytes \in Seq(Byte)
    /\ Len(r.bytes) <= r.size

\* A limit of 0 is left out: the results then overflow the buffer of 0 slots
\* of contact_db.c:246.  The client always asks for 12.
ASSUME RequestAssumption ==
    /\ \A r \in InsertRequest \cup DeleteRequest \cup SearchRequest : IsRequest(r)
    /\ \A r \in SearchRequest : r.bytes # << >> => r.bytes[1] # 0

ASSUME BoundAssumption == MaxRecords \in Nat /\ MaxTorn \in Nat

-----------------------------------------------------------------------------
\* The first byte of the payload is a signed char.
S8(b) == IF b > 127 THEN b - 256 ELSE b

\* Mutant: the length of the phone number has no maximum.
WellFormedInsertAnyPhone(r) ==
    /\ Len(r.bytes) = r.size
    /\ r.size >= 3
    /\ S8(r.bytes[1]) \in 1 .. MAX_CONTACT_NAME_LEN
    /\ r.size - 1 - S8(r.bytes[1]) >= 1

\* A length that is negative as a signed number is far above the maximum as
\* the unsigned number it is stored in.
WellFormedInsert(r) ==
    /\ Len(r.bytes) = r.size
    /\ r.size >= 3
    /\ S8(r.bytes[1]) \in 1 .. MAX_CONTACT_NAME_LEN
    /\ r.size - 1 - S8(r.bytes[1]) \in 1 .. MAX_PHONE_NUMBER_LENGTH

NameOf(r)  == SubSeq(r.bytes, 2, 1 + r.bytes[1])
PhoneOf(r) == SubSeq(r.bytes, 2 + r.bytes[1], r.size)

InsertedName == { NameOf(r) : r \in { q \in InsertRequest : WellFormedInsert(q) } }

InsertedSize ==
    { Len(NameOf(r)) + Len(PhoneOf(r)) : r \in { q \in InsertRequest : WellFormedInsert(q) } }

-----------------------------------------------------------------------------

VARIABLES file,     \* the bytes of CONTACT_DB_FILENAME
          up,       \* whether the server process runs
          reply,    \* the answer to the last request
          torn,     \* writes cut short so far
          acked,    \* per name, the inserts answered OK less the deletes answered OK
          peak      \* per size, the most contacts of that size ever active at once

vars == <<file, up, reply, torn, acked, peak>>

Answer(status, found) == [status |-> status, found |-> found]
Nothing == [e \in {} |-> e]

Init ==
    /\ file = << >>
    /\ up = TRUE
    /\ reply = Answer("none", Nothing)
    /\ torn = 0
    /\ acked = [name \in InsertedName |-> 0]
    /\ peak = [size \in InsertedSize |-> 0]

-----------------------------------------------------------------------------
(***************************************************************************)
(* The walk over the records that the three scans share.                   *)
(***************************************************************************)

Active(f, o)      == f[o + 1]
NameLength(f, o)  == f[o + 2]
PhoneLength(f, o) == f[o + 3]
Size(f, o)        == NameLength(f, o) + PhoneLength(f, o)
NameAt(f, o)      == Pread(f, NameLength(f, o), o + 3)
PhoneAt(f, o)     == Pread(f, PhoneLength(f, o), o + 3 + NameLength(f, o))

After(f, o) == o + 3 + Size(f, o)

\* The offsets of the headers that a whole scan reads.
Slots(f) ==
    LET from[o \in Nat] == IF o + 3 > Len(f) THEN {} ELSE {o} \cup from[After(f, o)]
    IN  from[0]

\* Where it stops.
ScanEnd(f) ==
    LET end[o \in Nat] == IF o + 3 > Len(f) THEN o ELSE end[After(f, o)]
    IN  end[0]

\* It stops on a header cut short: "corrupted database", -2.
Corrupted(f) == ScanEnd(f) < Len(f)

ContactAt(f, o) == <<NameAt(f, o), PhoneAt(f, o)>>

\* The contacts at some offsets.
ContactsAt(f, offsets) == [o \in offsets |-> ContactAt(f, o)]

ActiveSlots(f) == { o \in Slots(f) : Active(f, o) = 1 }

SlotsOfSize(f, size) == { o \in Slots(f) : Size(f, o) = size }

ActiveOfSize(f, size) == ActiveSlots(f) \cap SlotsOfSize(f, size)

-----------------------------------------------------------------------------
(***************************************************************************)
(* INSERT.                                                                 *)
(***************************************************************************)

Record(r) == <<1, Len(NameOf(r)), Len(PhoneOf(r))>> \o NameOf(r) \o PhoneOf(r)

\* Mutant: a deleted record is never used again.
FreeSlotsNever(f, size) == {}

\* Mutant: a deleted record is used again for anything that fits in it.
FreeSlotsLarger(f, size) == { o \in Slots(f) : Active(f, o) = 0 /\ Size(f, o) >= size }

\* Deleted records are used again for a contact of the same total size.
FreeSlots(f, size) == { o \in Slots(f) : Active(f, o) = 0 /\ Size(f, o) = size }

\* Mutant: the record is appended at the end of the file, as user_db.c does.
AddOffsetAtEof(f, size) ==
    IF FreeSlots(f, size) # {} THEN Min(FreeSlots(f, size)) ELSE Len(f)

AddOffset(f, size) ==
    IF FreeSlots(f, size) # {} THEN Min(FreeSlots(f, size)) ELSE ScanEnd(f)

AddCorrupted(f, size) == FreeSlots(f, size) = {} /\ Corrupted(f)

\* exit(-1) after the answer: the process is gone, the file stays.
Terminate ==
    /\ reply' = Answer("SERVER_ERROR", Nothing)
    /\ up' = FALSE

Refuse(r) ==
    /\ reply' = Answer("MALFORMED_REQUEST", Nothing)
    /\ UNCHANGED <<file, up, torn, acked, peak>>

RefuseInsert(r) == ~WellFormedInsert(r) /\ Refuse(r)

Insert(r) ==
    LET size   == Len(NameOf(r)) + Len(PhoneOf(r))
        offset == AddOffset(file, size)
    IN  /\ WellFormedInsert(r)
        /\ ~AddCorrupted(file, size)
        /\ file' = Pwrite(file, Record(r), offset)
        /\ Cardinality(Slots(file')) <= MaxRecords
        /\ reply' = Answer("OK", Nothing)
        /\ acked' = [acked EXCEPT ![NameOf(r)] = @ + 1]
        /\ peak' = [peak EXCEPT ![size] = Max({@, Cardinality(ActiveOfSize(file', size))})]
        /\ UNCHANGED <<up, torn>>

InsertCorrupted(r) ==
    /\ WellFormedInsert(r)
    /\ AddCorrupted(file, Len(NameOf(r)) + Len(PhoneOf(r)))
    /\ Terminate
    /\ UNCHANGED <<file, torn, acked, peak>>

\* The disk is full: pwrite_exact returns -1 with part of the record written.
InsertTorn(r) ==
    LET size == Len(NameOf(r)) + Len(PhoneOf(r))
    IN  /\ WellFormedInsert(r)
        /\ ~AddCorrupted(file, size)
        /\ torn < MaxTorn
        /\ torn' = torn + 1
        /\ file' \in TornWrites(file, Record(r), AddOffset(file, size))
        /\ Terminate
        /\ UNCHANGED <<acked, peak>>

-----------------------------------------------------------------------------
(***************************************************************************)
(* DELETE.                                                                 *)
(***************************************************************************)

\* delete_contact takes the payload size as a uint8_t.
DeletedName(r) == SubSeq(r.bytes, 1, r.size % 256)

\* The records at which the scan would stop: those with that name, or whose name
\* is cut short by the end of the file.
Stops(f, name) ==
    { o \in ActiveSlots(f) :
        /\ NameLength(f, o) = Len(name)
        /\ NameAt(f, o) = name \/ Len(NameAt(f, o)) < Len(name) }

RefuseDelete(r) == Len(r.bytes) < r.size /\ Refuse(r)

Delete(r) ==
    LET name == DeletedName(r)
        hit  == Min(Stops(file, name))
    IN  /\ Len(r.bytes) = r.size
        /\ Stops(file, name) # {}
        /\ NameAt(file, hit) = name
        /\ file' = Pwrite(file, <<0>>, hit)
        /\ reply' = Answer("OK", Nothing)
        /\ acked' = IF name \in InsertedName /\ acked[name] > 0
                    THEN [acked EXCEPT ![name] = @ - 1] ELSE acked
        /\ UNCHANGED <<up, torn, peak>>

DeleteNotFound(r) ==
    /\ Len(r.bytes) = r.size
    /\ Stops(file, DeletedName(r)) = {}
    /\ ~Corrupted(file)
    /\ reply' = Answer("NOT_FOUND", Nothing)
    /\ UNCHANGED <<file, up, torn, acked, peak>>

DeleteCorrupted(r) ==
    LET name == DeletedName(r)
    IN  /\ Len(r.bytes) = r.size
        /\ IF Stops(file, name) = {} THEN Corrupted(file)
           ELSE NameAt(file, Min(Stops(file, name))) # name
        /\ Terminate
        /\ UNCHANGED <<file, torn, acked, peak>>

-----------------------------------------------------------------------------
(***************************************************************************)
(* SEARCH.                                                                 *)
(***************************************************************************)

tolower(b) == IF b \in 65 .. 90 THEN b + 32 ELSE b

\* memcmpcaseins over the length of the query.
Matches(query, name) ==
    /\ Len(query) <= Len(name)
    /\ \A i \in DOMAIN query : tolower(query[i]) = tolower(name[i])

WellFormedSearch(r) == Len(r.bytes) = r.size /\ r.size >= 1

LimitOf(r) == r.bytes[1]
QueryOf(r) == Tail(r.bytes)

Short(f, o) == Len(NameAt(f, o)) < NameLength(f, o) \/ Len(PhoneAt(f, o)) < PhoneLength(f, o)

\* The records whose phone number the scan reads, or whose name it finds short.
Hits(f, query) ==
    { o \in ActiveSlots(f) :
        /\ NameLength(f, o) >= Len(query)
        /\ Matches(query, NameAt(f, o)) \/ Len(NameAt(f, o)) < NameLength(f, o) }

\* Those met before one of them.
Before(hits, o) == { p \in hits : p < o }

\* Mutant: one record more than the limit is collected.
TakenOneMore(f, query, limit) ==
    { o \in Hits(f, query) : Cardinality(Before(Hits(f, query), o)) <= limit }

\* The scan ends at the limit-th match.
Taken(f, query, limit) ==
    { o \in Hits(f, query) : Cardinality(Before(Hits(f, query), o)) < limit }

SearchFails(f, query, limit) ==
    \/ \E o \in Taken(f, query, limit) : Short(f, o)
    \/ Cardinality(Hits(f, query)) < limit /\ Corrupted(f)

\* The limit is read as a signed char into an unsigned int: above 127 it is
\* greater than any count.
BelowLimit(count, limit) == limit > 127 \/ count < limit

RefuseSearch(r) == ~WellFormedSearch(r) /\ Refuse(r)

Search(r) ==
    LET taken == Taken(file, QueryOf(r), LimitOf(r))
    IN  /\ WellFormedSearch(r)
        /\ ~SearchFails(file, QueryOf(r), LimitOf(r))
        /\ reply' = Answer(IF BelowLimit(Cardinality(taken), LimitOf(r))
                           THEN "ALL_RETURNED" ELSE "FEWER_RETURNED",
                           ContactsAt(file, taken))
        /\ UNCHANGED <<file, up, torn, acked, peak>>

SearchCorrupted(r) ==
    /\ WellFormedSearch(r)
    /\ SearchFails(file, QueryOf(r), LimitOf(r))
    /\ Terminate
    /\ UNCHANGED <<file, torn, acked, peak>>

-----------------------------------------------------------------------------

\* The operator starts the server again: init_contact_db opens the file as it is.
Restart ==
    /\ ~up
    /\ up' = TRUE
    /\ UNCHANGED <<file, reply, torn, acked, peak>>

HandleInsert(r) == RefuseInsert(r) \/ Insert(r) \/ InsertCorrupted(r) \/ InsertTorn(r)
HandleDelete(r) == RefuseDelete(r) \/ Delete(r) \/ DeleteNotFound(r) \/ DeleteCorrupted(r)
HandleSearch(r) == RefuseSearch(r) \/ Search(r) \/ SearchCorrupted(r)

Next ==
    \/ up /\ \/ \E r \in InsertRequest : HandleInsert(r)
             \/ \E r \in DeleteRequest : HandleDelete(r)
             \/ \E r \in SearchRequest : HandleSearch(r)
    \/ Restart

Spec == Init /\ [][Next]_vars

-----------------------------------------------------------------------------
(***************************************************************************)
(* Properties.                                                             *)
(***************************************************************************)

\* The file holds bytes: no length is truncated when it is stored in one.
TypeOK ==
    /\ file \in Seq(Byte)
    /\ up \in BOOLEAN
    /\ torn \in 0 .. MaxTorn
    /\ acked \in [InsertedName -> Nat]
    /\ peak \in [InsertedSize -> Nat]

\* Without faults, the records tile the file: the walk ends at its last byte,
\* and no record overlaps the next whatever was deleted and used again.
WellFramed ==
    torn = 0 =>
        /\ ScanEnd(file) = Len(file)
        /\ \A o \in Slots(file) : Active(file, o) \in {0, 1} /\ ~Short(file, o)

\* External fragmentation is bounded (docs/relazione.tex:281): the file never has
\* more records of a size than there were contacts of that size at once.
SlotsBounded ==
    torn = 0 =>
        \A o \in Slots(file) :
            Cardinality(SlotsOfSize(file, Size(file, o))) <= peak[Size(file, o)]

\* The records that a delete of the name would find.
Named(f, name) ==
    { o \in ActiveSlots(f) : NameLength(f, o) = Len(name) /\ NameAt(f, o) = name }

\* A contact whose insert was answered OK stays in the file until a delete is,
\* whatever writes a full disk cut short in between.
AcknowledgedKept ==
    \A name \in InsertedName : acked[name] <= Cardinality(Named(file, name))

\* The contacts in the file.
Book(f) == ContactsAt(f, ActiveSlots(f))

\* A contact disappears only if a client asked to delete exactly its name
\* (docs/relazione.tex:201).
DeleteExact ==
    [][\A o \in DOMAIN Book(file) :
          (o \in DOMAIN Book(file') => Book(file')[o] # Book(file)[o])
              => \E r \in DeleteRequest : r.bytes = Book(file)[o][1]]_vars

\* As long as no write is cut short, the database implements the abstract phone
\* book, an entry being the offset of a record: for limits that a signed char can
\* hold, and names whose length fits a byte.
PB == INSTANCE PhoneBook
        WITH book <- Book(file),
             Contact <- { <<NameOf(r), PhoneOf(r)>> :
                              r \in { q \in InsertRequest : WellFormedInsert(q) } },
             Name <- { r.bytes : r \in DeleteRequest },
             Query <- { <<LimitOf(r), QueryOf(r)>> :
                              r \in { q \in SearchRequest : WellFormedSearch(q) } }
ImplementsPhoneBook == PB!Init /\ [][torn' = 0 => PB!Next]_PB!vars
=============================================================================
