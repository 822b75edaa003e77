------------------------------- MODULE DbFile -------------------------------
(***************************************************************************)
(* A database file as src/server/database/db_utils.c sees it: a sequence   *)
(* of bytes, offset 0 being its first element.  pread_exact and            *)
(* pwrite_exact loop until they are done, so their results are the whole   *)
(* transfer; what is left to chance is a file that ends early and a disk   *)
(* that is full.                                                           *)
(***************************************************************************)
EXTENDS Naturals, Sequences, FiniteSetsExt

Byte == 0 .. 255

\* The bytes that pread_exact finds: fewer than count at the end of the file.
Pread(file, count, offset) ==
    SubSeq(file, offset + 1, Min({offset + count, Len(file)}))

\* The file after pwrite_exact: a gap beyond the end is filled with zeros.
Pwrite(file, bytes, offset) ==
    [i \in 1 .. Max({Len(file), offset + Len(bytes)}) |->
        IF i \in offset + 1 .. offset + Len(bytes) THEN bytes[i - offset]
        ELSE IF i <= Len(file) THEN file[i] ELSE 0]

\* The files that pwrite_exact may leave when it returns -1 on a full disk: the
\* pwrites before the failing one have written what lies inside the file, and
\* what lies beyond in part or not at all; or the first one has already failed.
TornWrites(file, bytes, offset) ==
    IF offset + Len(bytes) <= Len(file) THEN {}
    ELSE {file} \cup
         { Pwrite(file, SubSeq(bytes, 1, k), offset) :
              k \in { j \in 1 .. Len(bytes) - 1 : offset + j >= Len(file) } }
=============================================================================
