--------------------------- MODULE Database_proofs ---------------------------
(***************************************************************************)
(* What the two databases rest on: induction over offsets and the walk     *)
(* through a file, what pread_exact and pwrite_exact of db_utils.c do to   *)
(* its bytes, and what the operators of user_db.c compute for every list   *)
(* of accounts.                                                            *)
(***************************************************************************)
EXTENDS UserDB, DbFile, WellFoundedInduction, FiniteSetTheorems, SequenceTheorems, TLAPS

-----------------------------------------------------------------------------
(***************************************************************************)
(* Induction.                                                              *)
(***************************************************************************)

\* A set of numbers with an element has a least one.
LEMMA LeastElement ==
    ASSUME NEW found \in SUBSET Nat, found # {}
    PROVE  \E x \in found : \A y \in found : x <= y
<1> DEFINE Less == { ss \in Nat \X Nat : ss[1] < ss[2] }
<1>1. IsWellFoundedOn(Less, Nat)
  BY NatLessThanWellFounded DEF OpToRel
<1> HIDE DEF Less
<1>2. PICK x \in found : \A y \in found : ~(<<y, x>> \in Less)
  BY <1>1, WFMin
<1>3. ASSUME NEW y \in found PROVE x <= y
  <2>1. x \in Nat /\ y \in Nat /\ ~(<<y, x>> \in Less)
    BY <1>2
  <2>2. ~(y < x)
    BY <2>1 DEF Less
  <2> QED
    BY <2>1, <2>2
<1> QED
  BY <1>3

\* Induction over the numbers, for a set of them.
LEMMA Upward ==
    ASSUME NEW Good, 0 \in Good, \A n \in Nat : n \in Good => n + 1 \in Good
    PROVE  \A n \in Nat : n \in Good
<1> DEFINE Bad == Nat \ Good
<1> SUFFICES ASSUME Bad # {} PROVE FALSE
  OBVIOUS
<1>1. PICK n \in Bad : \A m \in Bad : n <= m
  BY LeastElement
<1>2. n \in Nat /\ n # 0
  BY <1>1
<1>3. n - 1 \in Nat /\ n - 1 \notin Bad
  BY <1>1, <1>2
<1> QED
  BY <1>1, <1>2, <1>3

\* And downward, from the end of a file.
LEMMA Downward ==
    ASSUME NEW N \in Nat, NEW Good,
           \A o \in Nat : o >= N => o \in Good,
           \A o \in Nat : (\A p \in Nat : p > o => p \in Good) => o \in Good
    PROVE  \A o \in Nat : o \in Good
<1> DEFINE From == { m \in Nat : \A o \in Nat : o >= m => o \in Good }
<1>1. N \in From
  OBVIOUS
<1>2. PICK m \in From : \A n \in From : m <= n
  BY <1>1, LeastElement
<1>3. CASE m = 0
  BY <1>2, <1>3
<1>4. CASE m # 0
  <2>1. m - 1 \in Nat /\ \A p \in Nat : p > m - 1 => p \in Good
    BY <1>2, <1>4
  <2>2. m - 1 \in Good
    BY <2>1
  <2>3. m - 1 \in From
    BY <2>1, <2>2
  <2> QED
    BY <1>2, <2>1, <2>3
<1> QED
  BY <1>3, <1>4

\* A walk that ends at the first offset from N on computes g: it goes on from each
\* offset o before to a greater one, next[o], and step[o] is what it makes of the
\* result from there; base[o] is its result at the end.
Onward(next) == \A o \in Nat : next[o] > o

Computes(g, base, N, next, step) ==
    \A o \in Nat : g[o] = IF o >= N THEN base[o] ELSE step[o][g[next[o]]]

LEMMA WalkComputes ==
    ASSUME NEW V, NEW base \in [Nat -> V], NEW N \in Nat,
           NEW next \in [Nat -> Nat], Onward(next), NEW step \in [Nat -> [V -> V]]
    PROVE  \E g \in [Nat -> V] : Computes(g, base, N, next, step)
<1> USE DEF Onward, Computes
<1> DEFINE Val(g, o) == IF o >= N THEN base[o] ELSE step[o][g[next[o]]]
           Above(g, m) == \A o \in Nat : o >= m => g[o] = Val(g, o)
           From == { m \in Nat : \E g \in [Nat -> V] : Above(g, m) }
<1>1. N \in From
  <2>1. base \in [Nat -> V] /\ Above(base, N)
    OBVIOUS
  <2> QED
    BY <2>1
<1>2. PICK m \in From : \A n \in From : m <= n
  BY <1>1, LeastElement
<1>3. m \in Nat /\ \E g \in [Nat -> V] : Above(g, m)
  BY <1>2
<1>4. CASE m = 0
  BY <1>3, <1>4
<1>5. CASE m # 0
  <2>1. PICK g \in [Nat -> V] : Above(g, m)
    BY <1>3
  <2> DEFINE k == m - 1
             h == [g EXCEPT ![k] = Val(g, k)]
  <2>2. k \in Nat /\ k < m /\ m = k + 1
    BY <1>3, <1>5
  <2>3. Val(g, k) \in V
    <3>1. next[k] \in Nat /\ step[k] \in [V -> V]
      BY <2>2
    <3>2. g[next[k]] \in V
      BY <3>1
    <3> QED
      BY <3>1, <3>2
  <2>4. h \in [Nat -> V] /\ h[k] = Val(g, k) /\ \A o \in Nat : o # k => h[o] = g[o]
    BY <2>2, <2>3
  <2> HIDE DEF h
  <2>5. ASSUME NEW o \in Nat, o >= k PROVE h[o] = Val(h, o)
    <3>1. next[o] \in Nat /\ next[o] # k
      BY <2>2, <2>5
    <3>2. Val(h, o) = Val(g, o)
      BY <2>4, <3>1
    <3>3. o = k \/ o >= m
      BY <1>3, <2>2, <2>5
    <3> QED
      BY <2>1, <2>4, <3>2, <3>3
  <2>6. k \in From
    BY <2>2, <2>4, <2>5
  <2> HIDE DEF From
  <2>7. m <= k
    BY <1>2, <2>6
  <2> QED
    BY <1>3, <2>2, <2>7
<1> QED
  BY <1>4, <1>5

\* What the least element of the community modules is.
LEMMA MinFinds ==
    ASSUME NEW found \in SUBSET Nat, found # {}
    PROVE  Min(found) \in found /\ \A i \in found : (\A j \in found : i <= j) => Min(found) = i
<1>1. PICK x \in found : \A y \in found : x <= y
  BY LeastElement
<1>2. Min(found) \in found /\ \A y \in found : Min(found) <= y
  BY <1>1 DEF Min
<1>3. ASSUME NEW i \in found, \A j \in found : i <= j PROVE Min(found) = i
  <2>1. Min(found) \in Nat /\ i \in Nat /\ Min(found) <= i /\ i <= Min(found)
    BY <1>2, <1>3
  <2> QED
    BY <2>1
<1> QED
  BY <1>2, <1>3

-----------------------------------------------------------------------------
(***************************************************************************)
(* What pread_exact and pwrite_exact do to the bytes.                      *)
(***************************************************************************)

LEMMA ByteIsNat == \A b \in Byte : b \in Nat
  BY DEF Byte

\* The larger of two.
LEMMA MaxOfTwo == \A a, b \in Nat : Max({a, b}) = IF a < b THEN b ELSE a
  BY DEF Max

\* A read inside the file is whole.
LEMMA PreadInside ==
    ASSUME NEW f \in Seq(Byte), NEW count \in Nat, NEW offset \in Nat,
           offset + count <= Len(f)
    PROVE  /\ Pread(f, count, offset) \in Seq(Byte)
           /\ Len(Pread(f, count, offset)) = count
           /\ \A i \in 1 .. count : Pread(f, count, offset)[i] = f[offset + i]
<1>1. Pread(f, count, offset) = SubSeq(f, offset + 1, offset + count)
  BY DEF Pread, Min
<1>2. \A i \in offset + 1 .. offset + count : f[i] \in Byte
  <2>1. \A i \in offset + 1 .. offset + count : i \in 1 .. Len(f)
    OBVIOUS
  <2> QED
    BY <2>1
<1> DEFINE part == SubSeq(f, offset + 1, offset + count)
<1>3. /\ part \in Seq(Byte)
      /\ Len(part) = IF offset + 1 <= offset + count THEN offset + count - (offset + 1) + 1 ELSE 0
      /\ \A i \in 1 .. offset + count - (offset + 1) + 1 : part[i] = f[offset + 1 + i - 1]
  BY <1>2, SubSeqProperties
<1> HIDE DEF part
<1>4. Len(part) = count
  BY <1>3
<1>5. ASSUME NEW i \in 1 .. count PROVE part[i] = f[offset + i]
  <2>1. i \in 1 .. offset + count - (offset + 1) + 1 /\ offset + 1 + i - 1 = offset + i
    OBVIOUS
  <2> QED
    BY <1>3, <2>1
<1> QED
  BY <1>1, <1>3, <1>4, <1>5 DEF part

\* The bytes are where they were written, the others are what they were, and a gap
\* beyond the end of the file has been filled.
LEMMA PwriteIs ==
    ASSUME NEW f \in Seq(Byte), NEW bytes \in Seq(Byte), NEW offset \in Nat
    PROVE  LET g == Pwrite(f, bytes, offset)
           IN  /\ g \in Seq(Byte)
               /\ Len(g) = IF Len(f) < offset + Len(bytes) THEN offset + Len(bytes) ELSE Len(f)
               /\ \A i \in 1 .. Len(bytes) : g[offset + i] = bytes[i]
               /\ \A i \in 1 .. Len(f) :
                      i \notin offset + 1 .. offset + Len(bytes) => g[i] = f[i]
<1> DEFINE g == Pwrite(f, bytes, offset)
           l == Len(f)
           n == Len(bytes)
           m == IF l < offset + n THEN offset + n ELSE l
           val(i) == IF i \in offset + 1 .. offset + n THEN bytes[i - offset]
                     ELSE IF i <= l THEN f[i] ELSE 0
<1>1. l \in Nat /\ n \in Nat /\ m \in Nat
  OBVIOUS
<1>2. Max({l, offset + n}) = m
  BY <1>1, MaxOfTwo
<1>3. g = [i \in 1 .. m |-> val(i)]
  BY <1>2 DEF Pwrite
<1>4. \A i \in 1 .. m : val(i) \in Byte
  <2> SUFFICES ASSUME NEW i \in 1 .. m PROVE val(i) \in Byte
    OBVIOUS
  <2>1. CASE i \in offset + 1 .. offset + n
    <3>1. i - offset \in 1 .. n
      BY <1>1, <2>1
    <3> QED
      BY <2>1, <3>1
  <2>2. CASE i \notin offset + 1 .. offset + n
    <3>1. i \in 1 .. l => f[i] \in Byte
      OBVIOUS
    <3>2. i <= l => i \in 1 .. l
      BY <1>1
    <3>3. 0 \in Byte
      BY DEF Byte
    <3> QED
      BY <2>2, <3>1, <3>2, <3>3
  <2> QED
    BY <2>1, <2>2
<1> HIDE DEF g
<1>5. g \in Seq(Byte) /\ Len(g) = m
  BY <1>1, <1>3, <1>4
<1>6. ASSUME NEW i \in 1 .. n PROVE g[offset + i] = bytes[i]
  <2>1. /\ offset + i \in 1 .. m /\ offset + i \in offset + 1 .. offset + n
        /\ offset + i - offset = i
    BY <1>1
  <2> QED
    BY <1>3, <2>1
<1>7. ASSUME NEW i \in 1 .. l, i \notin offset + 1 .. offset + n PROVE g[i] = f[i]
  <2>1. i \in 1 .. m /\ i <= l
    BY <1>1
  <2> QED
    BY <1>3, <1>7, <2>1
<1> QED
  BY <1>5, <1>6, <1>7 DEF g

-----------------------------------------------------------------------------
(***************************************************************************)
(* The list of accounts.                                                   *)
(***************************************************************************)

\* The accounts with usernames, digests and levels of some sets.
AccountOf(U, P, L) == [username : U, password : P, level : L]

\* What First is, whatever else of the community modules is in scope.
LEMMA FirstOf ==
    \A found : First(found) = IF found = {} THEN NotFound
                              ELSE CHOOSE x \in found : \A y \in found : x <= y
  BY DEF First, Min

\* A scan stops at the first of the records that it looks for, if there is one.
LEMMA FirstFinds ==
    ASSUME NEW found \in SUBSET Nat
    PROVE  /\ found = {} => First(found) = NotFound
           /\ found # {} => First(found) \in found /\ \A y \in found : First(found) <= y
<1>1. ASSUME found # {} PROVE Min(found) \in found /\ \A y \in found : Min(found) <= y
  BY <1>1, LeastElement DEF Min
<1> QED
  BY <1>1 DEF First

\* A record that is wanted, with none before it, is where the scan stops.
LEMMA FirstIs ==
    ASSUME NEW found \in SUBSET Nat, NEW i \in found, \A j \in found : i <= j
    PROVE  First(found) = i
<1>1. First(found) \in found /\ First(found) <= i
  BY FirstFinds
<1>2. First(found) \in Nat /\ i \in Nat /\ i <= First(found)
  BY <1>1
<1> QED
  BY <1>1, <1>2

\* The records that a scan looks for are records of the file.
LEMMA FoundInFile ==
    ASSUME NEW S, NEW us \in Seq(S), NEW u, NEW p
    PROVE  /\ WithName(us, u) \subseteq 1 .. Len(us)
           /\ WithCredentials(us, u, p) \subseteq WithName(us, u)
           /\ IsFiniteSet(WithName(us, u))
           /\ IsFiniteSet(WithCredentials(us, u, p))
<1>1. WithName(us, u) \in SUBSET (1 .. Len(us))
  BY DEF WithName
<1>2. WithCredentials(us, u, p) \in SUBSET WithName(us, u)
  BY DEF WithCredentials
<1>3. IsFiniteSet(1 .. Len(us))
  BY FS_Interval
<1>4. IsFiniteSet(WithName(us, u))
  BY <1>1, <1>3, FS_Subset
<1> QED
  BY <1>1, <1>2, <1>4, FS_Subset

\* A login finds nothing, or a record with the credentials it was given.
LEMMA LoginFinds ==
    ASSUME NEW S, NEW us \in Seq(S), NEW u, NEW p
    PROVE  LET i == check_credentials(us, u, p)
           IN  /\ i = NotFound <=> WithCredentials(us, u, p) = {}
               /\ \/ i = NotFound
                  \/ i \in DOMAIN us /\ us[i].username = u /\ us[i].password = p
<1> DEFINE found == WithCredentials(us, u, p)
<1>1. found \in SUBSET Nat /\ 0 \notin found
  BY FoundInFile
<1>2. found # {} => First(found) \in found
  BY <1>1, FirstFinds
<1>3. found = {} => First(found) = NotFound
  BY <1>1, FirstFinds
<1>4. \A i \in found : i \in DOMAIN us /\ us[i].username = u /\ us[i].password = p
  BY DEF WithCredentials, WithName
<1> HIDE DEF found
<1>5. found = {} <=> First(found) = NotFound
  BY <1>1, <1>2, <1>3 DEF NotFound
<1> QED
  BY <1>2, <1>4, <1>5 DEF check_credentials, found

-----------------------------------------------------------------------------
(***************************************************************************)
(* A registration: _unlocked_add_user.                                     *)
(***************************************************************************)

\* The new record is one more of those with its credentials.
LEMMA AddFinds ==
    ASSUME NEW S, NEW us \in Seq(S), NEW v, NEW q, NEW level, NEW u, NEW p,
           [username |-> v, password |-> q, level |-> level] \in S
    PROVE  WithCredentials(add_user(us, v, q, level), u, p)
             = WithCredentials(us, u, p)
                 \cup (IF v = u /\ q = p THEN {Len(us) + 1} ELSE {})
<1> DEFINE r  == [username |-> v, password |-> q, level |-> level]
           vs == Append(us, r)
<1>1. r \in S /\ r.username = v /\ r.password = q
  OBVIOUS
<1> HIDE DEF r
<1>2. /\ DOMAIN vs = 1 .. Len(us) + 1
      /\ vs[Len(us) + 1] = r
      /\ \A i \in 1 .. Len(us) : vs[i] = us[i]
  BY <1>1
<1>3. DOMAIN us = 1 .. Len(us) /\ Len(us) \in Nat
  OBVIOUS
<1> HIDE DEF vs
<1>4. WithName(vs, u) = WithName(us, u) \cup (IF v = u THEN {Len(us) + 1} ELSE {})
  BY <1>1, <1>2, <1>3 DEF WithName
<1>5. \A i \in WithName(us, u) : i \in 1 .. Len(us)
  BY <1>3 DEF WithName
<1>6. Len(us) + 1 \notin WithName(us, u)
  BY <1>3, <1>5
<1>7. WithCredentials(vs, u, p) =
        WithCredentials(us, u, p) \cup (IF v = u /\ q = p THEN {Len(us) + 1} ELSE {})
  BY <1>1, <1>2, <1>4, <1>5, <1>6 DEF WithCredentials
<1> QED
  BY <1>7 DEF vs, r, add_user

\* A login that finds an account finds the same one after a registration.
LEMMA AddKeeps ==
    ASSUME NEW S, NEW us \in Seq(S), NEW v, NEW q, NEW level, NEW u, NEW p,
           [username |-> v, password |-> q, level |-> level] \in S,
           WithCredentials(us, u, p) # {}
    PROVE  LET i == check_credentials(us, u, p)
           IN  /\ check_credentials(add_user(us, v, q, level), u, p) = i
               /\ add_user(us, v, q, level)[i] = us[i]
<1> DEFINE found == WithCredentials(us, u, p)
           more  == WithCredentials(add_user(us, v, q, level), u, p)
           i     == First(found)
<1>1. found \in SUBSET Nat /\ found \subseteq 1 .. Len(us) /\ Len(us) \in Nat
  BY FoundInFile
<1>2. i \in found /\ \A j \in found : i <= j
  BY <1>1, FirstFinds
<1>3. more = found \/ more = found \cup {Len(us) + 1}
  <2>1. more = found \cup (IF v = u /\ q = p THEN {Len(us) + 1} ELSE {})
    BY AddFinds
  <2> QED
    BY <2>1
<1>4. more \in SUBSET Nat /\ i \in more /\ \A j \in more : i <= j
  <2>1. i \in 1 .. Len(us)
    BY <1>1, <1>2
  <2> QED
    BY <1>1, <1>2, <1>3, <2>1
<1>5. First(more) = i
  BY <1>4, FirstIs
<1>6. add_user(us, v, q, level)[i] = us[i]
  <2>1. i \in 1 .. Len(us)
    BY <1>1, <1>2
  <2> HIDE DEF i
  <2> QED
    BY <2>1 DEF add_user
<1> QED
  BY <1>5, <1>6 DEF check_credentials

-----------------------------------------------------------------------------
(***************************************************************************)
(* A change of level: _unlocked_change_permissions.                        *)
(***************************************************************************)

\* Only the level of the first record with that username is another one.
LEMMA ChangeSets ==
    ASSUME NEW U, NEW P, NEW L, NEW us \in Seq(AccountOf(U, P, L)), NEW v, NEW level \in L
    PROVE  LET vs == change_permissions(us, v, level)
           IN  /\ vs \in Seq(AccountOf(U, P, L)) /\ Len(vs) = Len(us)
               /\ \A i \in DOMAIN us :
                     /\ vs[i].username = us[i].username
                     /\ vs[i].password = us[i].password
                     /\ us[i].username # v => vs[i] = us[i]
<1> DEFINE found == WithName(us, v)
           i     == First(found)
<1>1. found \in SUBSET Nat /\ found \subseteq 1 .. Len(us)
  BY FoundInFile
<1>2. \A j \in found : us[j].username = v
  BY DEF WithName
<1>3. found # {} => i \in found
  BY <1>1, FirstFinds
<1>4. found = {} => i = NotFound
  BY <1>1, FirstFinds
<1>5. CASE i = NotFound
  BY <1>5 DEF change_permissions
<1>6. CASE i # NotFound
  <2> DEFINE r == [us[i] EXCEPT !.level = level]
  <2>1. i \in 1 .. Len(us) /\ us[i].username = v
    BY <1>1, <1>2, <1>3, <1>4, <1>6
  <2> HIDE DEF i
  <2>2. us[i] \in AccountOf(U, P, L)
    BY <2>1
  <2>3. /\ r \in AccountOf(U, P, L)
        /\ r.username = us[i].username /\ r.password = us[i].password
    BY <2>2 DEF AccountOf
  <2>4. change_permissions(us, v, level) = [us EXCEPT ![i] = r]
    BY <1>6 DEF change_permissions, i
  <2> HIDE DEF r
  <2>5. /\ [us EXCEPT ![i] = r] \in Seq(AccountOf(U, P, L))
        /\ Len([us EXCEPT ![i] = r]) = Len(us)
        /\ \A j \in 1 .. Len(us) : [us EXCEPT ![i] = r][j] = IF j = i THEN r ELSE us[j]
    BY <2>1, <2>3
  <2> QED
    BY <2>1, <2>3, <2>4, <2>5
<1> QED
  BY <1>5, <1>6

\* So a login finds the same record as before.
LEMMA ChangeKeeps ==
    ASSUME NEW U, NEW P, NEW L, NEW us \in Seq(AccountOf(U, P, L)), NEW v, NEW level \in L,
           NEW u, NEW p
    PROVE  WithCredentials(change_permissions(us, v, level), u, p)
             = WithCredentials(us, u, p)
<1> DEFINE vs == change_permissions(us, v, level)
<1>1. /\ vs \in Seq(AccountOf(U, P, L)) /\ Len(vs) = Len(us)
      /\ \A i \in DOMAIN us : /\ vs[i].username = us[i].username
                              /\ vs[i].password = us[i].password
  BY ChangeSets
<1>2. DOMAIN vs = DOMAIN us
  BY <1>1
<1> HIDE DEF vs
<1>3. WithName(vs, u) = WithName(us, u)
  BY <1>1, <1>2 DEF WithName
<1>4. WithCredentials(vs, u, p) = WithCredentials(us, u, p)
  BY <1>1, <1>3 DEF WithCredentials, WithName
<1> QED
  BY <1>4 DEF vs
=============================================================================
