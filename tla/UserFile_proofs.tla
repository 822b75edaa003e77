---------------------------- MODULE UserFile_proofs ----------------------------
(***************************************************************************)
(* The accounts that have been answered OK lie in the user file one behind *)
(* the other, from its first byte on.  Whatever follows them, the walk of  *)
(* the scans meets them first, and finds the account that the list of      *)
(* UserDB says; and when nothing follows them, the file is that list.      *)
(***************************************************************************)
EXTENDS UserFile, Database_proofs

-----------------------------------------------------------------------------
(***************************************************************************)
(* The walk.                                                               *)
(***************************************************************************)

\* The offsets at which a scan reads a username_length, from one of them on.
From(f) ==
    LET from[o \in Nat] == IF o >= Len(f) THEN {} ELSE {o} \cup from[After(f, o)]
    IN  from

LEMMA StartsFrom == \A f : Starts(f) = From(f)[0]
  BY DEF Starts, From

LEMMA AfterGrows ==
    ASSUME NEW f \in Seq(Byte), NEW o \in Nat, o < Len(f)
    PROVE  After(f, o) \in Nat /\ After(f, o) > o
<1>1. o + 1 \in 1 .. Len(f)
  OBVIOUS
<1>2. f[o + 1] \in Byte
  BY <1>1
<1>3. f[o + 1] \in Nat
  BY <1>2, ByteIsNat
<1> QED
  BY <1>3 DEF After, UsernameLength, PASSWORD_LEN

LEMMA FromIs ==
    ASSUME NEW f \in Seq(Byte)
    PROVE  \A o \in Nat :
               From(f)[o] = IF o >= Len(f) THEN {} ELSE {o} \cup From(f)[After(f, o)]
<1> DEFINE N == Len(f)
           V == SUBSET Nat
           base == [o \in Nat |-> {}]
           next == [o \in Nat |-> IF o < N THEN After(f, o) ELSE o + 1]
           step == [o \in Nat |-> [v \in V |-> {o} \cup v]]
<1>1. N \in Nat
  OBVIOUS
<1>2. \A o \in Nat : next[o] \in Nat /\ next[o] > o
  BY <1>1, AfterGrows
<1>3. next \in [Nat -> Nat] /\ Onward(next)
  BY <1>2 DEF Onward
<1>4. step \in [Nat -> [V -> V]] /\ base \in [Nat -> V]
  OBVIOUS
<1>5. PICK g \in [Nat -> V] : Computes(g, base, N, next, step)
  <2> HIDE DEF N, V, next, step, base
  <2> QED
    BY <1>1, <1>3, <1>4, WalkComputes
<1>6. \A o \in Nat : g[o] = IF o >= N THEN {} ELSE {o} \cup g[After(f, o)]
  <2> SUFFICES ASSUME NEW o \in Nat, ~(o >= N) PROVE g[o] = {o} \cup g[After(f, o)]
    BY <1>5 DEF Computes
  <2>1. o < N
    BY <1>1
  <2>2. next[o] = After(f, o) /\ g[next[o]] \in V
    BY <1>2, <2>1
  <2>3. step[o][g[next[o]]] = {o} \cup g[next[o]]
    BY <2>2
  <2> QED
    BY <1>5, <2>2, <2>3 DEF Computes
<1>7. \E h : h = [o \in Nat |-> IF o >= Len(f) THEN {} ELSE {o} \cup h[After(f, o)]]
  <2>1. g = [o \in Nat |-> IF o >= N THEN {} ELSE {o} \cup g[After(f, o)]]
    BY <1>6
  <2> QED
    BY <2>1
<1>8. From(f) = [o \in Nat |-> IF o >= Len(f) THEN {} ELSE {o} \cup From(f)[After(f, o)]]
  BY <1>7 DEF From
<1> QED
  BY <1>8

\* A walk meets no offset before the one it begins at, and none after the end.
LEMMA FromOn ==
    ASSUME NEW f \in Seq(Byte)
    PROVE  \A o \in Nat : \A p \in From(f)[o] : p \in Nat /\ p >= o /\ p < Len(f)
<1> DEFINE Good == { o \in Nat : \A p \in From(f)[o] : p \in Nat /\ p >= o /\ p < Len(f) }
<1>1. Len(f) \in Nat
  OBVIOUS
<1>2. \A o \in Nat : o >= Len(f) => o \in Good
  BY FromIs
<1>3. ASSUME NEW o \in Nat, \A p \in Nat : p > o => p \in Good
      PROVE  o \in Good
  <2>1. CASE o >= Len(f)
    BY <1>2, <2>1
  <2>2. CASE o < Len(f)
    <3>1. After(f, o) \in Nat /\ After(f, o) > o
      BY <2>2, AfterGrows
    <3>2. After(f, o) \in Good
      BY <1>3, <3>1
    <3>3. From(f)[o] = {o} \cup From(f)[After(f, o)]
      <4>1. ~(o >= Len(f))
        BY <1>1, <2>2
      <4> QED
        BY <4>1, FromIs
    <3> QED
      BY <1>1, <2>2, <3>1, <3>2, <3>3
  <2> QED
    BY <1>1, <2>1, <2>2
<1>4. \A o \in Nat : o \in Good
  <2> HIDE DEF Good
  <2> QED
    BY <1>1, <1>2, <1>3, Downward
<1> QED
  BY <1>4

-----------------------------------------------------------------------------
(***************************************************************************)
(* The accounts at the beginning of the file.                              *)
(***************************************************************************)

Digest == { c[2] : c \in Credentials }
Stored == AccountOf(Username, Digest, Byte)

\* What a record takes.
SizeOf(r) == 2 + PASSWORD_LEN + Len(r.username)

\* The record of an account lies at an offset of the file.
LiesAt(f, o, r) ==
    /\ o + SizeOf(r) <= Len(f)
    /\ f[o + 1] = Len(r.username) /\ f[o + 2] = r.level
    /\ \A k \in 1 .. PASSWORD_LEN : f[o + 2 + k] = r.password[k]
    /\ \A k \in 1 .. Len(r.username) : f[o + 2 + PASSWORD_LEN + k] = r.username[k]

\* The records of some accounts lie one behind the other, the i-th at at[i].
LaidOut(us, f, at) ==
    /\ at \in [1 .. Len(us) + 1 -> Nat]
    /\ at[1] = 0
    /\ \A i \in 1 .. Len(us) : at[i + 1] = at[i] + SizeOf(us[i]) /\ LiesAt(f, at[i], us[i])
    /\ at[Len(us) + 1] <= Len(f)

LEMMA StoredParts ==
    ASSUME NEW r \in Stored
    PROVE  /\ r.username \in Seq(Byte) /\ Len(r.username) \in Byte /\ Len(r.username) \in 4 .. 32
           /\ r.password \in Seq(Byte) /\ Len(r.password) = PASSWORD_LEN
           /\ r.level \in Byte /\ SizeOf(r) \in Nat /\ SizeOf(r) > 34
<1>1. r.username \in Username /\ r.password \in Digest /\ r.level \in Byte
  BY DEF Stored, AccountOf
<1>2. PICK c \in Credentials : r.username = c[1]
  BY <1>1 DEF Username
<1>3. PICK d \in Credentials : r.password = d[2]
  BY <1>1 DEF Digest
<1>4. /\ r.username \in Seq(32 .. 126) /\ Len(r.username) \in 4 .. 32
      /\ r.password \in Seq(Byte) /\ Len(r.password) = PASSWORD_LEN
  BY <1>2, <1>3, UserFileAssumption
<1>5. r.username \in Seq(Byte)
  <2>1. 32 .. 126 \subseteq Byte
    BY DEF Byte
  <2> QED
    BY <1>4, <2>1, SeqMonotonic
<1>6. Len(r.username) \in Byte /\ SizeOf(r) \in Nat /\ SizeOf(r) > 34
  <2>1. \A l \in 4 .. 32 : l \in Byte /\ 2 + 32 + l \in Nat /\ 2 + 32 + l > 34
    BY DEF Byte
  <2>2. SizeOf(r) = 2 + 32 + Len(r.username)
    BY DEF SizeOf, PASSWORD_LEN
  <2> QED
    BY <1>4, <2>1, <2>2
<1> QED
  BY <1>1, <1>4, <1>5, <1>6

\* A scan reads the account out of its record.
LEMMA ReadsAccount ==
    ASSUME NEW f \in Seq(Byte), NEW o \in Nat, NEW r \in Stored, LiesAt(f, o, r)
    PROVE  /\ o < Len(f) /\ IsWhole(f, o) /\ ~Short(f, o) /\ After(f, o) = o + SizeOf(r)
           /\ UsernameLength(f, o) = Len(r.username)
           /\ UsernameAt(f, o) = r.username /\ PasswordAt(f, o) = r.password
           /\ LevelAt(f, o) = r.level
<1> DEFINE l == Len(r.username)
           d == o + 2 + PASSWORD_LEN
<1>1. /\ r.username \in Seq(Byte) /\ l \in Nat
      /\ r.password \in Seq(Byte) /\ Len(r.password) = PASSWORD_LEN /\ PASSWORD_LEN = 32
  BY StoredParts DEF PASSWORD_LEN
<1>2. SizeOf(r) = 2 + PASSWORD_LEN + l /\ o + SizeOf(r) <= Len(f) /\ Len(f) \in Nat
  BY DEF LiesAt, SizeOf
<1>3. UsernameLength(f, o) = l /\ LevelAt(f, o) = r.level
  BY DEF UsernameLength, LevelAt, LiesAt
<1>4. After(f, o) = o + SizeOf(r) /\ d \in Nat /\ d + l <= Len(f) /\ o + 2 + PASSWORD_LEN <= Len(f)
  <2>1. After(f, o) = o + 2 + PASSWORD_LEN + l
    BY <1>3 DEF After
  <2> HIDE DEF l
  <2> QED
    BY <1>1, <1>2, <2>1
<1>5. IsWhole(f, o) /\ ~Short(f, o) /\ o < Len(f)
  BY <1>1, <1>2, <1>4 DEF IsWhole, Short
<1>6. UsernameAt(f, o) = r.username
  <2> DEFINE s == Pread(f, l, d)
  <2>1. s \in Seq(Byte) /\ Len(s) = l /\ \A i \in 1 .. l : s[i] = f[d + i]
    BY <1>1, <1>4, PreadInside, ZenonT(60)
  <2>2. \A i \in 1 .. l : f[d + i] = r.username[i]
    BY DEF LiesAt
  <2>3. s = r.username
    <3> HIDE DEF s
    <3> QED
      BY <1>1, <2>1, <2>2, SeqEqual
  <2> QED
    BY <1>3, <2>3 DEF UsernameAt
<1>7. PasswordAt(f, o) = r.password
  <2> DEFINE e == o + 2
             s == Pread(f, PASSWORD_LEN, e)
  <2>1. e \in Nat /\ PASSWORD_LEN \in Nat /\ e + PASSWORD_LEN <= Len(f)
    BY <1>1, <1>4
  <2> HIDE DEF e
  <2>2. /\ s \in Seq(Byte) /\ Len(s) = PASSWORD_LEN
        /\ \A i \in 1 .. PASSWORD_LEN : s[i] = f[e + i]
    BY <2>1, PreadInside
  <2>3. \A i \in 1 .. PASSWORD_LEN : f[e + i] = r.password[i]
    BY DEF LiesAt, e
  <2> HIDE DEF s
  <2>4. \A i \in 1 .. PASSWORD_LEN : s[i] = r.password[i]
    BY <2>2, <2>3
  <2>5. s = r.password
    <3>1. /\ r.password \in Seq(Byte) /\ Len(s) = Len(r.password)
          /\ \A i \in 1 .. Len(s) : s[i] = r.password[i]
      BY <1>1, <2>2, <2>4
    <3> QED
      BY <2>2, <3>1, SeqEqual
  <2> QED
    BY <2>5 DEF PasswordAt, e, s
<1> QED
  BY <1>3, <1>4, <1>5, <1>6, <1>7

\* The offsets grow with the numbers of the records.
LEMMA OffsetsGrow ==
    ASSUME NEW us \in Seq(Stored), NEW f, NEW at, LaidOut(us, f, at)
    PROVE  \A i, j \in 1 .. Len(us) + 1 : i < j => at[i] < at[j]
<1> DEFINE n == Len(us)
           Good == { k \in Nat : \A i, j \in 1 .. n + 1 : j <= k /\ i < j => at[i] < at[j] }
<1>1. n \in Nat
  OBVIOUS
<1>2. \A i \in 1 .. n : /\ at[i] \in Nat /\ at[i + 1] \in Nat /\ at[i] < at[i + 1]
  <2> SUFFICES ASSUME NEW i \in 1 .. n
               PROVE  at[i] \in Nat /\ at[i + 1] \in Nat /\ at[i] < at[i + 1]
    OBVIOUS
  <2>1. us[i] \in Stored
    OBVIOUS
  <2>2. SizeOf(us[i]) \in Nat /\ SizeOf(us[i]) > 34
    BY <2>1, StoredParts
  <2>3. i \in 1 .. n + 1 /\ i + 1 \in 1 .. n + 1
    BY <1>1
  <2>4. at[i] \in Nat /\ at[i + 1] \in Nat /\ at[i + 1] = at[i] + SizeOf(us[i])
    BY <2>3 DEF LaidOut
  <2> QED
    BY <2>2, <2>4
<1>3. 0 \in Good
  BY <1>1
<1>4. ASSUME NEW k \in Nat, k \in Good PROVE k + 1 \in Good
  <2> SUFFICES ASSUME NEW i \in 1 .. n + 1, NEW j \in 1 .. n + 1, j <= k + 1, i < j
               PROVE  at[i] < at[j]
    OBVIOUS
  <2>1. CASE j <= k
    BY <1>4, <2>1
  <2>2. CASE j = k + 1
    <3>1. k \in 1 .. n /\ i <= k
      BY <1>1, <2>2
    <3>2. at[k] < at[j] /\ at[k] \in Nat /\ at[j] \in Nat
      BY <1>2, <2>2, <3>1
    <3>3. i = k \/ (i < k /\ at[i] < at[k])
      BY <1>1, <1>4, <3>1
    <3>4. at[i] \in Nat
      BY DEF LaidOut
    <3> QED
      BY <3>2, <3>3, <3>4
  <2> QED
    BY <1>1, <2>1, <2>2
<1>5. \A k \in Nat : k \in Good
  <2> HIDE DEF Good
  <2> QED
    BY <1>3, <1>4, Upward
<1>6. n + 1 \in Good
  BY <1>1, <1>5
<1> QED
  BY <1>1, <1>6

\* So the walk meets these records first, and then what is behind them.
LEMMA WalkLaidOut ==
    ASSUME NEW f \in Seq(Byte), NEW us \in Seq(Stored), NEW at, LaidOut(us, f, at)
    PROVE  Starts(f) = { at[i] : i \in 1 .. Len(us) } \cup From(f)[at[Len(us) + 1]]
<1> DEFINE n == Len(us)
           Good == { k \in Nat : k <= n => From(f)[0] = { at[i] : i \in 1 .. k } \cup From(f)[at[k + 1]] }
<1>1. n \in Nat
  OBVIOUS
<1>2. 0 \in Good
  <2>1. at[1] = 0 /\ { at[i] : i \in 1 .. 0 } = {}
    BY DEF LaidOut
  <2> QED
    BY <2>1
<1>3. ASSUME NEW k \in Nat, k \in Good PROVE k + 1 \in Good
  <2> SUFFICES ASSUME k + 1 <= n
               PROVE  From(f)[0] = { at[i] : i \in 1 .. k + 1 } \cup From(f)[at[k + 1 + 1]]
    OBVIOUS
  <2>1. From(f)[0] = { at[i] : i \in 1 .. k } \cup From(f)[at[k + 1]]
    BY <1>1, <1>3
  <2>2. k + 1 \in 1 .. n /\ k + 1 \in 1 .. n + 1
    BY <1>1
  <2>3. us[k + 1] \in Stored
    BY <2>2
  <2>4. at[k + 1] \in Nat /\ LiesAt(f, at[k + 1], us[k + 1]) /\ at[k + 1 + 1] = at[k + 1] + SizeOf(us[k + 1])
    BY <2>2 DEF LaidOut
  <2>5. at[k + 1] < Len(f) /\ After(f, at[k + 1]) = at[k + 1 + 1]
    BY <2>3, <2>4, ReadsAccount
  <2>6. ASSUME NEW o \in Nat, o < Len(f) PROVE From(f)[o] = {o} \cup From(f)[After(f, o)]
    <3>1. ~(o >= Len(f))
      BY <2>6
    <3> QED
      BY <3>1, FromIs
  <2>7. From(f)[at[k + 1]] = {at[k + 1]} \cup From(f)[at[k + 1 + 1]]
    BY <2>4, <2>5, <2>6
  <2>8. { at[i] : i \in 1 .. k + 1 } = { at[i] : i \in 1 .. k } \cup {at[k + 1]}
    <3>1. 1 .. k + 1 = (1 .. k) \cup {k + 1}
      OBVIOUS
    <3> QED
      BY <3>1
  <2> QED
    BY <2>1, <2>7, <2>8
<1>4. \A k \in Nat : k \in Good
  <2> HIDE DEF Good
  <2> QED
    BY <1>2, <1>3, Upward
<1>5. n \in Good
  BY <1>1, <1>4
<1> QED
  BY <1>1, <1>5, StartsFrom

-----------------------------------------------------------------------------
(***************************************************************************)
(* What a scan finds.                                                      *)
(***************************************************************************)

\* The accounts with a username and one of the passwords.
Known(us, u, passwords) ==
    { k \in 1 .. Len(us) : us[k].username = u /\ us[k].password \in passwords }

\* A scan ends at the record of an account that it looks for, or behind them all.
LEMMA EndsAre ==
    ASSUME NEW f \in Seq(Byte), NEW us \in Seq(Stored), NEW at, LaidOut(us, f, at),
           NEW u, NEW passwords
    PROVE  LET ends == Ends(f, u, passwords)
           IN  /\ ends \in SUBSET Nat
               /\ \A k \in Known(us, u, passwords) : at[k] \in ends
               /\ \A e \in ends : \/ \E k \in Known(us, u, passwords) : e = at[k]
                                  \/ e >= at[Len(us) + 1] /\ e < Len(f)
<1> DEFINE n == Len(us)
           found == Known(us, u, passwords)
           ends == Ends(f, u, passwords)
           end == at[n + 1]
<1>1. n \in Nat /\ end \in Nat /\ \A k \in 1 .. n : at[k] \in Nat
  <2>1. n \in Nat /\ n + 1 \in 1 .. n + 1 /\ \A k \in 1 .. n : k \in 1 .. n + 1
    OBVIOUS
  <2> QED
    BY <2>1 DEF LaidOut
<1>2. Starts(f) = { at[k] : k \in 1 .. n } \cup From(f)[end]
  BY WalkLaidOut
<1>3. \A e \in From(f)[end] : e \in Nat /\ e >= end /\ e < Len(f)
  BY <1>1, FromOn
<1>4. ASSUME NEW k \in 1 .. n
      PROVE  at[k] \in ends <=> k \in found
  <2>1. us[k] \in Stored /\ LiesAt(f, at[k], us[k]) /\ at[k] \in Nat
    BY <1>1 DEF LaidOut
  <2>2. /\ IsWhole(f, at[k]) /\ ~Short(f, at[k])
        /\ UsernameLength(f, at[k]) = Len(us[k].username)
        /\ UsernameAt(f, at[k]) = us[k].username /\ PasswordAt(f, at[k]) = us[k].password
    BY <2>1, ReadsAccount
  <2>3. at[k] \in Starts(f)
    BY <1>2
  <2> QED
    BY <2>2, <2>3 DEF Ends, Known
<1>5. ends \subseteq Starts(f)
  BY DEF Ends
<1>6. found \subseteq 1 .. n
  BY DEF Known
<1> HIDE DEF n, found, ends, end
<1>7. ends \in SUBSET Nat
  BY <1>1, <1>2, <1>3, <1>5
<1>8. ASSUME NEW e \in ends PROVE (\E k \in found : e = at[k]) \/ (e >= end /\ e < Len(f))
  BY <1>2, <1>3, <1>4, <1>5
<1> QED
  BY <1>4, <1>6, <1>7, <1>8 DEF n, found, ends, end

\* The first of the accounts that it looks for, or something behind them all: what
\* a scan finds of the accounts at the beginning of a file.
LEMMA ScanFinds ==
    ASSUME NEW f \in Seq(Byte), NEW us \in Seq(Stored), NEW at, LaidOut(us, f, at),
           NEW u, NEW passwords
    PROVE  LET found == Known(us, u, passwords)
               scan == Scan(f, u, passwords)
           IN  /\ found # {} => /\ First(found) \in found
                                /\ scan.status = 1 /\ scan.offset = at[First(found)]
               /\ found = {} /\ scan.status = 1 =>
                    /\ scan.offset \in Nat /\ scan.offset >= at[Len(us) + 1]
                    /\ scan.offset < Len(f) /\ After(f, scan.offset) <= Len(f)
<1> DEFINE n == Len(us)
           found == Known(us, u, passwords)
           ends == Ends(f, u, passwords)
           scan == Scan(f, u, passwords)
           end == at[n + 1]
           i == First(found)
<1>1. /\ ends \in SUBSET Nat
      /\ \A k \in found : at[k] \in ends
      /\ \A e \in ends : (\E k \in found : e = at[k]) \/ (e >= end /\ e < Len(f))
  BY EndsAre
<1>2. /\ n \in Nat /\ end \in Nat /\ n + 1 \in 1 .. n + 1
      /\ \A k \in 1 .. n + 1 : at[k] \in Nat
      /\ \A j, k \in 1 .. n + 1 : j < k => at[j] < at[k]
  <2>1. n \in Nat /\ n + 1 \in 1 .. n + 1
    OBVIOUS
  <2>2. \A j, k \in 1 .. n + 1 : j < k => at[j] < at[k]
    BY OffsetsGrow
  <2> QED
    BY <2>1, <2>2 DEF LaidOut
<1>3. found \in SUBSET (1 .. n) /\ found \in SUBSET Nat
  BY <1>2 DEF Known
<1>4. scan = IF ends = {} THEN [status |-> 0]
             ELSE IF Short(f, Min(ends)) THEN [status |-> -2]
             ELSE [status |-> 1, offset |-> Min(ends)]
  BY DEF Scan
<1>5. ASSUME found # {}
      PROVE  i \in found /\ scan.status = 1 /\ scan.offset = at[i]
  <2> HIDE DEF found, ends, scan, n, end
  <2>1. i \in found /\ \A k \in found : i <= k
    BY <1>3, <1>5, FirstFinds
  <2> HIDE DEF i
  <2>2. i \in 1 .. n /\ at[i] \in Nat /\ at[i] \in ends
    BY <1>1, <1>2, <1>3, <2>1
  <2>3. ASSUME NEW k \in found PROVE at[i] <= at[k]
    <3>1. k \in 1 .. n + 1 /\ i \in 1 .. n + 1 /\ i <= k
      BY <1>2, <1>3, <2>1, <2>2
    <3>2. i = k \/ i < k
      BY <3>1
    <3> QED
      BY <1>2, <3>1, <3>2
  <2>4. at[i] < end
    BY <1>2, <2>2 DEF end
  <2>5. ASSUME NEW e \in ends PROVE at[i] <= e
    <3>1. e \in Nat
      BY <1>1
    <3> QED
      BY <1>1, <1>2, <2>2, <2>3, <2>4, <3>1
  <2>6. Min(ends) = at[i]
    BY <1>1, <2>2, <2>5, MinFinds
  <2>7. us[i] \in Stored /\ LiesAt(f, at[i], us[i])
    BY <2>2 DEF LaidOut, n
  <2>8. ~Short(f, at[i])
    BY <2>2, <2>7, ReadsAccount
  <2> QED
    BY <1>4, <2>1, <2>2, <2>6, <2>8
<1>6. ASSUME found = {}, scan.status = 1
      PROVE  /\ scan.offset \in Nat /\ scan.offset >= end
             /\ scan.offset < Len(f) /\ After(f, scan.offset) <= Len(f)
  <2> HIDE DEF found, scan, n, end
  <2>1. ends # {} /\ ~Short(f, Min(ends)) /\ scan.offset = Min(ends)
    BY <1>4, <1>6
  <2>2. Min(ends) \in ends
    BY <1>1, <2>1, MinFinds, SMTT(60)
  <2>3. IsWhole(f, Min(ends))
    BY <2>1, <2>2, ZenonT(60) DEF Ends
  <2> HIDE DEF ends
  <2> QED
    BY <1>1, <1>6, <2>1, <2>2, <2>3 DEF IsWhole
<1> QED
  BY <1>5, <1>6

-----------------------------------------------------------------------------
(***************************************************************************)
(* What a write leaves of the accounts.                                    *)
(***************************************************************************)

\* The bytes of a digest lie behind that of the level.
LEMMA DigestInRecord ==
    \A o, l \in Nat : \A k \in 1 .. PASSWORD_LEN :
        o + 2 + k \in o + 1 .. o + (34 + l) /\ o + 2 + k # o + 2
  BY DEF PASSWORD_LEN

\* A record lies where its bytes are.
LEMMA SameRecord ==
    ASSUME NEW f, NEW g \in Seq(Byte), NEW o \in Nat, NEW r \in Stored,
           LiesAt(f, o, r), o + SizeOf(r) <= Len(g),
           \A b \in o + 1 .. o + SizeOf(r) : g[b] = f[b]
    PROVE  LiesAt(g, o, r)
<1> DEFINE l == Len(r.username)
<1>1. l \in Nat /\ SizeOf(r) = 34 + l
  BY StoredParts DEF SizeOf, PASSWORD_LEN
<1> HIDE DEF l
<1>2. o + 1 \in o + 1 .. o + SizeOf(r) /\ o + 2 \in o + 1 .. o + SizeOf(r)
  BY <1>1
<1>3. g[o + 1] = f[o + 1] /\ g[o + 2] = f[o + 2]
  BY <1>2
<1>4. ASSUME NEW k \in 1 .. PASSWORD_LEN PROVE g[o + 2 + k] = f[o + 2 + k]
  <2>1. o + 2 + k \in o + 1 .. o + SizeOf(r)
    BY <1>1 DEF PASSWORD_LEN
  <2> QED
    BY <2>1
<1>5. ASSUME NEW k \in 1 .. l PROVE g[o + 2 + PASSWORD_LEN + k] = f[o + 2 + PASSWORD_LEN + k]
  <2>1. o + 2 + PASSWORD_LEN + k \in o + 1 .. o + SizeOf(r)
    BY <1>1 DEF PASSWORD_LEN
  <2> QED
    BY <2>1
<1> QED
  BY <1>3, <1>4, <1>5 DEF LiesAt, l

\* Where the records of a row lie.
LEMMA RowInFile ==
    ASSUME NEW us \in Seq(Stored), NEW f, NEW at, LaidOut(us, f, at)
    PROVE  /\ Len(us) \in Nat /\ at[Len(us) + 1] \in Nat
           /\ \A i \in 1 .. Len(us) :
                 /\ us[i] \in Stored /\ SizeOf(us[i]) \in Nat /\ SizeOf(us[i]) > 34
                 /\ at[i] \in Nat /\ at[i] + SizeOf(us[i]) <= at[Len(us) + 1]
                 /\ \A j \in 1 .. Len(us) : j < i => at[j] + SizeOf(us[j]) <= at[i]
<1> DEFINE n == Len(us)
<1>1. n \in Nat /\ n + 1 \in 1 .. n + 1 /\ \A i \in 1 .. n : i \in 1 .. n + 1 /\ i + 1 \in 1 .. n + 1
  OBVIOUS
<1>2. \A i \in 1 .. n + 1 : at[i] \in Nat
  BY DEF LaidOut
<1>3. \A i \in 1 .. n : us[i] \in Stored /\ at[i + 1] = at[i] + SizeOf(us[i])
  BY DEF LaidOut
<1>4. \A i \in 1 .. n : SizeOf(us[i]) \in Nat /\ SizeOf(us[i]) > 34
  BY <1>3, StoredParts
<1>5. \A i, j \in 1 .. n + 1 : i < j => at[i] < at[j]
  BY OffsetsGrow
<1> HIDE DEF n
<1>6. \A i, j \in 1 .. n + 1 : i <= j => at[i] <= at[j]
  <2> SUFFICES ASSUME NEW i \in 1 .. n + 1, NEW j \in 1 .. n + 1, i <= j PROVE at[i] <= at[j]
    OBVIOUS
  <2>1. i = j \/ i < j
    BY <1>1
  <2> QED
    BY <1>2, <1>5, <2>1
<1>7. ASSUME NEW i \in 1 .. n PROVE at[i] + SizeOf(us[i]) <= at[n + 1]
  <2>1. i + 1 <= n + 1
    BY <1>1
  <2> QED
    BY <1>1, <1>3, <1>6, <2>1
<1>8. ASSUME NEW i \in 1 .. n, NEW j \in 1 .. n, j < i PROVE at[j] + SizeOf(us[j]) <= at[i]
  <2>1. j + 1 <= i
    BY <1>1, <1>8
  <2> QED
    BY <1>1, <1>3, <1>6, <2>1
<1> QED
  BY <1>1, <1>2, <1>3, <1>4, <1>7, <1>8 DEF n

\* Whatever happens to the file behind the accounts leaves them where they are.
LEMMA Behind ==
    ASSUME NEW f \in Seq(Byte), NEW g \in Seq(Byte), NEW us \in Seq(Stored), NEW at,
           LaidOut(us, f, at), at[Len(us) + 1] <= Len(g),
           \A b \in 1 .. at[Len(us) + 1] : g[b] = f[b]
    PROVE  LaidOut(us, g, at)
<1> DEFINE n == Len(us)
           end == at[n + 1]
<1>1. /\ n \in Nat /\ end \in Nat
      /\ \A i \in 1 .. n : /\ us[i] \in Stored /\ SizeOf(us[i]) \in Nat
                           /\ at[i] \in Nat /\ at[i] + SizeOf(us[i]) <= end
  BY RowInFile
<1>2. \A i \in 1 .. n : LiesAt(f, at[i], us[i])
  BY DEF LaidOut
<1>3. Len(g) \in Nat /\ end <= Len(g) /\ \A b \in 1 .. end : g[b] = f[b]
  OBVIOUS
<1> HIDE DEF n, end
<1>4. ASSUME NEW i \in 1 .. n PROVE LiesAt(g, at[i], us[i])
  <2>1. at[i] + SizeOf(us[i]) <= Len(g)
    BY <1>1, <1>3
  <2>2. \A b \in at[i] + 1 .. at[i] + SizeOf(us[i]) : b \in 1 .. end
    BY <1>1
  <2>3. \A b \in at[i] + 1 .. at[i] + SizeOf(us[i]) : g[b] = f[b]
    BY <1>3, <2>2
  <2> QED
    BY <1>1, <1>2, <2>1, <2>3, SameRecord
<1> QED
  BY <1>3, <1>4 DEF LaidOut, n, end

\* A record that is written behind them is one more of them, as long as there is
\* nothing between.
LEMMA OneMore ==
    ASSUME NEW f \in Seq(Byte), NEW us \in Seq(Stored), NEW at, LaidOut(us, f, at),
           at[Len(us) + 1] = Len(f),
           NEW r \in Stored, NEW g \in Seq(Byte), Len(g) = Len(f) + SizeOf(r),
           \A b \in 1 .. Len(f) : g[b] = f[b], LiesAt(g, Len(f), r)
    PROVE  \E bt : LaidOut(Append(us, r), g, bt) /\ bt[Len(Append(us, r)) + 1] = Len(g)
<1> DEFINE n == Len(us)
           vs == Append(us, r)
           bt == [k \in 1 .. n + 2 |-> IF k = n + 2 THEN Len(g) ELSE at[k]]
<1>1. n \in Nat /\ Len(f) \in Nat /\ Len(g) \in Nat /\ SizeOf(r) \in Nat
  BY StoredParts
<1>2. /\ Len(vs) = n + 1 /\ vs[n + 1] = r
      /\ \A i \in 1 .. n : vs[i] = us[i]
  BY AppendProperties
<1>3. LaidOut(us, g, at)
  <2>1. at[Len(us) + 1] <= Len(g)
    BY <1>1
  <2> QED
    BY <2>1, Behind
<1>4. /\ at \in [1 .. n + 1 -> Nat] /\ at[1] = 0
      /\ \A i \in 1 .. n : at[i + 1] = at[i] + SizeOf(us[i]) /\ LiesAt(g, at[i], us[i])
  BY <1>3 DEF LaidOut
<1> HIDE DEF n, vs
<1>5. /\ bt \in [1 .. n + 2 -> Nat] /\ bt[n + 2] = Len(g)
      /\ \A k \in 1 .. n + 1 : bt[k] = at[k]
  <2>1. \A k \in 1 .. n + 1 : k \in 1 .. n + 2 /\ k # n + 2
    BY <1>1
  <2>2. n + 2 \in 1 .. n + 2 /\ \A k \in 1 .. n + 2 : k = n + 2 \/ k \in 1 .. n + 1
    BY <1>1
  <2> QED
    BY <1>1, <1>4, <2>1, <2>2
<1> HIDE DEF bt
<1>6. bt[1] = 0
  BY <1>1, <1>4, <1>5
<1>7. ASSUME NEW i \in 1 .. n + 1
      PROVE  bt[i + 1] = bt[i] + SizeOf(vs[i]) /\ LiesAt(g, bt[i], vs[i])
  <2>1. CASE i = n + 1
    <3>1. bt[i] = Len(f) /\ bt[i + 1] = Len(g) /\ vs[i] = r
      <4>1. i + 1 = n + 2
        BY <1>1, <2>1
      <4> QED
        BY <1>2, <1>5, <2>1, <4>1 DEF n
    <3> QED
      BY <1>1, <3>1
  <2>2. CASE i \in 1 .. n
    <3>1. i + 1 \in 1 .. n + 1
      BY <1>1, <2>2
    <3>2. bt[i] = at[i] /\ bt[i + 1] = at[i + 1] /\ vs[i] = us[i]
      BY <1>2, <1>5, <2>2, <3>1
    <3> QED
      BY <1>4, <2>2, <3>2
  <2> QED
    BY <1>1, <2>1, <2>2
<1>8. LaidOut(vs, g, bt) /\ bt[Len(vs) + 1] = Len(g)
  <2>1. Len(vs) = n + 1 /\ n + 1 + 1 = n + 2
    BY <1>1, <1>2
  <2> QED
    BY <1>1, <1>5, <1>6, <1>7, <2>1 DEF LaidOut
<1> QED
  BY <1>8 DEF vs

\* A file in which one byte has been overwritten, and the accounts of which one has
\* another level.
ByteSet(f, g, x, byte) ==
    /\ Len(g) = Len(f) /\ g[x] = byte
    /\ \A b \in 1 .. Len(f) : b # x => g[b] = f[b]

LevelSet(us, vs, i, level) ==
    /\ Len(vs) = Len(us) /\ vs[i] = [us[i] EXCEPT !.level = level]
    /\ \A j \in 1 .. Len(us) : j # i => vs[j] = us[j]

\* The byte of a level is in its own record.
LEMMA OneLevel ==
    ASSUME NEW f \in Seq(Byte), NEW us \in Seq(Stored), NEW at, LaidOut(us, f, at),
           NEW i \in 1 .. Len(us), NEW level \in Byte,
           NEW g \in Seq(Byte), ByteSet(f, g, at[i] + 2, level),
           NEW vs \in Seq(Stored), LevelSet(us, vs, i, level)
    PROVE  LaidOut(vs, g, at)
<1> USE DEF ByteSet, LevelSet
<1> DEFINE n == Len(us)
           end == at[n + 1]
           x == at[i] + 2
<1>1. /\ n \in Nat /\ end \in Nat
      /\ \A j \in 1 .. n :
            /\ us[j] \in Stored /\ SizeOf(us[j]) \in Nat /\ SizeOf(us[j]) > 34
            /\ at[j] \in Nat /\ at[j] + SizeOf(us[j]) <= end
            /\ \A k \in 1 .. n : k < j => at[k] + SizeOf(us[k]) <= at[j]
  BY RowInFile
<1>2. /\ at \in [1 .. n + 1 -> Nat] /\ at[1] = 0 /\ end <= Len(f) /\ Len(f) \in Nat
      /\ \A j \in 1 .. n : at[j + 1] = at[j] + SizeOf(us[j]) /\ LiesAt(f, at[j], us[j])
  BY DEF LaidOut
<1> HIDE DEF n, end
<1>3. ASSUME NEW j \in 1 .. n, j # i
      PROVE  SizeOf(vs[j]) = SizeOf(us[j]) /\ LiesAt(g, at[j], vs[j])
  <2>1. vs[j] = us[j]
    BY <1>3 DEF n
  <2>2. i \in 1 .. n /\ (i < j \/ j < i)
    BY <1>1, <1>3 DEF n
  <2>3. at[j] + SizeOf(us[j]) < x \/ x < at[j] + 1
    <3>1. /\ at[i] \in Nat /\ SizeOf(us[i]) \in Nat /\ SizeOf(us[i]) > 34
          /\ at[j] \in Nat /\ SizeOf(us[j]) \in Nat
      BY <1>1, <2>2
    <3>2. at[i] + SizeOf(us[i]) <= at[j] \/ at[j] + SizeOf(us[j]) <= at[i]
      BY <1>1, <2>2
    <3> QED
      BY <3>1, <3>2, SMTT(60)
  <2>4. ASSUME NEW b \in at[j] + 1 .. at[j] + SizeOf(us[j]) PROVE g[b] = f[b]
    <3>1. at[j] \in Nat /\ SizeOf(us[j]) \in Nat /\ at[j] + SizeOf(us[j]) <= Len(f)
      BY <1>1, <1>2
    <3>2. x \in Nat
      <4>1. at[i] \in Nat
        BY <1>1, <2>2
      <4> QED
        BY <4>1
    <3> HIDE DEF x
    <3>3. b \in 1 .. Len(f) /\ b # x
      BY <1>2, <2>3, <3>1, <3>2, SMTT(60)
    <3> QED
      BY <3>3 DEF x
  <2>5. at[j] + SizeOf(us[j]) <= Len(g)
    BY <1>1, <1>2
  <2>6. LiesAt(g, at[j], us[j])
    BY <1>1, <1>2, <2>4, <2>5, SameRecord
  <2> QED
    BY <2>1, <2>6
<1>4. SizeOf(vs[i]) = SizeOf(us[i]) /\ LiesAt(g, at[i], vs[i])
  <2> DEFINE r == us[i]
             s == vs[i]
             o == at[i]
             l == Len(r.username)
  <2>1. /\ r \in Stored /\ o \in Nat /\ o + SizeOf(r) <= Len(f) /\ LiesAt(f, o, r)
        /\ l \in Nat /\ SizeOf(r) = 34 + l
    BY <1>1, <1>2, StoredParts DEF n, SizeOf, PASSWORD_LEN
  <2>2. s.username = r.username /\ s.password = r.password /\ s.level = level
    BY <2>1 DEF Stored, AccountOf
  <2> HIDE DEF r, s, o, l
  <2>3. ASSUME NEW b \in o + 1 .. o + SizeOf(r), b # o + 2 PROVE g[b] = f[b]
    <3>1. b \in 1 .. Len(f) /\ b # x
      BY <1>2, <2>1, <2>3 DEF o
    <3> QED
      BY <3>1
  <2>4. g[o + 1] = f[o + 1] /\ g[o + 2] = level
    <3>1. o + 1 \in o + 1 .. o + SizeOf(r) /\ o + 1 # o + 2
      BY <2>1
    <3>2. g[o + 2] = level
      BY DEF o
    <3> QED
      BY <2>3, <3>1, <3>2
  <2>5. ASSUME NEW k \in 1 .. PASSWORD_LEN PROVE g[o + 2 + k] = f[o + 2 + k]
    <3>1. o + 2 + k \in o + 1 .. o + (34 + l) /\ o + 2 + k # o + 2
      BY <2>1, DigestInRecord
    <3> QED
      BY <2>1, <2>3, <3>1
  <2>6. ASSUME NEW k \in 1 .. l PROVE g[o + 2 + PASSWORD_LEN + k] = f[o + 2 + PASSWORD_LEN + k]
    <3>1. o + 2 + PASSWORD_LEN + k \in o + 1 .. o + SizeOf(r) /\ o + 2 + PASSWORD_LEN + k # o + 2
      BY <2>1, SMTT(40) DEF PASSWORD_LEN
    <3> QED
      BY <2>3, <3>1
  <2>7. SizeOf(s) = SizeOf(r) /\ o + SizeOf(s) <= Len(g)
    BY <2>1, <2>2 DEF SizeOf
  <2>8. /\ f[o + 1] = l /\ \A k \in 1 .. PASSWORD_LEN : f[o + 2 + k] = r.password[k]
        /\ \A k \in 1 .. l : f[o + 2 + PASSWORD_LEN + k] = r.username[k]
    BY <2>1 DEF LiesAt, l
  <2>9. LiesAt(g, o, s)
    BY <2>2, <2>4, <2>5, <2>6, <2>7, <2>8 DEF LiesAt, l
  <2> QED
    BY <2>7, <2>9 DEF r, s, o
<1>5. \A j \in 1 .. n : SizeOf(vs[j]) = SizeOf(us[j]) /\ LiesAt(g, at[j], vs[j])
  BY <1>3, <1>4
<1>6. Len(vs) = n /\ end = at[Len(vs) + 1]
  BY DEF n, end
<1> QED
  BY <1>2, <1>5, <1>6 DEF LaidOut

-----------------------------------------------------------------------------
(***************************************************************************)
(* The writes of the handlers.                                             *)
(***************************************************************************)

Account(u, p, level) == [username |-> u, password |-> p, level |-> level]

LEMMA AccountStored ==
    ASSUME NEW u \in Username, NEW p \in Digest, NEW level \in Byte
    PROVE  Account(u, p, level) \in Stored
  BY DEF Account, Stored, AccountOf

\* The bytes of a record.
LEMMA RecordIs ==
    ASSUME NEW u \in Username, NEW p \in Digest, NEW level \in Byte
    PROVE  LET bytes == Record(u, p, level)
           IN  /\ bytes \in Seq(Byte) /\ Len(bytes) = SizeOf(Account(u, p, level))
               /\ bytes[1] = Len(u) /\ bytes[2] = level
               /\ \A k \in 1 .. PASSWORD_LEN : bytes[2 + k] = p[k]
               /\ \A k \in 1 .. Len(u) : bytes[2 + PASSWORD_LEN + k] = u[k]
<1> DEFINE head == <<Len(u), level>>
           front == head \o p
           bytes == front \o u
           l == Len(u)
<1>1. /\ u \in Seq(Byte) /\ l \in Byte /\ l \in Nat
      /\ p \in Seq(Byte) /\ Len(p) = PASSWORD_LEN /\ SizeOf(Account(u, p, level)) = 34 + l
  <2>1. /\ Account(u, p, level) \in Stored
        /\ Account(u, p, level).username = u /\ Account(u, p, level).password = p
    BY AccountStored DEF Account
  <2>2. SizeOf(Account(u, p, level)) = 34 + l
    BY <2>1, StoredParts DEF SizeOf, PASSWORD_LEN
  <2> QED
    BY <2>1, <2>2, StoredParts, ByteIsNat
<1>2. head \in Seq(Byte) /\ Len(head) = 2 /\ head[1] = l /\ head[2] = level
  BY <1>1
<1> HIDE DEF head, l
<1>3. /\ front \in Seq(Byte) /\ Len(front) = 34
      /\ \A k \in 1 .. 34 : front[k] = IF k <= 2 THEN head[k] ELSE p[k - 2]
  <2>1. /\ front \in Seq(Byte) /\ Len(front) = Len(head) + Len(p)
        /\ \A k \in 1 .. Len(head) + Len(p) :
              front[k] = IF k <= Len(head) THEN head[k] ELSE p[k - Len(head)]
    BY <1>1, <1>2, ConcatProperties
  <2>2. Len(head) = 2 /\ Len(head) + Len(p) = 34
    BY <1>1, <1>2 DEF PASSWORD_LEN
  <2> HIDE DEF front
  <2> QED
    BY <2>1, <2>2
<1> HIDE DEF front
<1>4. /\ bytes \in Seq(Byte) /\ Len(bytes) = 34 + l
      /\ \A k \in 1 .. 34 + l : bytes[k] = IF k <= 34 THEN front[k] ELSE u[k - 34]
  <2>1. /\ bytes \in Seq(Byte) /\ Len(bytes) = Len(front) + Len(u)
        /\ \A k \in 1 .. Len(front) + Len(u) :
              bytes[k] = IF k <= Len(front) THEN front[k] ELSE u[k - Len(front)]
    BY <1>1, <1>3, ConcatProperties, ZenonT(60)
  <2>2. Len(front) = 34 /\ Len(front) + Len(u) = 34 + l
    BY <1>3 DEF l
  <2> HIDE DEF bytes
  <2> QED
    BY <2>1, <2>2
<1> HIDE DEF bytes
<1>5. bytes[1] = l /\ bytes[2] = level
  <2>1. 1 \in 1 .. 34 + l /\ 2 \in 1 .. 34 + l
    BY <1>1
  <2> QED
    BY <1>2, <1>3, <1>4, <2>1
<1>6. ASSUME NEW k \in 1 .. PASSWORD_LEN PROVE bytes[2 + k] = p[k]
  <2>1. 2 + k \in 1 .. 34 + l /\ 2 + k \in 1 .. 34 /\ 2 + k <= 34 /\ ~(2 + k <= 2) /\ 2 + k - 2 = k
    BY <1>1 DEF PASSWORD_LEN
  <2>2. bytes[2 + k] = front[2 + k]
    BY <1>4, <2>1
  <2>3. \A j \in 1 .. 34 : ~(j <= 2) => front[j] = p[j - 2]
    BY <1>3
  <2>4. PICK j \in 1 .. 34 : j = 2 + k
    BY <2>1
  <2>5. front[j] = p[j - 2]
    BY <2>1, <2>3, <2>4
  <2> QED
    BY <2>1, <2>2, <2>4, <2>5
<1>7. ASSUME NEW k \in 1 .. l PROVE bytes[2 + PASSWORD_LEN + k] = u[k]
  <2>1. 2 + PASSWORD_LEN + k = 34 + k
    BY <1>1 DEF PASSWORD_LEN
  <2>2. 34 + k \in 1 .. 34 + l /\ ~(34 + k <= 34) /\ 34 + k - 34 = k
    BY <1>1
  <2> QED
    BY <1>4, <2>1, <2>2
<1>8. Record(u, p, level) = bytes
  BY DEF Record, bytes, front, head
<1> QED
  BY <1>1, <1>4, <1>5, <1>6, <1>7, <1>8 DEF l

\* What _unlocked_add_user appends is the record of the account.
LEMMA Appends ==
    ASSUME NEW f \in Seq(Byte), NEW u \in Username, NEW p \in Digest, NEW level \in Byte
    PROVE  LET g == Pwrite(f, Record(u, p, level), Len(f))
               r == Account(u, p, level)
           IN  /\ g \in Seq(Byte) /\ Len(g) = Len(f) + SizeOf(r)
               /\ \A b \in 1 .. Len(f) : g[b] = f[b]
               /\ LiesAt(g, Len(f), r)
<1> DEFINE bytes == Record(u, p, level)
           o == Len(f)
           g == Pwrite(f, bytes, o)
           r == Account(u, p, level)
           n == SizeOf(r)
<1>1. r \in Stored /\ r.username = u /\ r.password = p /\ r.level = level
  BY AccountStored DEF Account
<1>2. o \in Nat /\ n \in Nat /\ Len(u) \in Nat /\ n = 34 + Len(u)
  BY <1>1, StoredParts DEF SizeOf, PASSWORD_LEN
<1>3. /\ bytes \in Seq(Byte) /\ Len(bytes) = n /\ bytes[1] = Len(u) /\ bytes[2] = level
      /\ \A k \in 1 .. PASSWORD_LEN : bytes[2 + k] = p[k]
      /\ \A k \in 1 .. Len(u) : bytes[2 + PASSWORD_LEN + k] = u[k]
  BY RecordIs
<1> HIDE DEF bytes, r
<1>4. /\ g \in Seq(Byte)
      /\ Len(g) = IF Len(f) < o + Len(bytes) THEN o + Len(bytes) ELSE Len(f)
      /\ \A i \in 1 .. Len(bytes) : g[o + i] = bytes[i]
      /\ \A i \in 1 .. Len(f) : i \notin o + 1 .. o + Len(bytes) => g[i] = f[i]
  <2>1. o <= Len(f)
    BY <1>2
  <2> QED
    BY <1>2, <1>3, <2>1, PwriteIs
<1> HIDE DEF g, n
<1>5. Len(g) = o + n
  BY <1>2, <1>3, <1>4
<1>6. ASSUME NEW b \in 1 .. Len(f) PROVE g[b] = f[b]
  <2>1. b \notin o + 1 .. o + Len(bytes)
    BY <1>2
  <2> QED
    BY <1>4, <2>1
<1>7. \A i \in 1 .. n : g[o + i] = bytes[i]
  BY <1>3, <1>4
<1>8. g[o + 1] = Len(u) /\ g[o + 2] = level
  <2>1. 1 \in 1 .. n /\ 2 \in 1 .. n
    BY <1>2
  <2> QED
    BY <1>3, <1>7, <2>1
<1>9. ASSUME NEW k \in 1 .. PASSWORD_LEN PROVE g[o + 2 + k] = p[k]
  <2>1. 2 + k \in 1 .. n /\ o + (2 + k) = o + 2 + k
    BY <1>2 DEF PASSWORD_LEN
  <2>2. g[o + (2 + k)] = bytes[2 + k]
    BY <1>7, <2>1
  <2> QED
    BY <1>3, <2>1, <2>2
<1>10. ASSUME NEW k \in 1 .. Len(u) PROVE g[o + 2 + PASSWORD_LEN + k] = u[k]
  <2>1. 2 + PASSWORD_LEN + k \in 1 .. n /\ o + (2 + PASSWORD_LEN + k) = o + 2 + PASSWORD_LEN + k
    BY <1>2 DEF PASSWORD_LEN
  <2>2. g[o + (2 + PASSWORD_LEN + k)] = bytes[2 + PASSWORD_LEN + k]
    BY <1>7, <2>1
  <2> QED
    BY <1>3, <2>1, <2>2
<1>11. LiesAt(g, o, r)
  <2>1. o + SizeOf(r) <= Len(g)
    BY <1>2, <1>5 DEF n
  <2> QED
    BY <1>1, <1>8, <1>9, <1>10, <2>1 DEF LiesAt
<1> QED
  BY <1>4, <1>5, <1>6, <1>11 DEF g, bytes, r, n

\* An append that is cut short leaves what the file held.
LEMMA TornKeeps ==
    ASSUME NEW f \in Seq(Byte), NEW bytes \in Seq(Byte), NEW g \in TornWrites(f, bytes, Len(f))
    PROVE  g \in Seq(Byte) /\ Len(g) >= Len(f) /\ \A b \in 1 .. Len(f) : g[b] = f[b]
<1> DEFINE o == Len(f)
<1>1. o \in Nat /\ Len(bytes) \in Nat
  OBVIOUS
<1>2. CASE g = f
  BY <1>1, <1>2
<1>3. CASE \E k \in 1 .. Len(bytes) - 1 : g = Pwrite(f, SubSeq(bytes, 1, k), o)
  <2>1. PICK k \in 1 .. Len(bytes) - 1 : g = Pwrite(f, SubSeq(bytes, 1, k), o)
    BY <1>3
  <2> DEFINE part == SubSeq(bytes, 1, k)
  <2>2. part \in Seq(Byte)
    <3>1. \A i \in 1 .. k : bytes[i] \in Byte
      <4>1. \A i \in 1 .. k : i \in 1 .. Len(bytes)
        BY <1>1
      <4> QED
        BY <4>1
    <3>2. 1 \in Int /\ k \in Int
      BY <1>1
    <3> QED
      BY <3>1, <3>2, SubSeqProperties
  <2> HIDE DEF part
  <2>3. Len(part) \in Nat
    BY <2>2
  <2>4. /\ g \in Seq(Byte)
        /\ Len(g) = IF Len(f) < o + Len(part) THEN o + Len(part) ELSE Len(f)
        /\ \A i \in 1 .. Len(f) : i \notin o + 1 .. o + Len(part) => g[i] = f[i]
    <3>1. o <= Len(f) /\ g = Pwrite(f, part, o)
      BY <1>1, <2>1 DEF part
    <3> QED
      BY <1>1, <2>2, <3>1, PwriteIs
  <2>5. \A i \in 1 .. o : i \notin o + 1 .. o + Len(part)
    BY <1>1, <2>3
  <2> QED
    BY <1>1, <2>3, <2>4, <2>5
<1> QED
  BY <1>2, <1>3 DEF TornWrites

\* A change of level finds the first account with the username, if it is in the row,
\* and writes its byte and no other there.
LEMMA PermWrites ==
    ASSUME NEW f \in Seq(Byte), NEW us \in Seq(Stored), NEW at, LaidOut(us, f, at),
           NEW u, NEW level \in Byte
    PROVE  LET scan == FindUser(f, u)
               g == IF scan.status = 1 THEN Pwrite(f, <<level>>, scan.offset + 1) ELSE f
               vs == change_permissions(us, u, level)
           IN  g \in Seq(Byte) /\ Len(g) = Len(f) /\ vs \in Seq(Stored) /\ LaidOut(vs, g, at)
<1> DEFINE P == [1 .. PASSWORD_LEN -> Byte]
           scan == FindUser(f, u)
           found == WithName(us, u)
           vs == change_permissions(us, u, level)
           n == Len(us)
           end == at[n + 1]
           i == First(found)
<1>1. /\ n \in Nat /\ end \in Nat /\ Len(f) \in Nat /\ end <= Len(f)
      /\ \A k \in 1 .. n : /\ us[k] \in Stored /\ SizeOf(us[k]) \in Nat /\ SizeOf(us[k]) > 34
                           /\ at[k] \in Nat /\ at[k] + SizeOf(us[k]) <= end
  <2>1. end <= Len(f) /\ Len(f) \in Nat
    BY DEF LaidOut
  <2> QED
    BY <2>1, RowInFile
<1>2. found = Known(us, u, P) /\ found \in SUBSET Nat /\ found \in SUBSET (1 .. n)
  <2>1. ASSUME NEW k \in 1 .. n PROVE us[k].password \in P
    <3>1. us[k].password \in Seq(Byte) /\ Len(us[k].password) = PASSWORD_LEN
      BY <1>1, StoredParts
    <3> QED
      BY <3>1
  <2>2. found \subseteq 1 .. Len(us)
    BY FoundInFile
  <2>3. Known(us, u, P) = { k \in 1 .. n : us[k].username = u }
    BY <2>1 DEF Known
  <2>4. DOMAIN us = 1 .. n
    OBVIOUS
  <2>5. 1 .. n \subseteq Nat
    BY <1>1
  <2> QED
    BY <2>2, <2>3, <2>4, <2>5 DEF WithName
<1>3. /\ vs \in Seq(Stored) /\ Len(vs) = n
  BY ChangeSets DEF Stored
<1>4. /\ found # {} => scan.status = 1 /\ scan.offset = at[i]
      /\ found = {} /\ scan.status = 1 =>
           /\ scan.offset \in Nat /\ scan.offset >= end
           /\ scan.offset < Len(f) /\ After(f, scan.offset) <= Len(f)
  <2> DEFINE known == Known(us, u, P)
             sc == Scan(f, u, P)
  <2>1. /\ known # {} => /\ First(known) \in known
                         /\ sc.status = 1 /\ sc.offset = at[First(known)]
        /\ known = {} /\ sc.status = 1 =>
             /\ sc.offset \in Nat /\ sc.offset >= at[Len(us) + 1]
             /\ sc.offset < Len(f) /\ After(f, sc.offset) <= Len(f)
    <3> HIDE DEF P
    <3> QED
      BY ScanFinds
  <2>2. scan = sc /\ found = known
    BY <1>2 DEF FindUser
  <2> HIDE DEF scan, sc, found, known, n
  <2> QED
    BY <2>1, <2>2 DEF n
<1> DEFINE x == scan.offset + 1
           g == Pwrite(f, <<level>>, x)
<1>5. ASSUME scan.offset \in Nat, x < Len(f)
      PROVE  /\ g \in Seq(Byte) /\ Len(g) = Len(f) /\ g[x + 1] = level
             /\ \A b \in 1 .. Len(f) : b # x + 1 => g[b] = f[b]
  <2> DEFINE one == <<level>>
  <2>1. one \in Seq(Byte) /\ Len(one) = 1 /\ one[1] = level
    OBVIOUS
  <2> HIDE DEF scan, one
  <2>2. x \in Nat /\ x <= Len(f)
    BY <1>1, <1>5
  <2> DEFINE h == Pwrite(f, one, x)
  <2> HIDE DEF x
  <2>3. /\ h \in Seq(Byte)
        /\ Len(h) = IF Len(f) < x + Len(one) THEN x + Len(one) ELSE Len(f)
        /\ \A k \in 1 .. Len(one) : h[x + k] = one[k]
        /\ \A b \in 1 .. Len(f) : b \notin x + 1 .. x + Len(one) => h[b] = f[b]
    BY <2>1, <2>2, PwriteIs
  <2>4. g = h
    BY DEF one
  <2> HIDE DEF g, h
  <2>5. Len(h) = Len(f)
    BY <1>1, <1>5, <2>1, <2>2, <2>3
  <2>6. h[x + 1] = level
    BY <2>1, <2>3
  <2>7. ASSUME NEW b \in 1 .. Len(f), b # x + 1 PROVE h[b] = f[b]
    <3>1. b \notin x + 1 .. x + Len(one)
      BY <1>1, <2>1, <2>2, <2>7
    <3> QED
      BY <2>3, <3>1
  <2> QED
    BY <2>3, <2>4, <2>5, <2>6, <2>7
<1>6. CASE found # {}
  <2>1. i \in found
    BY <1>2, <1>6, FirstFinds
  <2>2. i \in 1 .. n /\ i # 0
    <3> HIDE DEF i, found
    <3>1. i \in 1 .. n
      BY <1>2, <2>1
    <3> QED
      BY <1>1, <3>1
  <2>3. vs = [us EXCEPT ![i].level = level]
    BY <2>2 DEF change_permissions, NotFound
  <2> HIDE DEF i, vs, scan
  <2>4. vs[i] = [us[i] EXCEPT !.level = level] /\ \A j \in 1 .. n : j # i => vs[j] = us[j]
    BY <2>2, <2>3
  <2>5. scan.status = 1 /\ scan.offset = at[i] /\ at[i] \in Nat
    BY <1>1, <1>4, <1>6, <2>2 DEF i
  <2>6. x < Len(f) /\ x + 1 = at[i] + 2
    BY <1>1, <2>2, <2>5
  <2>7. /\ g \in Seq(Byte) /\ Len(g) = Len(f) /\ g[at[i] + 2] = level
        /\ \A b \in 1 .. Len(f) : b # at[i] + 2 => g[b] = f[b]
    BY <1>5, <2>5, <2>6
  <2> HIDE DEF g
  <2>8. LaidOut(vs, g, at)
    <3>1. /\ i \in 1 .. Len(us) /\ vs \in Seq(Stored) /\ Len(vs) = Len(us)
          /\ \A j \in 1 .. Len(us) : j # i => vs[j] = us[j]
      BY <1>3, <2>2, <2>4 DEF vs
    <3>2. ByteSet(f, g, at[i] + 2, level) /\ LevelSet(us, vs, i, level)
      BY <2>4, <2>7, <3>1 DEF ByteSet, LevelSet
    <3> HIDE DEF n, x
    <3> QED
      BY <2>7, <3>1, <3>2, OneLevel
  <2> QED
    BY <1>3, <2>5, <2>7, <2>8 DEF g, vs, scan
<1>7. CASE found = {}
  <2>1. vs = us
    BY <1>7, <1>2, FirstFinds DEF change_permissions
  <2>2. CASE scan.status = 1
    <3> DEFINE o == scan.offset
    <3>1. o \in Nat /\ o >= end /\ o < Len(f) /\ After(f, o) <= Len(f)
      BY <1>4, <1>7, <2>2
    <3> HIDE DEF scan, vs
    <3>2. After(f, o) \in Nat /\ After(f, o) > o + 1
      <4>1. o + 1 \in 1 .. Len(f)
        BY <1>1, <3>1
      <4>2. f[o + 1] \in Nat
        BY <4>1, ByteIsNat
      <4> QED
        BY <3>1, <4>2, SMTT(60) DEF After, UsernameLength, PASSWORD_LEN
    <3>3. x < Len(f)
      BY <1>1, <3>1, <3>2
    <3>4. /\ g \in Seq(Byte) /\ Len(g) = Len(f)
          /\ \A b \in 1 .. Len(f) : b # x + 1 => g[b] = f[b]
      BY <1>5, <3>1, <3>3
    <3>5. \A b \in 1 .. end : b \in 1 .. Len(f) /\ b # x + 1
      BY <1>1, <3>1
    <3>6. \A b \in 1 .. end : g[b] = f[b]
      BY <3>4, <3>5
    <3> HIDE DEF g
    <3>7. LaidOut(us, g, at)
      BY <1>1, <3>4, <3>6, Behind
    <3> QED
      BY <1>3, <2>1, <2>2, <3>4, <3>7 DEF g, scan, vs
  <2>3. CASE scan.status # 1
    BY <1>3, <2>1, <2>3
  <2> QED
    BY <2>2, <2>3
<1> QED
  BY <1>6, <1>7

-----------------------------------------------------------------------------
(***************************************************************************)
(* The invariant of the server: the accounts of stored lie at the          *)
(* beginning of the file, and nothing lies behind them as long as no       *)
(* append has been cut short.                                              *)
(***************************************************************************)

Lie(at) ==
    /\ LaidOut(stored, file, at)
    /\ torn = 0 => at[Len(stored) + 1] = Len(file)

Inv ==
    /\ file \in Seq(Byte) /\ stored \in Seq(Stored)
    /\ registering \subseteq Credentials
    /\ torn \in Nat /\ appends \in Nat /\ torn <= appends
    /\ \E at : Lie(at)

LEMMA CredentialParts ==
    ASSUME NEW c \in Credentials
    PROVE  c[1] \in Username /\ c[2] \in Digest /\ <<c[1], c[2]>> = c
  BY UserFileAssumption DEF Username, Digest

LEMMA InitInv == Init => Inv
<1> SUFFICES ASSUME Init PROVE Inv
  OBVIOUS
<1> DEFINE at == [k \in 1 .. 1 |-> 0]
<1>1. file = << >> /\ stored = << >> /\ registering = {} /\ torn = 0 /\ appends = 0
  BY DEF Init
<1>2. Len(stored) = 0 /\ Len(file) = 0 /\ at \in [1 .. 1 -> Nat] /\ at[1] = 0
  BY <1>1
<1> HIDE DEF at
<1>3. Lie(at)
  BY <1>2 DEF Lie, LaidOut
<1> QED
  BY <1>1, <1>3 DEF Inv

\* An account is added behind the others, or something behind what is behind them.
LEMMA AddedInv ==
    ASSUME Inv, NEW c \in Credentials, RegisterAdded(c[1], c[2])
    PROVE  Inv'
<1> DEFINE u == c[1]
           p == c[2]
<1>1. u \in Username /\ p \in Digest
  BY CredentialParts
<1>2. PICK level \in RegisteredLevel :
          /\ appends' = appends + 1 /\ file' = Pwrite(file, Record(u, p, level), Len(file))
          /\ stored' = IF torn = 0 THEN add_user(stored, u, p, level) ELSE stored
  BY DEF RegisterAdded, Appended
<1>3. level \in Byte
  BY UserFileAssumption
<1> DEFINE r == Account(u, p, level)
<1>4. /\ file \in Seq(Byte) /\ stored \in Seq(Stored) /\ registering' \subseteq Credentials
      /\ torn \in Nat /\ appends \in Nat /\ torn' = torn /\ torn' <= appends' /\ appends' \in Nat
  BY <1>2 DEF Inv, RegisterAdded
<1>5. r \in Stored /\ SizeOf(r) \in Nat
  BY <1>1, <1>3, AccountStored, StoredParts
<1>6. /\ file' \in Seq(Byte) /\ Len(file') = Len(file) + SizeOf(r)
      /\ \A b \in 1 .. Len(file) : file'[b] = file[b]
      /\ LiesAt(file', Len(file), r)
  BY <1>1, <1>2, <1>3, <1>4, Appends
<1>7. PICK at : Lie(at)
  BY DEF Inv
<1>8. LaidOut(stored, file, at)
  BY <1>7 DEF Lie
<1>9. CASE torn = 0
  <2>1. at[Len(stored) + 1] = Len(file)
    BY <1>7, <1>9 DEF Lie
  <2>2. stored' = Append(stored, r)
    BY <1>2, <1>9 DEF add_user, Account
  <2> HIDE DEF r
  <2>3. stored' \in Seq(Stored)
    BY <1>4, <1>5, <2>2, AppendProperties
  <2>4. \E bt : LaidOut(Append(stored, r), file', bt) /\ bt[Len(Append(stored, r)) + 1] = Len(file')
    BY <1>4, <1>5, <1>6, <1>8, <2>1, OneMore
  <2>5. PICK bt : LaidOut(stored', file', bt) /\ bt[Len(stored') + 1] = Len(file')
    BY <2>2, <2>4
  <2>6. Lie(bt)'
    BY <2>5 DEF Lie
  <2> QED
    BY <1>4, <1>6, <2>3, <2>6 DEF Inv
<1>10. CASE torn # 0
  <2>1. stored' = stored
    BY <1>2, <1>10
  <2>2. at[Len(stored) + 1] <= Len(file) /\ at[Len(stored) + 1] \in Nat
    BY <1>4, <1>8, RowInFile DEF LaidOut
  <2> HIDE DEF r
  <2>3. at[Len(stored) + 1] <= Len(file') /\ \A b \in 1 .. at[Len(stored) + 1] : file'[b] = file[b]
    BY <1>4, <1>5, <1>6, <2>2
  <2>4. LaidOut(stored, file', at)
    BY <1>4, <1>6, <1>8, <2>3, Behind
  <2>5. Lie(at)'
    BY <1>4, <1>10, <2>1, <2>4 DEF Lie
  <2> QED
    BY <1>4, <1>6, <2>1, <2>5 DEF Inv
<1> QED
  BY <1>9, <1>10

\* Part of a record may lie behind the accounts from then on.
LEMMA TornInv ==
    ASSUME Inv, NEW c \in Credentials, RegisterTorn(c[1], c[2])
    PROVE  Inv'
<1> DEFINE u == c[1]
           p == c[2]
<1>1. u \in Username /\ p \in Digest
  BY CredentialParts
<1>2. PICK level \in RegisteredLevel :
          \E newFile \in TornWrites(file, Record(u, p, level), Len(file)) :
              appends' = appends + 1 /\ file' = newFile
  BY DEF RegisterTorn, Appended
<1>3. Record(u, p, level) \in Seq(Byte)
  BY <1>1, UserFileAssumption, RecordIs
<1>4. /\ file \in Seq(Byte) /\ stored \in Seq(Stored) /\ registering' \subseteq Credentials
      /\ torn' = torn + 1 /\ torn' \in Nat /\ torn' <= appends' /\ appends' \in Nat /\ torn' # 0
      /\ stored' = stored
  BY <1>2 DEF Inv, RegisterTorn
<1>5. /\ file' \in Seq(Byte) /\ Len(file') >= Len(file)
      /\ \A b \in 1 .. Len(file) : file'[b] = file[b]
  BY <1>2, <1>3, <1>4, TornKeeps
<1>6. PICK at : LaidOut(stored, file, at)
  BY DEF Inv, Lie
<1>7. at[Len(stored) + 1] <= Len(file) /\ at[Len(stored) + 1] \in Nat
  BY <1>4, <1>6, RowInFile DEF LaidOut
<1>8. at[Len(stored) + 1] <= Len(file') /\ \A b \in 1 .. at[Len(stored) + 1] : file'[b] = file[b]
  BY <1>4, <1>5, <1>7
<1>9. LaidOut(stored, file', at)
  BY <1>4, <1>5, <1>6, <1>8, Behind
<1>10. Lie(at)'
  BY <1>4, <1>9 DEF Lie
<1> QED
  BY <1>4, <1>5, <1>10 DEF Inv

LEMMA PermInv ==
    ASSUME Inv, NEW u \in Username, NEW level \in ConsoleLevel, Perm(u, level)
    PROVE  Inv'
<1> DEFINE scan == FindUser(file, u)
<1>1. level \in Byte
  BY UserFileAssumption DEF ANONYMOUS, USER, ADMIN, Byte
<1>2. /\ file' = IF scan.status = 1 THEN Pwrite(file, <<level>>, scan.offset + 1) ELSE file
      /\ stored' = change_permissions(stored, u, level)
      /\ registering' = registering /\ appends' = appends /\ torn' = torn
  BY DEF Perm
<1>3. file \in Seq(Byte) /\ stored \in Seq(Stored)
  BY DEF Inv
<1>4. PICK at : Lie(at)
  BY DEF Inv
<1>5. LaidOut(stored, file, at)
  BY <1>4 DEF Lie
<1>6. /\ file' \in Seq(Byte) /\ Len(file') = Len(file)
      /\ stored' \in Seq(Stored) /\ LaidOut(stored', file', at)
  BY <1>1, <1>2, <1>3, <1>5, PermWrites
<1>7. Len(stored') = Len(stored)
  BY <1>1, <1>2, <1>3, ChangeSets DEF Stored
<1>8. Lie(at)'
  BY <1>2, <1>4, <1>6, <1>7 DEF Lie
<1> QED
  BY <1>2, <1>6, <1>8 DEF Inv

LEMMA NextInv ==
    ASSUME Inv, [Next]_vars
    PROVE  Inv'
<1>1. ASSUME UNCHANGED <<file, stored, torn, appends>>, registering' \subseteq Credentials
      PROVE  Inv'
  BY <1>1 DEF Inv, Lie
<1>2. CASE Restart
  BY <1>1, <1>2 DEF Restart
<1>3. ASSUME NEW c \in Credentials, Login(c[1], c[2]) PROVE Inv'
  BY <1>1, <1>3 DEF Login, Inv
<1>4. ASSUME NEW c \in Credentials, RegisterTaken(c[1], c[2]) PROVE Inv'
  BY <1>1, <1>4 DEF RegisterTaken, Inv
<1>5. ASSUME NEW c \in Credentials, RegisterChecked(c[1], c[2]) PROVE Inv'
  BY <1>1, <1>5, CredentialParts DEF RegisterChecked, Inv
<1>6. ASSUME NEW c \in Credentials, RegisterAdded(c[1], c[2]) PROVE Inv'
  BY <1>6, AddedInv
<1>7. ASSUME NEW c \in Credentials, RegisterTorn(c[1], c[2]) PROVE Inv'
  BY <1>7, TornInv
<1>8. ASSUME NEW u \in Username, NEW level \in ConsoleLevel, Perm(u, level) PROVE Inv'
  BY <1>8, PermInv
<1>9. CASE UNCHANGED vars
  BY <1>1, <1>9 DEF vars, Inv
<1> QED
  BY <1>2, <1>3, <1>4, <1>5, <1>6, <1>7, <1>8, <1>9 DEF Next

LEMMA Invariance == Spec => []Inv
<1>1. Init => Inv
  BY InitInv
<1>2. Inv /\ [Next]_vars => Inv'
  BY NextInv
<1> QED
  BY <1>1, <1>2, PTL DEF Spec

-----------------------------------------------------------------------------
(***************************************************************************)
(* The theorems.                                                           *)
(***************************************************************************)

\* As long as no append has been cut short, every record that a scan meets is one
\* of an account, and whole.
LEMMA InvType == Inv => TypeOK
<1> SUFFICES ASSUME Inv PROVE TypeOK
  OBVIOUS
<1>1. file \in Seq(Byte) /\ stored \in Seq(Stored) /\ registering \subseteq Credentials /\ torn <= appends
  BY DEF Inv
<1>2. ASSUME torn = 0, NEW o \in Starts(file) PROVE IsWhole(file, o)
  <2>1. PICK at : LaidOut(stored, file, at) /\ at[Len(stored) + 1] = Len(file)
    BY <1>2 DEF Inv, Lie
  <2>2. From(file)[Len(file)] = {}
    <3>1. Len(file) \in Nat /\ Len(file) >= Len(file)
      BY <1>1
    <3> QED
      BY <1>1, <3>1, FromIs
  <2>3. Starts(file) = { at[i] : i \in 1 .. Len(stored) } \cup From(file)[at[Len(stored) + 1]]
    BY <1>1, <2>1, WalkLaidOut
  <2>4. PICK i \in 1 .. Len(stored) : o = at[i]
    BY <1>2, <2>1, <2>2, <2>3
  <2>5. stored[i] \in Stored /\ at[i] \in Nat
    BY <1>1, <2>1, RowInFile
  <2>6. LiesAt(file, at[i], stored[i])
    BY <2>1 DEF LaidOut
  <2> QED
    BY <1>1, <2>4, <2>5, <2>6, ReadsAccount
<1>3. Range(file) \subseteq Byte
  BY <1>1 DEF Range
<1> QED
  BY <1>1, <1>2, <1>3 DEF TypeOK

\* The variables of the user file always have their types, and a file without a
\* torn append is a row of whole records: init_user_db, the scans and the writes of
\* user_db.c keep it so.
THEOREM TypeCorrect == Spec => []TypeOK
  BY Invariance, InvType, PTL

LEMMA InvStored == Inv => StoredFound
<1> SUFFICES ASSUME Inv, NEW c \in Credentials,
                    check_credentials(stored, c[1], c[2]) # NotFound
             PROVE  LET i    == check_credentials(stored, c[1], c[2])
                        scan == CheckCredentials(file, c[1], c[2])
                    IN  scan.status = 1 /\ LevelAt(file, scan.offset) = stored[i].level
  BY DEF StoredFound
<1> DEFINE u == c[1]
           p == c[2]
           i == check_credentials(stored, u, p)
           scan == Scan(file, u, {p})
           found == Known(stored, u, {p})
<1>1. file \in Seq(Byte) /\ stored \in Seq(Stored)
  BY DEF Inv
<1>2. PICK at : LaidOut(stored, file, at)
  BY DEF Inv, Lie
<1>3. found = WithCredentials(stored, u, p)
  <2>1. DOMAIN stored = 1 .. Len(stored)
    BY <1>1
  <2> QED
    BY <2>1 DEF Known, WithCredentials, WithName
<1>4. i = First(found) /\ found # {}
  BY <1>3, FirstFinds DEF check_credentials
<1>5. /\ First(found) \in found
      /\ scan.status = 1 /\ scan.offset = at[First(found)]
  <2> DEFINE P == {p}
             known == Known(stored, u, P)
             sc == Scan(file, u, P)
  <2>1. known # {} => /\ First(known) \in known
                      /\ sc.status = 1 /\ sc.offset = at[First(known)]
    <3> HIDE DEF u, P
    <3> QED
      BY <1>1, <1>2, ScanFinds
  <2> QED
    BY <1>4, <2>1
<1>6. i \in 1 .. Len(stored) /\ scan.offset = at[i]
  BY <1>4, <1>5 DEF Known
<1> HIDE DEF i, scan, found
<1>7. stored[i] \in Stored /\ at[i] \in Nat /\ LiesAt(file, at[i], stored[i])
  BY <1>1, <1>2, <1>6, RowInFile DEF LaidOut
<1>8. LevelAt(file, at[i]) = stored[i].level
  BY <1>1, <1>7, ReadsAccount
<1> QED
  BY <1>5, <1>6, <1>8 DEF CheckCredentials, i, scan

\* The accounts that were answered OK before the first append that a full disk cut
\* short are found for ever, with the level that the console last gave them, for
\* any number of records, of any lengths and with anything behind them.
THEOREM StoredForEver == Spec => []StoredFound
  BY Invariance, InvStored, PTL

-----------------------------------------------------------------------------
(***************************************************************************)
(* The file implements the list of accounts.                               *)
(***************************************************************************)

\* The accounts that a walk meets from an offset on.
UsersFrom(f) ==
    LET from[o \in Nat] ==
          IF o >= Len(f) THEN << >>
          ELSE (IF IsWhole(f, o) THEN <<AccountAt(f, o)>> ELSE << >>) \o from[After(f, o)]
    IN  from

LEMMA UsersAre == \A f : Users(f) = UsersFrom(f)[0]
  BY DEF Users, UsersFrom

LEMMA UsersFromIs ==
    ASSUME NEW f \in Seq(Byte)
    PROVE  \A o \in Nat :
               UsersFrom(f)[o] =
                   IF o >= Len(f) THEN << >>
                   ELSE (IF IsWhole(f, o) THEN <<AccountAt(f, o)>> ELSE << >>)
                            \o UsersFrom(f)[After(f, o)]
<1> DEFINE N == Len(f)
           Read == { AccountAt(f, o) : o \in Nat }
           V == Seq(Read)
           base == [o \in Nat |-> << >>]
           here(o) == IF IsWhole(f, o) THEN <<AccountAt(f, o)>> ELSE << >>
           next == [o \in Nat |-> IF o < N THEN After(f, o) ELSE o + 1]
           step == [o \in Nat |-> [v \in V |-> here(o) \o v]]
<1>1. N \in Nat
  OBVIOUS
<1>2. \A o \in Nat : next[o] \in Nat /\ next[o] > o
  BY <1>1, AfterGrows
<1>3. next \in [Nat -> Nat] /\ Onward(next)
  BY <1>2 DEF Onward
<1>4. step \in [Nat -> [V -> V]] /\ base \in [Nat -> V]
  <2>1. ASSUME NEW o \in Nat, NEW v \in V PROVE here(o) \o v \in V
    <3>1. here(o) \in Seq(Read)
      <4>1. AccountAt(f, o) \in Read
        OBVIOUS
      <4> HIDE DEF Read
      <4> QED
        BY <4>1
    <3> HIDE DEF here, Read
    <3> QED
      BY <3>1, ConcatProperties
  <2> HIDE DEF here, V
  <2>2. step \in [Nat -> [V -> V]]
    BY <2>1
  <2> QED
    BY <2>2 DEF V
<1>5. PICK g \in [Nat -> V] : Computes(g, base, N, next, step)
  <2> HIDE DEF N, V, next, step, base
  <2> QED
    BY <1>1, <1>3, <1>4, WalkComputes
<1>6. \A o \in Nat : g[o] = IF o >= N THEN << >> ELSE here(o) \o g[After(f, o)]
  <2> SUFFICES ASSUME NEW o \in Nat
               PROVE  g[o] = IF o >= N THEN << >> ELSE here(o) \o g[After(f, o)]
    OBVIOUS
  <2>1. CASE o >= N
    BY <1>5, <2>1 DEF Computes
  <2>2. CASE ~(o >= N)
    <3>1. o < N
      BY <1>1, <2>2
    <3>2. next[o] = After(f, o) /\ g[next[o]] \in V
      BY <1>2, <3>1
    <3>3. step[o][g[next[o]]] = here(o) \o g[next[o]]
      <4> HIDE DEF here, V, next
      <4> QED
        BY <3>2
    <3>4. g[o] = step[o][g[next[o]]]
      BY <1>5, <2>2 DEF Computes
    <3> QED
      BY <2>2, <3>2, <3>3, <3>4
  <2> QED
    BY <2>1, <2>2
<1>7. \E h : h = [o \in Nat |-> IF o >= Len(f) THEN << >>
                                ELSE (IF IsWhole(f, o) THEN <<AccountAt(f, o)>> ELSE << >>)
                                         \o h[After(f, o)]]
  <2>1. g = [o \in Nat |-> IF o >= N THEN << >> ELSE here(o) \o g[After(f, o)]]
    <3> HIDE DEF here, N
    <3> QED
      BY <1>6
  <2> QED
    BY <2>1, ZenonT(60)
<1>8. UsersFrom(f) = [o \in Nat |-> IF o >= Len(f) THEN << >>
                                    ELSE (IF IsWhole(f, o) THEN <<AccountAt(f, o)>> ELSE << >>)
                                             \o UsersFrom(f)[After(f, o)]]
  BY <1>7, ZenonT(60) DEF UsersFrom
<1> QED
  BY <1>8

\* The rest of a sequence from one of its elements on.
LEMMA RestOf ==
    ASSUME NEW S, NEW s \in Seq(S), NEW k \in 1 .. Len(s)
    PROVE  SubSeq(s, k, Len(s)) = <<s[k]>> \o SubSeq(s, k + 1, Len(s))
<1> DEFINE n == Len(s)
           a == SubSeq(s, k, n)
           b == SubSeq(s, k + 1, n)
           one == <<s[k]>>
           c == one \o b
<1>1. n \in Nat /\ k \in Nat /\ k \in Int /\ k + 1 \in Int /\ n \in Int /\ k >= 1 /\ k <= n
  OBVIOUS
<1>2. \A i \in 1 .. n : s[i] \in S
  OBVIOUS
<1>3. (\A i \in k .. n : s[i] \in S) /\ \A i \in k + 1 .. n : s[i] \in S
  BY <1>1, <1>2
<1>4. one \in Seq(S) /\ Len(one) = 1 /\ one[1] = s[k]
  BY <1>1, <1>2
<1>5. /\ a \in Seq(S) /\ Len(a) = IF k <= n THEN n - k + 1 ELSE 0
      /\ \A i \in 1 .. n - k + 1 : a[i] = s[k + i - 1]
  BY <1>1, <1>3, SubSeqProperties
<1>6. /\ b \in Seq(S) /\ Len(b) = IF k + 1 <= n THEN n - (k + 1) + 1 ELSE 0
      /\ \A i \in 1 .. n - (k + 1) + 1 : b[i] = s[k + 1 + i - 1]
  BY <1>1, <1>3, SubSeqProperties
<1> HIDE DEF a, b, one
<1>7. /\ c \in Seq(S) /\ Len(c) = Len(one) + Len(b)
      /\ \A i \in 1 .. Len(one) + Len(b) : c[i] = IF i <= Len(one) THEN one[i] ELSE b[i - Len(one)]
  BY <1>4, <1>6, ConcatProperties
<1> HIDE DEF c, n
<1>8. Len(a) = n - k + 1 /\ Len(b) = n - k /\ Len(c) = n - k + 1
  BY <1>1, <1>4, <1>5, <1>6, <1>7
<1>9. ASSUME NEW i \in 1 .. n - k + 1 PROVE a[i] = c[i]
  <2>1. a[i] = s[k + i - 1]
    BY <1>5
  <2>2. CASE i = 1
    <3>1. k + i - 1 = k /\ c[1] = one[1]
      BY <1>1, <1>4, <1>7, <1>8, <2>2
    <3> QED
      BY <1>4, <2>1, <2>2, <3>1
  <2>3. CASE i > 1
    <3>1. i - 1 \in 1 .. n - (k + 1) + 1 /\ k + 1 + (i - 1) - 1 = k + i - 1
      BY <1>1, <2>3
    <3>2. b[i - 1] = s[k + 1 + (i - 1) - 1]
      BY <1>6, <3>1
    <3>3. i \in 1 .. Len(one) + Len(b) /\ ~(i <= Len(one)) /\ Len(one) = 1
      BY <1>1, <1>4, <1>8, <2>3
    <3>4. c[i] = b[i - 1]
      BY <1>7, <3>3
    <3> QED
      BY <2>1, <3>1, <3>2, <3>4
  <2>4. i = 1 \/ i > 1
    BY <1>1
  <2> QED
    BY <2>2, <2>3, <2>4
<1>10. a = c
  BY <1>5, <1>7, <1>8, <1>9, SeqEqual
<1> QED
  BY <1>10 DEF a, c, b, one, n

\* A row of accounts with nothing behind them is what the walk meets.
LEMMA UsersOfRow ==
    ASSUME NEW f \in Seq(Byte), NEW us \in Seq(Stored), NEW at, LaidOut(us, f, at),
           at[Len(us) + 1] = Len(f)
    PROVE  Users(f) = us
<1> DEFINE n == Len(us)
           Good == { k \in Nat : k >= n + 1 \/ k = 0 \/ UsersFrom(f)[at[k]] = SubSeq(us, k, n) }
<1>1. n \in Nat /\ Len(f) \in Nat
  OBVIOUS
<1>2. UsersFrom(f)[at[n + 1]] = SubSeq(us, n + 1, n)
  <2>1. SubSeq(us, n + 1, n) = << >>
    <3>1. n + 1 \in Int /\ n \in Int /\ n < n + 1
      BY <1>1
    <3> QED
      BY <3>1, SubSeqEmpty
  <2>2. at[n + 1] \in Nat /\ at[n + 1] >= Len(f)
    BY <1>1
  <2> QED
    BY <2>1, <2>2, UsersFromIs
<1>3. ASSUME NEW k \in 1 .. n, UsersFrom(f)[at[k + 1]] = SubSeq(us, k + 1, n)
      PROVE  UsersFrom(f)[at[k]] = SubSeq(us, k, n)
  <2>1. us[k] \in Stored /\ at[k] \in Nat
    BY RowInFile
  <2>2. LiesAt(f, at[k], us[k]) /\ at[k + 1] = at[k] + SizeOf(us[k])
    BY DEF LaidOut
  <2>3. /\ at[k] < Len(f) /\ IsWhole(f, at[k]) /\ After(f, at[k]) = at[k + 1]
        /\ UsernameAt(f, at[k]) = us[k].username /\ PasswordAt(f, at[k]) = us[k].password
        /\ LevelAt(f, at[k]) = us[k].level
    BY <2>1, <2>2, ReadsAccount
  <2>4. AccountAt(f, at[k]) = us[k]
    BY <2>1, <2>3 DEF AccountAt, Stored, AccountOf
  <2>5. ~(at[k] >= Len(f))
    BY <1>1, <2>1, <2>3
  <2>6. UsersFrom(f)[at[k]] = <<us[k]>> \o UsersFrom(f)[at[k + 1]]
    BY <2>1, <2>3, <2>4, <2>5, UsersFromIs
  <2>7. SubSeq(us, k, n) = <<us[k]>> \o SubSeq(us, k + 1, n)
    BY RestOf
  <2> QED
    BY <1>3, <2>6, <2>7
<1>4. \A k \in Nat : k >= n + 1 => k \in Good
  OBVIOUS
<1>5. ASSUME NEW k \in Nat, \A j \in Nat : j > k => j \in Good
      PROVE  k \in Good
  <2>1. CASE k \in 1 .. n
    <3>1. k + 1 \in Good
      BY <1>5, <2>1
    <3>2. UsersFrom(f)[at[k + 1]] = SubSeq(us, k + 1, n)
      <4>1. k + 1 = n + 1 \/ ~(k + 1 >= n + 1)
        BY <1>1, <2>1
      <4>2. k + 1 # 0
        BY <2>1
      <4> QED
        BY <1>2, <3>1, <4>1, <4>2
    <3> QED
      BY <1>3, <2>1, <3>2
  <2>2. CASE k \notin 1 .. n
    BY <1>1, <2>2
  <2> QED
    BY <2>1, <2>2
<1>6. \A k \in Nat : k \in Good
  <2>1. n + 1 \in Nat
    BY <1>1
  <2> HIDE DEF Good, n
  <2> QED
    BY <1>4, <1>5, <2>1, Downward
<1>7. UsersFrom(f)[at[1]] = SubSeq(us, 1, n)
  <2>1. 1 \in Good
    BY <1>6
  <2>2. CASE 1 >= n + 1
    <3>1. n = 0
      BY <1>1, <2>2
    <3> QED
      BY <1>2, <3>1
  <2> QED
    BY <2>1, <2>2
<1>8. at[1] = 0
  BY DEF LaidOut
<1>9. SubSeq(us, 1, n) = us
  <2>1. /\ 1 \in Int /\ n \in Int /\ \A i \in 1 .. n : us[i] \in Stored
    BY <1>1
  <2> DEFINE s == SubSeq(us, 1, n)
  <2>2. /\ s \in Seq(Stored) /\ Len(s) = IF 1 <= n THEN n - 1 + 1 ELSE 0
        /\ \A i \in 1 .. n - 1 + 1 : s[i] = us[1 + i - 1]
    BY <2>1, SubSeqProperties
  <2> HIDE DEF s
  <2>3. Len(s) = n
    BY <1>1, <2>2
  <2>4. ASSUME NEW i \in 1 .. n PROVE s[i] = us[i]
    <3>1. i \in 1 .. n - 1 + 1 /\ 1 + i - 1 = i
      BY <1>1
    <3> QED
      BY <2>2, <3>1
  <2> QED
    BY <2>2, <2>3, <2>4, SeqEqual DEF s
<1> QED
  BY <1>7, <1>8, <1>9, UsersAre

\* A file that is only a row of accounts.
Row(us, f, at) == LaidOut(us, f, at) /\ at[Len(us) + 1] = Len(f)

\* A scan of it finds the first account that it looks for, or nothing.
LEMMA ScanOfRow ==
    ASSUME NEW f \in Seq(Byte), NEW us \in Seq(Stored), NEW at, Row(us, f, at),
           NEW u, NEW passwords
    PROVE  LET found == Known(us, u, passwords)
               scan == Scan(f, u, passwords)
           IN  /\ found # {} => /\ scan.status = 1
                                /\ LevelAt(f, scan.offset) = us[First(found)].level
               /\ found = {} => scan.status = 0
<1> DEFINE found == Known(us, u, passwords)
           ends == Ends(f, u, passwords)
           scan == Scan(f, u, passwords)
<1>1. LaidOut(us, f, at) /\ at[Len(us) + 1] = Len(f) /\ Len(f) \in Nat
  BY DEF Row
<1>2. ASSUME found # {}
      PROVE  scan.status = 1 /\ LevelAt(f, scan.offset) = us[First(found)].level
  <2>1. First(found) \in found /\ scan.status = 1 /\ scan.offset = at[First(found)]
    BY <1>1, <1>2, ScanFinds
  <2> DEFINE i == First(found)
  <2>2. i \in 1 .. Len(us)
    BY <2>1 DEF Known
  <2> HIDE DEF i
  <2>3. us[i] \in Stored /\ at[i] \in Nat /\ LiesAt(f, at[i], us[i])
    BY <1>1, <2>2, RowInFile DEF LaidOut
  <2>4. LevelAt(f, at[i]) = us[i].level
    BY <2>3, ReadsAccount
  <2> QED
    BY <2>1, <2>4 DEF i
<1>3. ASSUME found = {} PROVE scan.status = 0
  <2>1. /\ ends \in SUBSET Nat
        /\ \A e \in ends : (\E k \in found : e = at[k]) \/ (e >= Len(f) /\ e < Len(f))
    BY <1>1, EndsAre
  <2>2. ends = {}
    BY <1>1, <1>3, <2>1
  <2> QED
    BY <2>2 DEF Scan
<1> QED
  BY <1>2, <1>3

LEMMA RowOfInv ==
    ASSUME Inv, torn = 0
    PROVE  /\ file \in Seq(Byte) /\ stored \in Seq(Stored) /\ Users(file) = stored
           /\ \E at : Row(stored, file, at)
<1>1. file \in Seq(Byte) /\ stored \in Seq(Stored)
  BY DEF Inv
<1>2. PICK at : LaidOut(stored, file, at) /\ at[Len(stored) + 1] = Len(file)
  BY DEF Inv, Lie
<1> QED
  BY <1>1, <1>2, UsersOfRow DEF Row

UsersStored == torn = 0 => Users(file) = stored

LEMMA UsersThen == Inv' => UsersStored'
<1>1. Inv => UsersStored
  BY RowOfInv DEF UsersStored
<1> QED
  BY <1>1, PTL

LEMMA SameOperators ==
    ASSUME NEW us, NEW u, NEW p, NEW l
    PROVE  /\ A!NotFound = NotFound
           /\ A!WithName(us, u) = WithName(us, u)
           /\ A!check_credentials(us, u, p) = check_credentials(us, u, p)
           /\ A!add_user(us, u, p, l) = add_user(us, u, p, l)
           /\ A!change_permissions(us, u, l) = change_permissions(us, u, l)
<1>1. A!NotFound = NotFound
  BY DEF A!NotFound, NotFound
<1>2. A!WithName(us, u) = WithName(us, u)
  BY DEF A!WithName, WithName
<1>3. A!WithCredentials(us, u, p) = WithCredentials(us, u, p)
  BY <1>2 DEF A!WithCredentials, WithCredentials
<1>4. \A S : A!First(S) = First(S)
  BY <1>1, FirstOf DEF A!First, A!Min
<1>5. A!add_user(us, u, p, l) = add_user(us, u, p, l)
  BY DEF A!add_user, add_user
<1> QED
  BY <1>1, <1>2, <1>3, <1>4, <1>5 DEF A!check_credentials, check_credentials,
     A!change_permissions, change_permissions

\* What the scans of the handlers say of the list of accounts.
LEMMA CredentialsChecked ==
    ASSUME Inv, torn = 0, NEW c \in Credentials
    PROVE  LET i    == check_credentials(stored, c[1], c[2])
               scan == CheckCredentials(file, c[1], c[2])
           IN  IF i = NotFound THEN scan.status = 0
               ELSE scan.status = 1 /\ LevelAt(file, scan.offset) = stored[i].level
<1> DEFINE u == c[1]
           P == {c[2]}
           found == Known(stored, u, P)
           scan == Scan(file, u, P)
<1>1. file \in Seq(Byte) /\ stored \in Seq(Stored) /\ \E at : Row(stored, file, at)
  BY RowOfInv
<1>2. /\ found # {} => /\ scan.status = 1
                       /\ LevelAt(file, scan.offset) = stored[First(found)].level
      /\ found = {} => scan.status = 0
  <2> HIDE DEF u, P
  <2> QED
    BY <1>1, ScanOfRow
<1>3. found = WithCredentials(stored, u, c[2])
  <2>1. DOMAIN stored = 1 .. Len(stored)
    BY <1>1
  <2> QED
    BY <2>1 DEF Known, WithCredentials, WithName
<1>4. found \in SUBSET (1 .. Len(stored))
  BY DEF Known
<1>5. found \in SUBSET Nat /\ 0 \notin found
  <2>1. Len(stored) \in Nat
    BY <1>1
  <2> HIDE DEF found
  <2>2. \A k \in found : k \in 1 .. Len(stored)
    BY <1>4
  <2> QED
    BY <2>1, <2>2
<1>6. First(found) = NotFound <=> found = {}
  <2> HIDE DEF found
  <2> QED
    BY <1>5, FirstFinds DEF NotFound
<1> QED
  BY <1>2, <1>3, <1>6 DEF CheckCredentials, check_credentials

LEMMA UserFound ==
    ASSUME Inv, torn = 0, NEW u
    PROVE  FindUser(file, u).status = IF WithName(stored, u) = {} THEN 0 ELSE 1
<1> DEFINE P == [1 .. PASSWORD_LEN -> Byte]
           found == Known(stored, u, P)
           scan == Scan(file, u, P)
<1>1. file \in Seq(Byte) /\ stored \in Seq(Stored) /\ \E at : Row(stored, file, at)
  BY RowOfInv
<1>2. (found # {} => scan.status = 1) /\ (found = {} => scan.status = 0)
  <2> HIDE DEF P
  <2> QED
    BY <1>1, ScanOfRow
<1>3. found = WithName(stored, u)
  <2>1. ASSUME NEW k \in 1 .. Len(stored) PROVE stored[k].password \in P
    <3>1. stored[k] \in Stored
      BY <1>1
    <3>2. stored[k].password \in Seq(Byte) /\ Len(stored[k].password) = PASSWORD_LEN
      BY <3>1, StoredParts
    <3> QED
      BY <3>2
  <2>2. DOMAIN stored = 1 .. Len(stored)
    BY <1>1
  <2> QED
    BY <2>1, <2>2 DEF Known, WithName
<1> QED
  BY <1>2, <1>3 DEF FindUser

LEMMA InitRefines == Init => A!Init
<1> SUFFICES ASSUME Init PROVE A!Init
  OBVIOUS
<1>1. Inv /\ torn = 0 /\ stored = << >> /\ reply = NoReply
  BY InitInv DEF Init
<1>2. Users(file) = << >>
  BY <1>1, RowOfInv
<1> QED
  BY <1>1, <1>2 DEF A!Init, A!NoReply, NoReply

LEMMA StepRefines ==
    ASSUME Inv, Inv', [Next]_vars
    PROVE  [torn' = 0 => A!Next]_(A!vars)
<1> SUFFICES ASSUME torn' = 0 PROVE A!Next \/ UNCHANGED A!vars
  OBVIOUS
<1> DEFINE us == Users(file)
<1>1. torn = 0
  <2>1. torn' = torn \/ torn' = torn + 1
    BY DEF Next, vars, Restart, Login, RegisterTaken, RegisterChecked, RegisterAdded,
           RegisterTorn, Perm
  <2>2. torn \in Nat
    BY DEF Inv
  <2> QED
    BY <2>1, <2>2
<1>2. Users(file) = stored
  BY <1>1, RowOfInv
<1>3. Users(file)' = stored'
  BY UsersThen DEF UsersStored
<1>4. CASE UNCHANGED vars
  BY <1>4 DEF vars, A!vars
<1>5. CASE Restart
  BY <1>5 DEF Restart, A!Next, A!Restart, A!NoReply, NoReply
<1>6. ASSUME NEW c \in Credentials, Login(c[1], c[2]) PROVE A!Next
  <2> DEFINE i == check_credentials(stored, c[1], c[2])
             scan == CheckCredentials(file, c[1], c[2])
  <2>1. IF i = NotFound THEN scan.status = 0
        ELSE scan.status = 1 /\ LevelAt(file, scan.offset) = stored[i].level
    BY <1>1, CredentialsChecked
  <2>2. reply' = LoginAnswer(scan) /\ file' = file
    BY <1>6 DEF Login
  <2>3. reply' = IF i = NotFound THEN Answer("INVALID_CREDENTIALS") ELSE Granted(stored[i].level)
    <3> HIDE DEF i, scan
    <3>1. CASE i = NotFound
      BY <2>1, <2>2, <3>1 DEF LoginAnswer
    <3>2. CASE i # NotFound
      BY <2>1, <2>2, <3>2 DEF LoginAnswer
    <3> QED
      BY <3>1, <3>2
  <2>4. A!Login(c[1], c[2])
    BY <1>2, <2>2, <2>3, SameOperators DEF A!Login, A!Answer, A!Granted, Answer, Granted
  <2> QED
    BY <2>4 DEF A!Next
<1>7. ASSUME NEW c \in Credentials, RegisterTaken(c[1], c[2]) PROVE A!Next
  <2>1. check_credentials(stored, c[1], c[2]) # NotFound
    BY <1>1, <1>7, CredentialsChecked DEF RegisterTaken
  <2>2. A!Taken(c[1], c[2])
    BY <1>2, <1>7, <2>1, SameOperators DEF RegisterTaken, A!Taken, A!Answer, Answer
  <2> QED
    BY <2>2 DEF A!Next
<1>8. ASSUME NEW c \in Credentials, RegisterChecked(c[1], c[2]) PROVE UNCHANGED A!vars
  BY <1>8 DEF RegisterChecked, A!vars
<1>9. ASSUME NEW c \in Credentials, RegisterAdded(c[1], c[2]) PROVE A!Next
  <2>1. PICK level \in RegisteredLevel : stored' = add_user(stored, c[1], c[2], level)
    BY <1>1, <1>9 DEF RegisterAdded
  <2>2. A!Register(c[1], c[2], level)
    BY <1>2, <1>3, <1>9, <2>1, SameOperators DEF RegisterAdded, A!Register, A!Answer, Answer
  <2> QED
    BY <2>2 DEF A!Next
<1>10. ASSUME NEW c \in Credentials, RegisterTorn(c[1], c[2]) PROVE FALSE
  BY <1>1, <1>10 DEF RegisterTorn
<1>11. ASSUME NEW u \in Username, NEW level \in ConsoleLevel, Perm(u, level) PROVE A!Next
  <2> DEFINE scan == FindUser(file, u)
  <2>1. scan.status = IF WithName(stored, u) = {} THEN 0 ELSE 1
    BY <1>1, UserFound
  <2>2. reply' = PermAnswer(scan) /\ stored' = change_permissions(stored, u, level)
    BY <1>11 DEF Perm
  <2>3. reply' = Answer(IF WithName(stored, u) = {} THEN "unknown" ELSE "changed")
    <3> HIDE DEF scan
    <3>1. CASE WithName(stored, u) = {}
      BY <2>1, <2>2, <3>1 DEF PermAnswer
    <3>2. CASE WithName(stored, u) # {}
      BY <2>1, <2>2, <3>2 DEF PermAnswer
    <3> QED
      BY <3>1, <3>2
  <2>4. A!Perm(u, level)
    BY <1>2, <1>3, <2>2, <2>3, SameOperators DEF A!Perm, A!Answer, Answer
  <2>5. PICK c \in Credentials : u = c[1]
    BY DEF Username
  <2> QED
    BY <2>4, <2>5 DEF A!Next
<1> QED
  BY <1>4, <1>5, <1>6, <1>7, <1>8, <1>9, <1>10, <1>11 DEF Next

\* As long as no append is cut short, the bytes of the file with the scans and the
\* writes of user_db.c are the list of accounts of Accounts: whatever the usernames,
\* the digests and the number of the records.
THEOREM FileIsAccounts == Spec => ImplementsAccounts
<1>1. Inv /\ Inv' /\ [Next]_vars => [torn' = 0 => A!Next]_(A!vars)
  BY StepRefines
<1> QED
  BY <1>1, InitRefines, Invariance, PTL DEF Spec, ImplementsAccounts
=============================================================================
