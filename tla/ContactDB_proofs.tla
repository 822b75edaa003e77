--------------------------- MODULE ContactDB_proofs ---------------------------
(***************************************************************************)
(* The records of the contact file lie one behind the other where the walk *)
(* of the scans meets them, and none reaches into the next.  A write that  *)
(* leaves the sizes of the records leaves the walk, up to where it ended.  *)
(***************************************************************************)
EXTENDS ContactDB, Database_proofs

-----------------------------------------------------------------------------
(***************************************************************************)
(* The walk.                                                               *)
(***************************************************************************)

\* The offsets that a scan reads from one of them on, and where it stops.
From(f) ==
    LET from[o \in Nat] == IF o + 3 > Len(f) THEN {} ELSE {o} \cup from[After(f, o)]
    IN  from

EndFrom(f) ==
    LET end[o \in Nat] == IF o + 3 > Len(f) THEN o ELSE end[After(f, o)]
    IN  end

LEMMA SlotsFrom == \A f : Slots(f) = From(f)[0] /\ ScanEnd(f) = EndFrom(f)[0]
  BY DEF Slots, From, ScanEnd, EndFrom

\* A header inside the file has lengths, and the next one lies behind it.
LEMMA HeaderRead ==
    ASSUME NEW f \in Seq(Byte), NEW o \in Nat, o + 3 <= Len(f)
    PROVE  /\ Active(f, o) \in Byte /\ NameLength(f, o) \in Nat /\ PhoneLength(f, o) \in Nat
           /\ Size(f, o) = NameLength(f, o) + PhoneLength(f, o) /\ Size(f, o) \in Nat
           /\ After(f, o) = o + 3 + Size(f, o)
           /\ After(f, o) \in Nat /\ After(f, o) > o /\ After(f, o) >= o + 3
<1>1. o + 1 \in 1 .. Len(f) /\ o + 2 \in 1 .. Len(f) /\ o + 3 \in 1 .. Len(f)
  OBVIOUS
<1>2. f[o + 1] \in Byte /\ f[o + 2] \in Byte /\ f[o + 3] \in Byte
  BY <1>1
<1>3. f[o + 2] \in Nat /\ f[o + 3] \in Nat
  BY <1>2, ByteIsNat
<1>4. Active(f, o) \in Byte /\ NameLength(f, o) \in Nat /\ PhoneLength(f, o) \in Nat
  BY <1>2, <1>3 DEF Active, NameLength, PhoneLength
<1>5. Size(f, o) = NameLength(f, o) + PhoneLength(f, o) /\ After(f, o) = o + 3 + Size(f, o)
  BY DEF Size, After
<1> QED
  BY <1>4, <1>5

\* The first offset at which no header is whole.
NoHeader(f) == IF Len(f) < 3 THEN 0 ELSE Len(f) - 2

LEMMA NoHeaderIs ==
    ASSUME NEW f \in Seq(Byte)
    PROVE  NoHeader(f) \in Nat /\ \A o \in Nat : o >= NoHeader(f) <=> o + 3 > Len(f)
  BY DEF NoHeader

\* The recursive functions of the scans compute what their equations say.
LEMMA FromIs ==
    ASSUME NEW f \in Seq(Byte)
    PROVE  \A o \in Nat :
               From(f)[o] = IF o + 3 > Len(f) THEN {} ELSE {o} \cup From(f)[After(f, o)]
<1> DEFINE N == NoHeader(f)
           V == SUBSET Nat
           base == [o \in Nat |-> {}]
           next == [o \in Nat |-> IF o < N THEN After(f, o) ELSE o + 1]
           step == [o \in Nat |-> [v \in V |-> {o} \cup v]]
<1>1. N \in Nat /\ \A o \in Nat : o >= N <=> o + 3 > Len(f)
  BY NoHeaderIs
<1> HIDE DEF N
<1>2. \A o \in Nat : o < N => After(f, o) \in Nat /\ After(f, o) > o
  <2> SUFFICES ASSUME NEW o \in Nat, o < N PROVE After(f, o) \in Nat /\ After(f, o) > o
    OBVIOUS
  <2>1. o + 3 <= Len(f)
    BY <1>1
  <2> QED
    BY <2>1, HeaderRead
<1>3. next \in [Nat -> Nat] /\ Onward(next)
  BY <1>1, <1>2 DEF Onward
<1>4. step \in [Nat -> [V -> V]] /\ base \in [Nat -> V]
  OBVIOUS
<1>5. PICK g \in [Nat -> V] : Computes(g, base, N, next, step)
  <2> HIDE DEF V, next, step, base
  <2> QED
    BY <1>1, <1>3, <1>4, WalkComputes
<1>6. \A o \in Nat : g[o] = IF o + 3 > Len(f) THEN {} ELSE {o} \cup g[After(f, o)]
  <2> SUFFICES ASSUME NEW o \in Nat
               PROVE  g[o] = IF o + 3 > Len(f) THEN {} ELSE {o} \cup g[After(f, o)]
    OBVIOUS
  <2>1. CASE o >= N
    BY <1>1, <1>5, <2>1 DEF Computes
  <2>2. CASE ~(o >= N)
    <3>1. o < N
      BY <1>1, <2>2
    <3>2. next[o] = After(f, o) /\ g[next[o]] \in V
      BY <1>2, <3>1
    <3>3. step[o][g[next[o]]] = {o} \cup g[next[o]]
      BY <3>2
    <3> QED
      BY <1>1, <1>5, <2>2, <3>2, <3>3 DEF Computes
  <2> QED
    BY <2>1, <2>2
<1>7. \E h : h = [o \in Nat |-> IF o + 3 > Len(f) THEN {} ELSE {o} \cup h[After(f, o)]]
  <2>1. g = [o \in Nat |-> IF o + 3 > Len(f) THEN {} ELSE {o} \cup g[After(f, o)]]
    BY <1>6
  <2> QED
    BY <2>1
<1>8. From(f) = [o \in Nat |-> IF o + 3 > Len(f) THEN {} ELSE {o} \cup From(f)[After(f, o)]]
  BY <1>7 DEF From
<1> QED
  BY <1>8

LEMMA EndFromIs ==
    ASSUME NEW f \in Seq(Byte)
    PROVE  \A o \in Nat :
               EndFrom(f)[o] = IF o + 3 > Len(f) THEN o ELSE EndFrom(f)[After(f, o)]
<1> DEFINE N == NoHeader(f)
           V == Nat
           base == [o \in Nat |-> o]
           next == [o \in Nat |-> IF o < N THEN After(f, o) ELSE o + 1]
           step == [o \in Nat |-> [v \in V |-> v]]
<1>1. N \in Nat /\ \A o \in Nat : o >= N <=> o + 3 > Len(f)
  BY NoHeaderIs
<1> HIDE DEF N
<1>2. \A o \in Nat : o < N => After(f, o) \in Nat /\ After(f, o) > o
  <2> SUFFICES ASSUME NEW o \in Nat, o < N PROVE After(f, o) \in Nat /\ After(f, o) > o
    OBVIOUS
  <2>1. o + 3 <= Len(f)
    BY <1>1
  <2> QED
    BY <2>1, HeaderRead
<1>3. next \in [Nat -> Nat] /\ Onward(next)
  BY <1>1, <1>2 DEF Onward
<1>4. step \in [Nat -> [V -> V]] /\ base \in [Nat -> V]
  OBVIOUS
<1>5. PICK g \in [Nat -> V] : Computes(g, base, N, next, step)
  <2> HIDE DEF V, next, step, base
  <2> QED
    BY <1>1, <1>3, <1>4, WalkComputes
<1>6. \A o \in Nat : g[o] = IF o + 3 > Len(f) THEN o ELSE g[After(f, o)]
  <2> SUFFICES ASSUME NEW o \in Nat
               PROVE  g[o] = IF o + 3 > Len(f) THEN o ELSE g[After(f, o)]
    OBVIOUS
  <2>1. CASE o >= N
    BY <1>1, <1>5, <2>1 DEF Computes
  <2>2. CASE ~(o >= N)
    <3>1. o < N
      BY <1>1, <2>2
    <3>2. next[o] = After(f, o) /\ g[next[o]] \in V
      BY <1>2, <3>1
    <3>3. step[o][g[next[o]]] = g[next[o]]
      BY <3>2
    <3> QED
      BY <1>1, <1>5, <2>2, <3>2, <3>3 DEF Computes
  <2> QED
    BY <2>1, <2>2
<1>7. \E h : h = [o \in Nat |-> IF o + 3 > Len(f) THEN o ELSE h[After(f, o)]]
  <2>1. g = [o \in Nat |-> IF o + 3 > Len(f) THEN o ELSE g[After(f, o)]]
    BY <1>6
  <2> QED
    BY <2>1
<1>8. EndFrom(f) = [o \in Nat |-> IF o + 3 > Len(f) THEN o ELSE EndFrom(f)[After(f, o)]]
  BY <1>7 DEF EndFrom
<1> QED
  BY <1>8

\* A walk goes on to where the record ends, so that no record reaches into the next,
\* nor beyond where the walk ends.
LEMMA WalkOn ==
    ASSUME NEW f \in Seq(Byte), NEW o \in Nat
    PROVE  /\ EndFrom(f)[o] \in Nat /\ EndFrom(f)[o] >= o /\ EndFrom(f)[o] + 3 > Len(f)
           /\ \A p \in From(f)[o] :
                 /\ p \in Nat /\ p >= o /\ p + 3 <= Len(f) /\ After(f, p) <= EndFrom(f)[o]
                 /\ \A q \in From(f)[o] : p < q => After(f, p) <= q
<1> DEFINE Far(x) == EndFrom(f)[x] \in Nat /\ EndFrom(f)[x] >= x /\ EndFrom(f)[x] + 3 > Len(f)
           In(x, p) == p \in Nat /\ p >= x /\ p + 3 <= Len(f) /\ After(f, p) <= EndFrom(f)[x]
           Apart(x, p) == \A q \in From(f)[x] : p < q => After(f, p) <= q
           Good == { x \in Nat : Far(x) /\ \A p \in From(f)[x] : In(x, p) /\ Apart(x, p) }
<1>1. Len(f) \in Nat
  OBVIOUS
<1>2. ASSUME NEW x \in Nat, x + 3 > Len(f) PROVE x \in Good
  <2>1. From(f)[x] = {} /\ EndFrom(f)[x] = x
    BY <1>2, FromIs, EndFromIs
  <2> QED
    BY <1>2, <2>1
<1>3. ASSUME NEW x \in Nat, \A p \in Nat : p > x => p \in Good, x + 3 <= Len(f)
      PROVE  x \in Good
  <2> DEFINE y == After(f, x)
  <2>1. y \in Nat /\ y > x /\ y >= x + 3
    BY <1>3, HeaderRead
  <2>2. From(f)[x] = {x} \cup From(f)[y] /\ EndFrom(f)[x] = EndFrom(f)[y]
    <3>1. ~(x + 3 > Len(f))
      BY <1>1, <1>3
    <3> QED
      BY <3>1, FromIs, EndFromIs
  <2>3. y \in Good
    BY <1>3, <2>1
  <2>4. Far(y) /\ \A p \in From(f)[y] : In(y, p) /\ Apart(y, p)
    BY <2>3
  <2> HIDE DEF y, Good
  <2>5. Far(x)
    BY <2>1, <2>2, <2>4
  <2>6. In(x, x)
    BY <1>3, <2>2, <2>4 DEF y
  <2>7. Apart(x, x)
    BY <2>2, <2>4 DEF y
  <2>8. ASSUME NEW p \in From(f)[y] PROVE In(x, p) /\ Apart(x, p)
    <3>1. In(y, p) /\ Apart(y, p)
      BY <2>4
    <3>2. In(x, p) /\ p > x
      BY <2>1, <2>2, <3>1
    <3> QED
      BY <2>2, <3>1, <3>2
  <2> QED
    BY <2>2, <2>5, <2>6, <2>7, <2>8 DEF Good
<1>4. \A x \in Nat : x \in Good
  <2> DEFINE N == NoHeader(f)
  <2>1. N \in Nat /\ \A x \in Nat : x >= N <=> x + 3 > Len(f)
    BY NoHeaderIs
  <2>2. \A x \in Nat : (\A p \in Nat : p > x => p \in Good) => x \in Good
    <3> HIDE DEF Good
    <3> QED
      BY <1>1, <1>2, <1>3
  <2>3. \A x \in Nat : x >= N => x \in Good
    <3> HIDE DEF Good, N
    <3> QED
      BY <1>2, <2>1
  <2> HIDE DEF Good, N
  <2> QED
    BY <2>1, <2>2, <2>3, Downward
<1>5. o \in Good
  BY <1>4
<1> QED
  BY <1>5

\* The same of a whole scan.
LEMMA SlotsApart ==
    ASSUME NEW f \in Seq(Byte)
    PROVE  /\ ScanEnd(f) \in Nat /\ ScanEnd(f) + 3 > Len(f)
           /\ IsFiniteSet(Slots(f))
           /\ \A o \in Slots(f) :
                 /\ o \in Nat /\ o + 3 <= Len(f) /\ After(f, o) <= ScanEnd(f)
                 /\ \A p \in Slots(f) : o < p => After(f, o) <= p
<1>1. /\ ScanEnd(f) \in Nat /\ ScanEnd(f) + 3 > Len(f)
      /\ \A o \in Slots(f) :
            /\ o \in Nat /\ o + 3 <= Len(f) /\ After(f, o) <= ScanEnd(f)
            /\ \A p \in Slots(f) : o < p => After(f, o) <= p
  BY WalkOn, SlotsFrom
<1>2. Slots(f) \in SUBSET (0 .. Len(f))
  BY <1>1
<1>3. IsFiniteSet(0 .. Len(f))
  BY FS_Interval
<1> QED
  BY <1>1, <1>2, <1>3, FS_Subset

\* Two files in which the records that a scan of the first meets have the same sizes.
SameSizes(f, g) ==
    Len(f) <= Len(g) /\ \A o \in Slots(f) : Size(g, o) = Size(f, o)

\* A scan of the second meets them too, and goes on where the other ended.
LEMMA Reframe ==
    ASSUME NEW f \in Seq(Byte), NEW g \in Seq(Byte), SameSizes(f, g)
    PROVE  /\ Slots(g) = Slots(f) \cup From(g)[ScanEnd(f)]
           /\ ScanEnd(g) = EndFrom(g)[ScanEnd(f)]
<1> DEFINE Same(x) == \A p \in From(f)[x] : Size(g, p) = Size(f, p)
           Goes(x) == /\ From(g)[x] = From(f)[x] \cup From(g)[EndFrom(f)[x]]
                      /\ EndFrom(g)[x] = EndFrom(g)[EndFrom(f)[x]]
           Good == { x \in Nat : Same(x) => Goes(x) }
<1>1. Len(f) \in Nat /\ Len(g) \in Nat /\ Len(f) <= Len(g)
  BY DEF SameSizes
<1>2. ASSUME NEW x \in Nat, x + 3 > Len(f) PROVE x \in Good
  <2>1. From(f)[x] = {} /\ EndFrom(f)[x] = x
    BY <1>2, FromIs, EndFromIs
  <2> QED
    BY <2>1
<1>3. ASSUME NEW x \in Nat, \A p \in Nat : p > x => p \in Good, x + 3 <= Len(f)
      PROVE  x \in Good
  <2> SUFFICES ASSUME Same(x) PROVE Goes(x)
    OBVIOUS
  <2> DEFINE y == After(f, x)
  <2>1. y \in Nat /\ y > x
    BY <1>3, HeaderRead
  <2>2. From(f)[x] = {x} \cup From(f)[y] /\ EndFrom(f)[x] = EndFrom(f)[y]
    <3>1. ~(x + 3 > Len(f))
      BY <1>1, <1>3
    <3> QED
      BY <3>1, FromIs, EndFromIs
  <2>3. After(g, x) = y
    <3>1. Size(g, x) = Size(f, x)
      BY <2>2
    <3> QED
      BY <3>1 DEF After
  <2>4. From(g)[x] = {x} \cup From(g)[y] /\ EndFrom(g)[x] = EndFrom(g)[y]
    <3>1. ~(x + 3 > Len(g))
      BY <1>1, <1>3
    <3>2. /\ From(g)[x] = {x} \cup From(g)[After(g, x)]
          /\ EndFrom(g)[x] = EndFrom(g)[After(g, x)]
      BY <3>1, FromIs, EndFromIs
    <3> QED
      BY <2>3, <3>2
  <2>5. Same(y)
    BY <2>2
  <2>6. Goes(y)
    <3> HIDE DEF Same, Goes, y
    <3> QED
      BY <1>3, <2>1, <2>5
  <2> HIDE DEF y
  <2> QED
    BY <2>2, <2>4, <2>6
<1>4. \A x \in Nat : x \in Good
  <2> DEFINE N == NoHeader(f)
  <2>1. N \in Nat /\ \A x \in Nat : x >= N <=> x + 3 > Len(f)
    BY NoHeaderIs
  <2>2. \A x \in Nat : (\A p \in Nat : p > x => p \in Good) => x \in Good
    <3> HIDE DEF Good
    <3> QED
      BY <1>1, <1>2, <1>3
  <2>3. \A x \in Nat : x >= N => x \in Good
    <3> HIDE DEF Good, N
    <3> QED
      BY <1>2, <2>1
  <2> HIDE DEF Good, N
  <2> QED
    BY <2>1, <2>2, <2>3, Downward
<1>5. Same(0)
  BY SlotsFrom DEF SameSizes
<1>6. Goes(0)
  BY <1>4, <1>5
<1> QED
  BY <1>6, SlotsFrom

-----------------------------------------------------------------------------
(***************************************************************************)
(* What a scan reads of a record, and when it stays what it was.           *)
(***************************************************************************)

\* A read beyond the end of the file is short.
LEMMA PreadShort ==
    ASSUME NEW f \in Seq(Byte), NEW count \in Nat, NEW offset \in Nat,
           offset + count > Len(f), count > 0
    PROVE  Len(Pread(f, count, offset)) \in Nat /\ Len(Pread(f, count, offset)) < count
<1> DEFINE l == Len(f)
           s == SubSeq(f, offset + 1, l)
<1>1. l \in Nat /\ Pread(f, count, offset) = s
  BY DEF Pread, Min
<1>2. \A i \in offset + 1 .. l : f[i] \in Byte
  <2>1. \A i \in offset + 1 .. l : i \in 1 .. l
    OBVIOUS
  <2> QED
    BY <2>1
<1>3. Len(s) = IF offset + 1 <= l THEN l - (offset + 1) + 1 ELSE 0
  BY <1>1, <1>2, SubSeqProperties
<1> HIDE DEF s
<1> QED
  BY <1>1, <1>3

\* What is read of a part of the file depends on nothing else.
LEMMA PreadSame ==
    ASSUME NEW f \in Seq(Byte), NEW g \in Seq(Byte), NEW count \in Nat, NEW offset \in Nat,
           offset + count <= Len(f), offset + count <= Len(g),
           \A i \in offset + 1 .. offset + count : g[i] = f[i]
    PROVE  Pread(g, count, offset) = Pread(f, count, offset)
<1> DEFINE s == Pread(f, count, offset)
           t == Pread(g, count, offset)
<1>1. s \in Seq(Byte) /\ Len(s) = count /\ \A i \in 1 .. count : s[i] = f[offset + i]
  BY PreadInside
<1>2. t \in Seq(Byte) /\ Len(t) = count /\ \A i \in 1 .. count : t[i] = g[offset + i]
  BY PreadInside
<1>3. \A i \in 1 .. count : g[offset + i] = f[offset + i]
  OBVIOUS
<1> HIDE DEF s, t
<1>4. Len(t) = Len(s) /\ \A i \in 1 .. Len(t) : t[i] = s[i]
  BY <1>1, <1>2, <1>3
<1>5. s = t
  BY <1>1, <1>2, <1>4, SeqEqual
<1> QED
  BY <1>5 DEF s, t

\* Which reads of a record are short.
LEMMA ShortIs ==
    ASSUME NEW f \in Seq(Byte), NEW o \in Nat, o + 3 <= Len(f)
    PROVE  /\ Len(NameAt(f, o)) < NameLength(f, o) <=> o + 3 + NameLength(f, o) > Len(f)
           /\ Len(NameAt(f, o)) = NameLength(f, o) <=> o + 3 + NameLength(f, o) <= Len(f)
           /\ Short(f, o) <=> After(f, o) > Len(f)
<1> DEFINE n == NameLength(f, o)
           l == PhoneLength(f, o)
           name == Pread(f, n, o + 3)
           phone == Pread(f, l, o + 3 + n)
<1>1. /\ n \in Nat /\ l \in Nat /\ Len(f) \in Nat /\ o + 3 \in Nat /\ o + 3 + n \in Nat
      /\ After(f, o) = o + 3 + (n + l)
  BY HeaderRead
<1>2. NameAt(f, o) = name /\ PhoneAt(f, o) = phone
  BY DEF NameAt, PhoneAt
<1> HIDE DEF n, l
<1>3. o + 3 + n <= Len(f) => Len(name) = n
  BY <1>1, PreadInside
<1>4. ASSUME o + 3 + n > Len(f) PROVE Len(name) \in Nat /\ Len(name) < n
  <2>1. n > 0
    BY <1>1, <1>4
  <2> QED
    BY <1>1, <1>4, <2>1, PreadShort
<1>5. ASSUME o + 3 + n + l <= Len(f) PROVE Len(phone) = l
  <2> DEFINE e == o + 3 + n
  <2>1. e \in Nat /\ e + l <= Len(f)
    BY <1>1, <1>5
  <2> HIDE DEF e
  <2>2. Len(Pread(f, l, e)) = l
    BY <1>1, <2>1, PreadInside
  <2> QED
    BY <2>2 DEF e
<1>6. ASSUME o + 3 + n + l > Len(f), o + 3 + n <= Len(f) PROVE Len(phone) < l
  <2> DEFINE e == o + 3 + n
  <2>1. e \in Nat /\ e + l > Len(f) /\ l > 0
    BY <1>1, <1>6
  <2> HIDE DEF e
  <2>2. Len(Pread(f, l, e)) < l
    BY <1>1, <2>1, PreadShort
  <2> QED
    BY <2>2 DEF e
<1> HIDE DEF name, phone
<1>7. Len(NameAt(f, o)) < n <=> o + 3 + n > Len(f)
  BY <1>1, <1>2, <1>3, <1>4
<1>8. Len(NameAt(f, o)) = n <=> o + 3 + n <= Len(f)
  BY <1>1, <1>2, <1>3, <1>4
<1>9. Short(f, o) <=> Len(NameAt(f, o)) < n \/ Len(PhoneAt(f, o)) < l
  BY DEF Short, n, l
<1>10. Short(f, o) <=> After(f, o) > Len(f)
  <2>1. CASE o + 3 + n > Len(f)
    <3>1. After(f, o) > Len(f)
      BY <1>1, <2>1
    <3> QED
      BY <1>7, <1>9, <2>1, <3>1
  <2>2. CASE o + 3 + n <= Len(f) /\ o + 3 + n + l > Len(f)
    <3>1. After(f, o) > Len(f)
      BY <1>1, <2>2
    <3> QED
      BY <1>2, <1>6, <1>9, <2>2, <3>1
  <2>3. CASE o + 3 + n <= Len(f) /\ o + 3 + n + l <= Len(f)
    <3>1. ~(After(f, o) > Len(f)) /\ ~(o + 3 + n > Len(f)) /\ ~(l < l)
      BY <1>1, <2>3
    <3> QED
      BY <1>2, <1>5, <1>7, <1>9, <2>3, <3>1
  <2> QED
    BY <1>1, <2>1, <2>2, <2>3
<1> QED
  BY <1>7, <1>8, <1>10 DEF n

\* A record that reads as it did: what was whole of it, since what was not may be
\* filled by a write behind it.
Kept(f, g, o) ==
    /\ Active(g, o) = Active(f, o)
    /\ NameLength(g, o) = NameLength(f, o) /\ PhoneLength(g, o) = PhoneLength(f, o)
    /\ o + 3 + NameLength(f, o) <= Len(f) => NameAt(g, o) = NameAt(f, o)
    /\ After(f, o) <= Len(f) => PhoneAt(g, o) = PhoneAt(f, o)

LEMMA KeptIs ==
    ASSUME NEW f \in Seq(Byte), NEW g \in Seq(Byte), NEW o \in Nat,
           o + 3 <= Len(f), Len(f) <= Len(g),
           \A i \in 1 .. Len(f) : i > o /\ i <= After(f, o) => g[i] = f[i]
    PROVE  Kept(f, g, o)
<1> DEFINE n == NameLength(f, o)
           l == PhoneLength(f, o)
           e == o + 3 + n
<1>1. /\ n \in Nat /\ l \in Nat /\ Len(f) \in Nat /\ Len(g) \in Nat /\ o + 3 \in Nat
      /\ After(f, o) = o + 3 + (n + l) /\ e \in Nat
  BY HeaderRead, SMTT(40)
<1>2. \A i \in 1 .. 3 : g[o + i] = f[o + i]
  <2> SUFFICES ASSUME NEW i \in 1 .. 3 PROVE g[o + i] = f[o + i]
    OBVIOUS
  <2> HIDE DEF n, l
  <2>1. i \in Nat /\ i >= 1 /\ i <= 3
    OBVIOUS
  <2>2. o + i \in Nat /\ o + i > o /\ o + i <= o + 3 /\ o + 3 <= o + 3 + (n + l)
    BY <1>1, <2>1
  <2>3. o + i <= Len(f) /\ o + i <= After(f, o)
    BY <1>1, <2>2
  <2>4. o + i \in 1 .. Len(f)
    BY <1>1, <2>2, <2>3
  <2> QED
    BY <2>2, <2>3, <2>4
<1>3. /\ Active(g, o) = Active(f, o)
      /\ NameLength(g, o) = n /\ PhoneLength(g, o) = l
  BY <1>2 DEF Active, NameLength, PhoneLength
<1> HIDE DEF n, l
<1>4. ASSUME e <= Len(f) PROVE NameAt(g, o) = NameAt(f, o)
  <2>1. ASSUME NEW i \in o + 3 + 1 .. o + 3 + n PROVE g[i] = f[i]
    <3>1. i \in 1 .. Len(f) /\ i > o /\ i <= After(f, o)
      BY <1>1, <1>4
    <3> QED
      BY <3>1
  <2>2. o + 3 + n <= Len(f) /\ o + 3 + n <= Len(g)
    BY <1>1, <1>4
  <2>3. Pread(g, n, o + 3) = Pread(f, n, o + 3)
    BY <1>1, <2>1, <2>2, PreadSame, SMTT(40)
  <2> QED
    BY <1>3, <2>3 DEF NameAt, n
<1>5. ASSUME After(f, o) <= Len(f) PROVE PhoneAt(g, o) = PhoneAt(f, o)
  <2>1. ASSUME NEW i \in e + 1 .. e + l PROVE g[i] = f[i]
    <3>1. i \in 1 .. Len(f) /\ i > o /\ i <= After(f, o)
      BY <1>1, <1>5
    <3> QED
      BY <3>1
  <2>2. e + l <= Len(f) /\ e + l <= Len(g)
    BY <1>1, <1>5
  <2> HIDE DEF e
  <2>3. Pread(g, l, e) = Pread(f, l, e)
    BY <1>1, <2>1, <2>2, PreadSame
  <2> QED
    BY <1>3, <2>3 DEF PhoneAt, n, l, e
<1> QED
  BY <1>3, <1>4, <1>5 DEF Kept, n, l, e

-----------------------------------------------------------------------------
(***************************************************************************)
(* The record of a request.                                                *)
(***************************************************************************)

\* The inserts that are not refused.
Accepted == { r \in InsertRequest : WellFormedInsert(r) }

\* What a record takes besides its header.
SizeOf(r) == Len(NameOf(r)) + Len(PhoneOf(r))

\* No length is truncated when it is stored in a byte.
LEMMA PartsOf ==
    ASSUME NEW r \in Accepted
    PROVE  /\ NameOf(r) \in Seq(Byte) /\ Len(NameOf(r)) \in 1 .. 127
           /\ PhoneOf(r) \in Seq(Byte) /\ Len(PhoneOf(r)) \in 1 .. 20
           /\ SizeOf(r) \in Nat
<1> DEFINE b == r.bytes[1]
           n == r.size
<1>1. /\ r.bytes \in Seq(Byte) /\ Len(r.bytes) = n /\ n \in Nat
      /\ n >= 3 /\ S8(b) \in 1 .. 128 /\ n - 1 - S8(b) \in 1 .. 20
  <2>1. r \in InsertRequest /\ WellFormedInsert(r)
    BY DEF Accepted
  <2>2. IsRequest(r)
    BY <2>1, RequestAssumption
  <2>3. r.bytes \in Seq(Byte) /\ n \in Nat
    BY <2>2 DEF IsRequest
  <2>4. Len(r.bytes) = n /\ n >= 3 /\ S8(b) \in 1 .. 128 /\ n - 1 - S8(b) \in 1 .. 20
    BY <2>1 DEF WellFormedInsert, MAX_CONTACT_NAME_LEN, MAX_PHONE_NUMBER_LENGTH
  <2> HIDE DEF n, b
  <2> QED
    BY <2>3, <2>4
<1>2. b \in Byte
  <2> HIDE DEF n
  <2>1. 1 \in 1 .. Len(r.bytes)
    BY <1>1
  <2> QED
    BY <1>1, <2>1
<1>3. b \in 1 .. 127 /\ n - 1 - b \in 1 .. 20 /\ n \in Nat
  <2> HIDE DEF b, n
  <2>1. b \in 0 .. 255
    BY <1>2 DEF Byte
  <2>2. S8(b) = IF b > 127 THEN b - 256 ELSE b
    BY DEF S8
  <2> QED
    BY <1>1, <2>1, <2>2
<1>4. \A i \in 1 .. n : r.bytes[i] \in Byte
  <2> HIDE DEF n
  <2> QED
    BY <1>1
<1>5. NameOf(r) = SubSeq(r.bytes, 2, 1 + b) /\ PhoneOf(r) = SubSeq(r.bytes, 2 + b, n)
  BY DEF NameOf, PhoneOf
<1> HIDE DEF b, n
<1>6. SubSeq(r.bytes, 2, 1 + b) \in Seq(Byte) /\ Len(SubSeq(r.bytes, 2, 1 + b)) = b
  <2>1. \A i \in 2 .. 1 + b : r.bytes[i] \in Byte
    <3>1. \A i \in 2 .. 1 + b : i \in 1 .. n
      BY <1>3
    <3> QED
      BY <1>4, <3>1
  <2>2. 2 \in Int /\ 1 + b \in Int
    BY <1>3
  <2>3. /\ SubSeq(r.bytes, 2, 1 + b) \in Seq(Byte)
        /\ Len(SubSeq(r.bytes, 2, 1 + b)) = IF 2 <= 1 + b THEN (1 + b) - 2 + 1 ELSE 0
    BY <2>1, <2>2, SubSeqProperties
  <2> QED
    BY <1>3, <2>3
<1>7. SubSeq(r.bytes, 2 + b, n) \in Seq(Byte) /\ Len(SubSeq(r.bytes, 2 + b, n)) = n - 1 - b
  <2>1. \A i \in 2 + b .. n : r.bytes[i] \in Byte
    <3>1. \A i \in 2 + b .. n : i \in 1 .. n
      BY <1>3
    <3> QED
      BY <1>4, <3>1
  <2>2. 2 + b \in Int /\ n \in Int
    BY <1>3
  <2>3. /\ SubSeq(r.bytes, 2 + b, n) \in Seq(Byte)
        /\ Len(SubSeq(r.bytes, 2 + b, n)) = IF 2 + b <= n THEN n - (2 + b) + 1 ELSE 0
    BY <2>1, <2>2, SubSeqProperties
  <2> QED
    BY <1>3, <2>3
<1>8. Len(NameOf(r)) \in 1 .. 127 /\ Len(PhoneOf(r)) \in 1 .. 20
  BY <1>3, <1>5, <1>6, <1>7
<1>9. SizeOf(r) \in Nat
  BY <1>8 DEF SizeOf
<1> QED
  BY <1>5, <1>6, <1>7, <1>8, <1>9

\* Where the parts of a record lie.
LEMMA RecordIs ==
    ASSUME NEW r \in Accepted
    PROVE  /\ Record(r) \in Seq(Byte) /\ Len(Record(r)) = 3 + SizeOf(r)
           /\ Record(r)[1] = 1
           /\ Record(r)[2] = Len(NameOf(r)) /\ Record(r)[3] = Len(PhoneOf(r))
           /\ \A i \in 1 .. Len(NameOf(r)) : Record(r)[3 + i] = NameOf(r)[i]
           /\ \A i \in 1 .. Len(PhoneOf(r)) :
                  Record(r)[3 + Len(NameOf(r)) + i] = PhoneOf(r)[i]
<1> DEFINE name == NameOf(r)
           phone == PhoneOf(r)
           head == <<1, Len(name), Len(phone)>>
           front == head \o name
<1>1. /\ name \in Seq(Byte) /\ Len(name) \in 1 .. 127
      /\ phone \in Seq(Byte) /\ Len(phone) \in 1 .. 20
  BY PartsOf
<1>2. Record(r) = (head \o name) \o phone
  BY DEF Record
<1>3. SizeOf(r) = Len(name) + Len(phone)
  BY DEF SizeOf
<1> HIDE DEF name, phone
<1>4. /\ head \in Seq(Byte) /\ Len(head) = 3
      /\ head[1] = 1 /\ head[2] = Len(name) /\ head[3] = Len(phone)
  <2>1. 1 \in Byte /\ Len(name) \in Byte /\ Len(phone) \in Byte
    BY <1>1 DEF Byte
  <2> QED
    BY <2>1
<1> HIDE DEF head
<1>5. /\ front \in Seq(Byte) /\ Len(front) = Len(head) + Len(name)
      /\ \A i \in 1 .. Len(head) + Len(name) :
             front[i] = IF i <= Len(head) THEN head[i] ELSE name[i - Len(head)]
  <2>1. head \in Seq(Byte) /\ name \in Seq(Byte)
    BY <1>1, <1>4
  <2> QED
    BY <2>1, ConcatProperties
<1> HIDE DEF front
<1> DEFINE all == front \o phone
<1>6. /\ all \in Seq(Byte) /\ Len(all) = Len(front) + Len(phone)
      /\ \A i \in 1 .. Len(front) + Len(phone) :
             all[i] = IF i <= Len(front) THEN front[i] ELSE phone[i - Len(front)]
  <2>1. front \in Seq(Byte) /\ phone \in Seq(Byte)
    BY <1>1, <1>5
  <2> QED
    BY <2>1, ConcatProperties
<1>7. all = Record(r)
  BY <1>2 DEF front
<1> HIDE DEF all
<1>8. Len(all) = 3 + SizeOf(r)
  BY <1>1, <1>3, <1>4, <1>5, <1>6
<1>9. all[1] = 1 /\ all[2] = Len(name) /\ all[3] = Len(phone)
  <2>1. \A i \in 1 .. 3 : all[i] = head[i]
    <3> SUFFICES ASSUME NEW i \in 1 .. 3 PROVE all[i] = head[i]
      OBVIOUS
    <3>1. all[i] = front[i]
      <4>1. i \in 1 .. Len(front) + Len(phone) /\ i <= Len(front)
        BY <1>1, <1>4, <1>5
      <4> QED
        BY <1>6, <4>1
    <3>2. front[i] = head[i]
      BY <1>1, <1>4, <1>5
    <3> QED
      BY <3>1, <3>2
  <2> QED
    BY <1>4, <2>1
<1>10. ASSUME NEW i \in 1 .. Len(name) PROVE all[3 + i] = name[i]
  <2> DEFINE j == 3 + i
  <2>1. /\ j \in 1 .. Len(front) + Len(phone) /\ j <= Len(front)
        /\ j \in 1 .. Len(head) + Len(name) /\ ~(j <= Len(head)) /\ j - Len(head) = i
    BY <1>1, <1>4, <1>5
  <2> HIDE DEF j
  <2>2. all[j] = front[j] /\ front[j] = name[i]
    BY <1>5, <1>6, <2>1
  <2> QED
    BY <2>2 DEF j
<1>11. ASSUME NEW i \in 1 .. Len(phone) PROVE all[3 + Len(name) + i] = phone[i]
  <2> DEFINE j == 3 + Len(name) + i
  <2>1. /\ j \in 1 .. Len(front) + Len(phone) /\ ~(j <= Len(front)) /\ j - Len(front) = i
    BY <1>1, <1>4, <1>5
  <2> HIDE DEF j
  <2>2. all[j] = phone[i]
    BY <1>6, <2>1
  <2> QED
    BY <2>2 DEF j
<1> QED
  BY <1>6, <1>7, <1>8, <1>9, <1>10, <1>11 DEF name, phone

\* What a scan reads of a record that is in the file.
LEMMA ReadsRecord ==
    ASSUME NEW g \in Seq(Byte), NEW p \in Nat, NEW r \in Accepted,
           p + 3 + SizeOf(r) <= Len(g),
           \A i \in 1 .. 3 + SizeOf(r) : g[p + i] = Record(r)[i]
    PROVE  /\ Active(g, p) = 1 /\ Size(g, p) = SizeOf(r) /\ After(g, p) = p + 3 + SizeOf(r)
           /\ NameLength(g, p) = Len(NameOf(r))
           /\ NameAt(g, p) = NameOf(r) /\ PhoneAt(g, p) = PhoneOf(r)
<1> DEFINE name == NameOf(r)
           phone == PhoneOf(r)
           n == Len(name)
           l == Len(phone)
           e == p + 3 + n
<1>1. /\ name \in Seq(Byte) /\ n \in 1 .. 127
      /\ phone \in Seq(Byte) /\ l \in 1 .. 20
  BY PartsOf
<1>2. /\ SizeOf(r) = n + l /\ Len(g) \in Nat /\ n \in Nat /\ l \in Nat
      /\ p + 3 \in Nat /\ e \in Nat /\ p + 3 + n <= Len(g) /\ e + l <= Len(g)
  <2>1. SizeOf(r) = n + l
    BY DEF SizeOf
  <2> HIDE DEF n, l
  <2> QED
    BY <1>1, <2>1
<1>3. /\ Record(r)[1] = 1 /\ Record(r)[2] = n /\ Record(r)[3] = l
      /\ \A i \in 1 .. n : Record(r)[3 + i] = name[i]
      /\ \A i \in 1 .. l : Record(r)[3 + n + i] = phone[i]
  BY RecordIs
<1> HIDE DEF name, phone, n, l
<1>4. Active(g, p) = 1 /\ NameLength(g, p) = n /\ PhoneLength(g, p) = l
  <2>1. 1 \in 1 .. 3 + SizeOf(r) /\ 2 \in 1 .. 3 + SizeOf(r) /\ 3 \in 1 .. 3 + SizeOf(r)
    BY <1>2
  <2>2. g[p + 1] = 1 /\ g[p + 2] = n /\ g[p + 3] = l
    BY <1>3, <2>1
  <2> QED
    BY <2>2 DEF Active, NameLength, PhoneLength
<1>5. Size(g, p) = SizeOf(r) /\ After(g, p) = p + 3 + SizeOf(r)
  BY <1>2, <1>4 DEF Size, After
<1>6. NameAt(g, p) = name
  <2> DEFINE s == Pread(g, n, p + 3)
  <2>1. s \in Seq(Byte) /\ Len(s) = n /\ \A i \in 1 .. n : s[i] = g[p + 3 + i]
    BY <1>2, PreadInside
  <2> HIDE DEF s
  <2>2. ASSUME NEW i \in 1 .. n PROVE s[i] = name[i]
    <3> DEFINE j == 3 + i
    <3>1. j \in 1 .. 3 + SizeOf(r) /\ p + 3 + i = p + j
      BY <1>2, SMTT(40)
    <3> HIDE DEF j
    <3>2. g[p + 3 + i] = Record(r)[j]
      BY <3>1
    <3> QED
      BY <1>3, <2>1, <3>2 DEF j
  <2>3. s = name
    BY <1>1, <2>1, <2>2, SeqEqual DEF n
  <2> QED
    BY <1>4, <2>3 DEF NameAt, s
<1>7. PhoneAt(g, p) = phone
  <2> DEFINE s == Pread(g, l, e)
  <2> HIDE DEF e
  <2>1. s \in Seq(Byte) /\ Len(s) = l /\ \A i \in 1 .. l : s[i] = g[e + i]
    BY <1>2, PreadInside
  <2> HIDE DEF s
  <2>2. ASSUME NEW i \in 1 .. l PROVE s[i] = phone[i]
    <3> DEFINE j == 3 + n + i
    <3>1. j \in 1 .. 3 + SizeOf(r) /\ e + i = p + j
      BY <1>2 DEF e
    <3> HIDE DEF j
    <3>2. g[e + i] = Record(r)[j]
      BY <3>1
    <3> QED
      BY <1>3, <2>1, <3>2 DEF j
  <2>3. s = phone
    BY <1>1, <2>1, <2>2, SeqEqual DEF l
  <2> QED
    BY <1>4, <2>3 DEF PhoneAt, s, e
<1> QED
  BY <1>4, <1>5, <1>6, <1>7 DEF name, phone, n

-----------------------------------------------------------------------------
(***************************************************************************)
(* The writes.                                                             *)
(***************************************************************************)

\* A record is written over a deleted one of the same size, or where the walk ends.
LEMMA AddOffsetIs ==
    ASSUME NEW f \in Seq(Byte), NEW size \in Nat, ~AddCorrupted(f, size),
           NEW p, p = AddOffset(f, size)
    PROVE  /\ p \in Nat
           /\ \/ p \in Slots(f) /\ Active(f, p) = 0 /\ Size(f, p) = size
              \/ FreeSlots(f, size) = {} /\ p = ScanEnd(f) /\ Len(f) <= p /\ p \notin Slots(f)
           /\ \A o \in Slots(f) : o # p => After(f, o) <= p \/ o >= p + 3 + size
<1> DEFINE free == FreeSlots(f, size)
<1>1. /\ ScanEnd(f) \in Nat /\ ScanEnd(f) + 3 > Len(f)
      /\ \A o \in Slots(f) :
            /\ o \in Nat /\ o + 3 <= Len(f) /\ After(f, o) <= ScanEnd(f)
            /\ \A q \in Slots(f) : o < q => After(f, o) <= q
  BY SlotsApart
<1>2. free \subseteq Slots(f) /\ \A o \in free : Active(f, o) = 0 /\ Size(f, o) = size
  BY DEF FreeSlots
<1>3. p = IF free # {} THEN Min(free) ELSE ScanEnd(f)
  BY DEF AddOffset
<1>4. free = {} => ~(ScanEnd(f) < Len(f))
  BY DEF AddCorrupted, Corrupted
<1> HIDE DEF free
<1>5. CASE free # {}
  <2>1. free \in SUBSET Nat
    BY <1>1, <1>2
  <2>2. p \in free
    BY <1>3, <1>5, <2>1, MinFinds
  <2>3. p \in Slots(f) /\ p \in Nat /\ Active(f, p) = 0 /\ Size(f, p) = size
    BY <1>1, <1>2, <2>2
  <2>4. After(f, p) = p + 3 + size
    BY <2>3 DEF After
  <2>5. ASSUME NEW o \in Slots(f), o # p PROVE After(f, o) <= p \/ o >= p + 3 + size
    <3>1. o \in Nat /\ (o < p \/ p < o)
      BY <1>1, <2>3, <2>5
    <3>2. o < p => After(f, o) <= p
      BY <1>1, <2>3
    <3>3. p < o => p + 3 + size <= o
      BY <1>1, <2>3, <2>4
    <3> QED
      BY <2>3, <3>1, <3>2, <3>3
  <2> QED
    BY <2>3, <2>5
<1>6. CASE free = {}
  <2>1. p = ScanEnd(f) /\ p \in Nat /\ Len(f) \in Nat /\ Len(f) <= p
    BY <1>1, <1>3, <1>4, <1>6
  <2>2. p \notin Slots(f)
    BY <1>1, <2>1
  <2> QED
    BY <1>1, <1>6, <2>1, <2>2 DEF free
<1> QED
  BY <1>5, <1>6

\* A write of a record, whole or in part, leaves the others as they were.
LEMMA PartWritten ==
    ASSUME NEW f \in Seq(Byte), NEW r \in Accepted, ~AddCorrupted(f, SizeOf(r)),
           NEW p, p = AddOffset(f, SizeOf(r)),
           NEW part \in Seq(Byte), Len(part) <= 3 + SizeOf(r),
           \A i \in 1 .. Len(part) : part[i] = Record(r)[i],
           p \in Slots(f) => Len(part) >= 3,
           NEW g, g = Pwrite(f, part, p)
    PROVE  /\ g \in Seq(Byte) /\ SameSizes(f, g)
           /\ \A o \in Slots(f) : o # p => Kept(f, g, o)
<1> DEFINE size == SizeOf(r)
           k == Len(part)
<1>1. /\ NameOf(r) \in Seq(Byte) /\ Len(NameOf(r)) \in 1 .. 127
      /\ PhoneOf(r) \in Seq(Byte) /\ Len(PhoneOf(r)) \in 1 .. 20
      /\ size \in Nat /\ size = Len(NameOf(r)) + Len(PhoneOf(r))
  BY PartsOf DEF SizeOf
<1> HIDE DEF size
<1>2. /\ p \in Nat
      /\ p \in Slots(f) => Size(f, p) = size
      /\ \A o \in Slots(f) : o # p => After(f, o) <= p \/ o >= p + 3 + size
  BY <1>1, AddOffsetIs DEF size
<1>3. /\ g \in Seq(Byte)
      /\ Len(g) = IF Len(f) < p + k THEN p + k ELSE Len(f)
      /\ \A i \in 1 .. k : g[p + i] = part[i]
      /\ \A i \in 1 .. Len(f) : i \notin p + 1 .. p + k => g[i] = f[i]
  BY <1>2, PwriteIs
<1>4. Len(f) \in Nat /\ k \in Nat /\ k <= 3 + size /\ Len(f) <= Len(g) /\ Len(g) \in Nat
  <2>1. Len(f) \in Nat /\ k \in Nat /\ k <= 3 + size
    BY DEF size
  <2> HIDE DEF k
  <2> QED
    BY <1>2, <1>3, <2>1
<1>5. \A i \in 1 .. k : g[p + i] = Record(r)[i]
  BY <1>3
<1>6. p \in Slots(f) => k >= 3
  OBVIOUS
<1> HIDE DEF k
<1>7. \A o \in Slots(f) : o \in Nat /\ o + 3 <= Len(f)
  BY SlotsApart
<1>8. ASSUME NEW o \in Slots(f), o # p PROVE Kept(f, g, o)
  <2>1. o \in Nat /\ o + 3 <= Len(f)
    BY <1>7
  <2>2. After(f, o) \in Nat
    BY <2>1, HeaderRead
  <2>3. ASSUME NEW i \in 1 .. Len(f), i > o, i <= After(f, o) PROVE g[i] = f[i]
    <3>1. After(f, o) <= p \/ o >= p + 3 + size
      BY <1>2, <1>8
    <3>2. i \in Nat /\ ~(i > p /\ i <= p + k)
      <4> DEFINE a == After(f, o)
      <4>1. p \in Nat /\ size \in Nat /\ k \in Nat /\ k <= 3 + size
        BY <1>1, <1>2, <1>4
      <4>2. i \in Nat /\ o \in Nat /\ a \in Nat /\ i > o /\ i <= a
        BY <1>4, <2>1, <2>2, <2>3
      <4>3. a <= p \/ o >= p + 3 + size
        BY <3>1
      <4> HIDE DEF a
      <4> QED
        BY <4>1, <4>2, <4>3
    <3>3. i \notin p + 1 .. p + k
      BY <1>2, <1>4, <3>2
    <3> QED
      BY <1>3, <3>3
  <2> QED
    BY <1>3, <1>4, <2>1, <2>3, KeptIs
<1>9. ASSUME NEW o \in Slots(f) PROVE Size(g, o) = Size(f, o)
  <2>1. CASE o # p
    <3>1. Kept(f, g, o)
      BY <1>8, <2>1
    <3> QED
      BY <3>1 DEF Kept, Size
  <2>2. CASE o = p
    <3>1. 2 \in 1 .. k /\ 3 \in 1 .. k
      BY <1>4, <1>6, <2>2
    <3>2. g[p + 2] = Len(NameOf(r)) /\ g[p + 3] = Len(PhoneOf(r))
      BY <1>5, <3>1, RecordIs
    <3>3. Size(g, p) = size
      BY <1>1, <3>2 DEF Size, NameLength, PhoneLength
    <3> QED
      BY <1>2, <2>2, <3>3
  <2> QED
    BY <2>1, <2>2
<1> QED
  BY <1>3, <1>4, <1>8, <1>9 DEF SameSizes

\* A file that has not grown by a header behind the walk is walked as before.
LEMMA SameWalk ==
    ASSUME NEW f \in Seq(Byte), NEW g \in Seq(Byte), SameSizes(f, g), ScanEnd(f) + 3 > Len(g)
    PROVE  Slots(g) = Slots(f) /\ ScanEnd(g) = ScanEnd(f)
<1>1. Slots(g) = Slots(f) \cup From(g)[ScanEnd(f)] /\ ScanEnd(g) = EndFrom(g)[ScanEnd(f)]
  BY Reframe
<1>2. ScanEnd(f) \in Nat
  BY SlotsApart
<1>3. From(g)[ScanEnd(f)] = {} /\ EndFrom(g)[ScanEnd(f)] = ScanEnd(f)
  BY <1>2, FromIs, EndFromIs
<1> QED
  BY <1>1, <1>3

\* An insert: one record more, or one that had been deleted.
LEMMA WholeWritten ==
    ASSUME NEW f \in Seq(Byte), NEW r \in Accepted, ~AddCorrupted(f, SizeOf(r)),
           NEW p, p = AddOffset(f, SizeOf(r)),
           NEW g, g = Pwrite(f, Record(r), p)
    PROVE  /\ g \in Seq(Byte) /\ SameSizes(f, g) /\ p + 3 + SizeOf(r) <= Len(g)
           /\ \A o \in Slots(f) : o # p => Kept(f, g, o)
           /\ Slots(g) = Slots(f) \cup {p}
           /\ IF p \in Slots(f) THEN ScanEnd(g) = ScanEnd(f) ELSE ScanEnd(g) = Len(g)
           /\ p \in Slots(f) /\ After(f, p) <= Len(f) => Len(g) = Len(f)
           /\ Active(g, p) = 1 /\ Size(g, p) = SizeOf(r) /\ After(g, p) = p + 3 + SizeOf(r)
           /\ NameLength(g, p) = Len(NameOf(r))
           /\ NameAt(g, p) = NameOf(r) /\ PhoneAt(g, p) = PhoneOf(r)
<1> DEFINE size == SizeOf(r)
           part == Record(r)
<1>1. size \in Nat /\ part \in Seq(Byte) /\ Len(part) = 3 + size
  BY PartsOf, RecordIs
<1> HIDE DEF size, part
<1>2. /\ p \in Nat
      /\ \/ p \in Slots(f) /\ Active(f, p) = 0 /\ Size(f, p) = size
         \/ p = ScanEnd(f) /\ Len(f) <= p /\ p \notin Slots(f)
  BY <1>1, AddOffsetIs DEF size
<1>3. /\ g \in Seq(Byte) /\ SameSizes(f, g)
      /\ \A o \in Slots(f) : o # p => Kept(f, g, o)
  <2>1. /\ Len(part) <= 3 + size /\ Len(part) >= 3
        /\ \A i \in 1 .. Len(part) : part[i] = Record(r)[i]
    BY <1>1 DEF part
  <2> QED
    BY <1>1, <2>1, PartWritten DEF size, part
<1>4. /\ Len(g) = IF Len(f) < p + (3 + size) THEN p + (3 + size) ELSE Len(f)
      /\ \A i \in 1 .. 3 + size : g[p + i] = part[i]
  <2>1. /\ Len(g) = IF Len(f) < p + Len(part) THEN p + Len(part) ELSE Len(f)
        /\ \A i \in 1 .. Len(part) : g[p + i] = part[i]
    BY <1>1, <1>2, PwriteIs, ZenonT(90) DEF part
  <2> QED
    BY <1>1, <2>1
<1>5. p + 3 + size <= Len(g) /\ Len(f) \in Nat /\ Len(g) \in Nat /\ Len(f) <= Len(g)
  BY <1>1, <1>2, <1>3, <1>4 DEF SameSizes
<1>6. /\ Active(g, p) = 1 /\ Size(g, p) = size /\ After(g, p) = p + 3 + size
      /\ NameLength(g, p) = Len(NameOf(r))
      /\ NameAt(g, p) = NameOf(r) /\ PhoneAt(g, p) = PhoneOf(r)
  <2>1. /\ p \in Nat /\ g \in Seq(Byte) /\ p + 3 + SizeOf(r) <= Len(g)
        /\ \A i \in 1 .. 3 + SizeOf(r) : g[p + i] = Record(r)[i]
    BY <1>2, <1>3, <1>4, <1>5 DEF size, part
  <2>2. /\ Active(g, p) = 1 /\ Size(g, p) = SizeOf(r) /\ After(g, p) = p + 3 + SizeOf(r)
        /\ NameLength(g, p) = Len(NameOf(r))
        /\ NameAt(g, p) = NameOf(r) /\ PhoneAt(g, p) = PhoneOf(r)
    BY <2>1, ReadsRecord
  <2> QED
    BY <2>2 DEF size
<1>7. CASE p \in Slots(f)
  <2>1. Size(f, p) = size /\ After(f, p) = p + 3 + size /\ After(f, p) <= ScanEnd(f)
    BY <1>2, <1>7, SlotsApart DEF After
  <2>2. ScanEnd(f) \in Nat /\ ScanEnd(f) + 3 > Len(f)
    BY SlotsApart
  <2>3. ScanEnd(f) + 3 > Len(g)
    BY <1>1, <1>2, <1>4, <2>1, <2>2
  <2>4. Slots(g) = Slots(f) /\ ScanEnd(g) = ScanEnd(f)
    BY <1>3, <2>3, SameWalk
  <2>5. After(f, p) <= Len(f) => Len(g) = Len(f)
    BY <1>1, <1>2, <1>4, <1>5, <2>1
  <2> QED
    BY <1>3, <1>5, <1>6, <1>7, <2>4, <2>5 DEF size
<1>8. CASE p \notin Slots(f)
  <2>1. p = ScanEnd(f) /\ Len(f) <= p
    BY <1>2, <1>8
  <2>2. Len(g) = p + 3 + size
    BY <1>1, <1>2, <1>4, <1>5, <2>1
  <2>3. Slots(g) = Slots(f) \cup From(g)[p] /\ ScanEnd(g) = EndFrom(g)[p]
    BY <1>3, <2>1, Reframe
  <2>4. From(g)[p] = {p} \cup From(g)[After(g, p)] /\ EndFrom(g)[p] = EndFrom(g)[After(g, p)]
    <3>1. ~(p + 3 > Len(g))
      BY <1>1, <1>2, <2>2
    <3> QED
      BY <1>2, <1>3, <3>1, FromIs, EndFromIs
  <2>5. After(g, p) = Len(g) /\ Len(g) + 3 > Len(g)
    BY <1>5, <1>6, <2>2
  <2>6. From(g)[Len(g)] = {} /\ EndFrom(g)[Len(g)] = Len(g)
    BY <1>3, <1>5, <2>5, FromIs, EndFromIs
  <2> QED
    BY <1>3, <1>5, <1>6, <1>8, <2>3, <2>4, <2>5, <2>6 DEF size
<1> QED
  BY <1>7, <1>8

\* A write that a full disk cuts short: nothing, or the first bytes of the record.
LEMMA TornWritten ==
    ASSUME NEW f \in Seq(Byte), NEW r \in Accepted, ~AddCorrupted(f, SizeOf(r)),
           NEW p, p = AddOffset(f, SizeOf(r)),
           NEW g \in TornWrites(f, Record(r), p)
    PROVE  /\ g \in Seq(Byte) /\ SameSizes(f, g)
           /\ \A o \in Slots(f) : o # p => Kept(f, g, o)
<1> DEFINE size == SizeOf(r)
           bytes == Record(r)
<1>1. size \in Nat /\ bytes \in Seq(Byte) /\ Len(bytes) = 3 + size
  BY PartsOf, RecordIs
<1>2. p \in Nat
  BY <1>1, AddOffsetIs
<1>3. CASE g = f
  <2>1. \A o \in Slots(f) : o \in Nat /\ o + 3 <= Len(f)
    BY SlotsApart
  <2>2. Len(f) <= Len(g) /\ Len(f) \in Nat
    BY <1>3
  <2>3. SameSizes(f, g)
    BY <1>3, <2>2 DEF SameSizes
  <2>4. \A o \in Slots(f) : Kept(f, g, o)
    BY <1>3 DEF Kept
  <2> QED
    BY <1>3, <2>3, <2>4
<1>4. ASSUME NEW k \in 1 .. Len(bytes) - 1, p + k >= Len(f), g = Pwrite(f, SubSeq(bytes, 1, k), p)
      PROVE  /\ g \in Seq(Byte) /\ SameSizes(f, g)
             /\ \A o \in Slots(f) : o # p => Kept(f, g, o)
  <2> DEFINE part == SubSeq(bytes, 1, k)
  <2> HIDE DEF bytes, size
  <2>1. k \in Nat /\ k <= 3 + size /\ k <= Len(bytes) /\ 1 \in Int /\ k \in Int
    BY <1>1
  <2>2. \A i \in 1 .. k : bytes[i] \in Byte
    <3>1. \A i \in 1 .. k : i \in 1 .. Len(bytes)
      BY <1>1, <2>1
    <3> QED
      BY <1>1, <3>1
  <2>3. /\ part \in Seq(Byte)
        /\ Len(part) = IF 1 <= k THEN k - 1 + 1 ELSE 0
        /\ \A i \in 1 .. k - 1 + 1 : part[i] = bytes[1 + i - 1]
    BY <2>1, <2>2, SubSeqProperties
  <2> HIDE DEF part
  <2>4. part \in Seq(Byte) /\ Len(part) = k /\ \A i \in 1 .. k : part[i] = bytes[i]
    <3>1. \A i \in 1 .. k : i \in 1 .. k - 1 + 1 /\ 1 + i - 1 = i
      BY <2>1
    <3> QED
      BY <2>1, <2>3, <3>1
  <2>5. p \in Slots(f) => Len(part) >= 3
    <3> SUFFICES ASSUME p \in Slots(f) PROVE Len(part) >= 3
      OBVIOUS
    <3>1. p + 3 <= Len(f)
      BY SlotsApart
    <3> QED
      BY <1>2, <1>4, <2>1, <2>4, <3>1
  <2>6. /\ part \in Seq(Byte) /\ Len(part) <= 3 + SizeOf(r)
        /\ \A i \in 1 .. Len(part) : part[i] = Record(r)[i]
        /\ g = Pwrite(f, part, p)
    BY <1>4, <2>1, <2>4 DEF part, bytes, size
  <2> QED
    BY <2>5, <2>6, PartWritten
<1>5. g = f \/ \E k \in 1 .. Len(bytes) - 1 : p + k >= Len(f) /\ g = Pwrite(f, SubSeq(bytes, 1, k), p)
  <2>1. g \in IF p + Len(bytes) <= Len(f) THEN {}
              ELSE {f} \cup { Pwrite(f, SubSeq(bytes, 1, k), p) :
                                k \in { j \in 1 .. Len(bytes) - 1 : p + j >= Len(f) } }
    BY DEF TornWrites
  <2> HIDE DEF bytes
  <2> QED
    BY <2>1
<1> QED
  BY <1>3, <1>4, <1>5

\* A delete clears one byte of the file.
LEMMA ByteCleared ==
    ASSUME NEW f \in Seq(Byte), NEW h \in Slots(f), NEW g, g = Pwrite(f, << 0 >>, h)
    PROVE  /\ g \in Seq(Byte) /\ Len(g) = Len(f) /\ SameSizes(f, g)
           /\ Slots(g) = Slots(f) /\ ScanEnd(g) = ScanEnd(f)
           /\ Active(g, h) = 0
           /\ \A o \in Slots(f) : o # h => Kept(f, g, o)
<1>1. /\ ScanEnd(f) \in Nat /\ ScanEnd(f) + 3 > Len(f)
      /\ \A o \in Slots(f) :
            /\ o \in Nat /\ o + 3 <= Len(f)
            /\ \A p \in Slots(f) : o < p => After(f, o) <= p
  BY SlotsApart
<1>2. h \in Nat /\ h + 3 <= Len(f) /\ Len(f) \in Nat
  BY <1>1
<1>3. <<0>> \in Seq(Byte) /\ Len(<<0>>) = 1 /\ <<0>>[1] = 0
  BY DEF Byte
<1>4. /\ g \in Seq(Byte) /\ Len(g) = Len(f) /\ g[h + 1] = 0
      /\ \A i \in 1 .. Len(f) : i # h + 1 => g[i] = f[i]
  <2> DEFINE zero == <<0>>
  <2>1. zero \in Seq(Byte) /\ Len(zero) = 1 /\ zero[1] = 0
    BY <1>3
  <2>2. g = Pwrite(f, zero, h)
    OBVIOUS
  <2> HIDE DEF zero
  <2>3. /\ g \in Seq(Byte)
        /\ Len(g) = IF Len(f) < h + Len(zero) THEN h + Len(zero) ELSE Len(f)
        /\ \A i \in 1 .. Len(zero) : g[h + i] = zero[i]
        /\ \A i \in 1 .. Len(f) : i \notin h + 1 .. h + Len(zero) => g[i] = f[i]
    BY <1>2, <2>1, <2>2, PwriteIs, SMTT(60)
  <2> QED
    BY <1>2, <2>1, <2>3
<1>5. ASSUME NEW o \in Slots(f), o # h PROVE Kept(f, g, o)
  <2>1. o \in Nat /\ o + 3 <= Len(f) /\ After(f, o) \in Nat /\ After(f, o) > o
    BY <1>1, HeaderRead
  <2>2. ASSUME NEW i \in 1 .. Len(f), i > o, i <= After(f, o) PROVE g[i] = f[i]
    <3>1. i \in Nat
      OBVIOUS
    <3>2. CASE o < h
      <4>1. After(f, o) <= h
        BY <1>1, <3>2
      <4>2. i < h + 1
        BY <1>2, <2>1, <2>2, <3>1, <4>1
      <4> QED
        BY <1>2, <1>4, <3>1, <4>2
    <3>3. CASE o > h
      <4>1. i > h + 1
        BY <1>2, <2>1, <2>2, <3>1, <3>3
      <4> QED
        BY <1>2, <1>4, <3>1, <4>1
    <3> QED
      BY <1>2, <1>5, <2>1, <3>2, <3>3
  <2> QED
    BY <1>2, <1>4, <2>1, <2>2, KeptIs, SMTT(60)
<1>6. ASSUME NEW o \in Slots(f) PROVE Size(g, o) = Size(f, o)
  <2>1. CASE o # h
    <3>1. Kept(f, g, o)
      BY <1>5, <2>1
    <3> QED
      BY <3>1 DEF Kept, Size
  <2>2. CASE o = h
    <3>1. h + 2 \in 1 .. Len(f) /\ h + 3 \in 1 .. Len(f) /\ h + 2 # h + 1 /\ h + 3 # h + 1
      BY <1>2
    <3>2. g[h + 2] = f[h + 2] /\ g[h + 3] = f[h + 3]
      BY <1>4, <3>1
    <3> QED
      BY <2>2, <3>2 DEF Size, NameLength, PhoneLength
  <2> QED
    BY <2>1, <2>2
<1>7. SameSizes(f, g)
  BY <1>2, <1>4, <1>6 DEF SameSizes
<1>8. Slots(g) = Slots(f) /\ ScanEnd(g) = ScanEnd(f)
  BY <1>1, <1>4, <1>7, SameWalk
<1> QED
  BY <1>4, <1>5, <1>7, <1>8 DEF Active

-----------------------------------------------------------------------------
(***************************************************************************)
(* The invariant.                                                          *)
(***************************************************************************)

\* The sizes of the records are sizes of contacts that clients insert.
SizesInserted == torn = 0 => \A o \in Slots(file) : Size(file, o) \in InsertedSize

Inv == TypeOK /\ WellFramed /\ SlotsBounded /\ AcknowledgedKept /\ SizesInserted

LEMMA AcceptedIs ==
    ASSUME NEW r \in Accepted
    PROVE  NameOf(r) \in InsertedName /\ SizeOf(r) \in InsertedSize
  BY DEF Accepted, InsertedName, InsertedSize, SizeOf

\* When the walk ends with the file, every record is whole.
LEMMA TilesWhole ==
    ASSUME NEW f \in Seq(Byte), ScanEnd(f) = Len(f)
    PROVE  \A o \in Slots(f) : ~Short(f, o) /\ After(f, o) <= Len(f)
<1> SUFFICES ASSUME NEW o \in Slots(f) PROVE ~Short(f, o) /\ After(f, o) <= Len(f)
  OBVIOUS
<1>1. o \in Nat /\ o + 3 <= Len(f) /\ After(f, o) <= Len(f)
  BY SlotsApart
<1>2. After(f, o) \in Nat /\ Len(f) \in Nat
  BY <1>1, HeaderRead
<1>3. ~(After(f, o) > Len(f))
  BY <1>1, <1>2
<1> QED
  BY <1>1, <1>3, ShortIs

\* A contact that reads as before has its name as before.
LEMMA NamedKept ==
    ASSUME NEW f \in Seq(Byte), NEW g \in Seq(Byte), SameSizes(f, g),
           NEW p, \A o \in Slots(f) : o # p => Kept(f, g, o), NEW name
    PROVE  Named(f, name) \ {p} \subseteq Named(g, name)
<1> SUFFICES ASSUME NEW o \in Named(f, name), o # p PROVE o \in Named(g, name)
  OBVIOUS
<1>1. /\ o \in Slots(f) /\ Active(f, o) = 1
      /\ NameLength(f, o) = Len(name) /\ NameAt(f, o) = name
  BY DEF Named, ActiveSlots
<1>2. Slots(f) \subseteq Slots(g)
  BY Reframe
<1>3. Kept(f, g, o) /\ o \in Nat /\ o + 3 <= Len(f)
  BY <1>1, SlotsApart
<1>4. o + 3 + NameLength(f, o) <= Len(f)
  <2>1. Len(NameAt(f, o)) = NameLength(f, o)
    BY <1>1
  <2> QED
    BY <1>3, <2>1, ShortIs
<1> QED
  BY <1>1, <1>2, <1>3, <1>4 DEF Kept, Named, ActiveSlots

\* The sets that the properties count.
LEMMA Finite ==
    ASSUME NEW f \in Seq(Byte)
    PROVE  /\ \A name : IsFiniteSet(Named(f, name)) /\ Cardinality(Named(f, name)) \in Nat
           /\ \A size : IsFiniteSet(SlotsOfSize(f, size)) /\ Cardinality(SlotsOfSize(f, size)) \in Nat
           /\ \A size : IsFiniteSet(ActiveOfSize(f, size)) /\ Cardinality(ActiveOfSize(f, size)) \in Nat
<1>1. IsFiniteSet(Slots(f))
  BY SlotsApart
<1>2. /\ \A name : Named(f, name) \subseteq Slots(f)
      /\ \A size : SlotsOfSize(f, size) \subseteq Slots(f) /\ ActiveOfSize(f, size) \subseteq Slots(f)
  BY DEF Named, ActiveSlots, SlotsOfSize, ActiveOfSize
<1>3. \A S : S \subseteq Slots(f) => IsFiniteSet(S) /\ Cardinality(S) \in Nat
  BY <1>1, FS_Subset, FS_CardinalityType
<1> QED
  BY <1>2, <1>3

LEMMA Emptied == Slots(<< >>) = {} /\ ScanEnd(<< >>) = 0
<1> DEFINE f == << >>
<1>1. f \in Seq(Byte) /\ 0 + 3 > Len(f) /\ 0 \in Nat
  OBVIOUS
<1> HIDE DEF f
<1>2. From(f)[0] = {} /\ EndFrom(f)[0] = 0
  BY <1>1, FromIs, EndFromIs
<1> QED
  BY <1>2, SlotsFrom DEF f

LEMMA InitInv == Init => Inv
<1> SUFFICES ASSUME Init PROVE Inv
  OBVIOUS
<1>1. /\ file = << >> /\ file \in Seq(Byte) /\ Len(file) = 0
      /\ up = TRUE /\ torn = 0 /\ MaxTorn \in Nat
  BY BoundAssumption DEF Init
<1>2. acked = [name \in InsertedName |-> 0] /\ peak = [size \in InsertedSize |-> 0]
  BY DEF Init
<1>3. Slots(file) = {} /\ ScanEnd(file) = 0
  BY <1>1, Emptied
<1>4. TypeOK
  BY <1>1, <1>2 DEF TypeOK
<1>5. WellFramed /\ SlotsBounded /\ SizesInserted
  BY <1>1, <1>3 DEF WellFramed, SlotsBounded, SizesInserted
<1>6. AcknowledgedKept
  <2>1. \A name \in InsertedName : acked[name] = 0 /\ Cardinality(Named(file, name)) \in Nat
    BY <1>1, <1>2, Finite
  <2> QED
    BY <2>1 DEF AcknowledgedKept
<1> QED
  BY <1>4, <1>5, <1>6 DEF Inv

\* The requests that leave the file as it is.
LEMMA UnchangedInv ==
    ASSUME Inv, UNCHANGED <<file, torn, acked, peak>>, up' \in BOOLEAN
    PROVE  Inv'
  BY DEF Inv, TypeOK, WellFramed, SlotsBounded, AcknowledgedKept, SizesInserted

\* An insert adds a record, or uses one of the same size again.
LEMMA InsertInv ==
    ASSUME Inv, NEW r \in InsertRequest, Insert(r)
    PROVE  Inv'
<1> DEFINE size == SizeOf(r)
           name == NameOf(r)
           p == AddOffset(file, size)
           g == Pwrite(file, Record(r), p)
<1>1. /\ r \in Accepted /\ ~AddCorrupted(file, size) /\ file' = g
      /\ acked' = [acked EXCEPT ![name] = @ + 1]
      /\ peak' = [peak EXCEPT ![size] = Max({@, Cardinality(ActiveOfSize(g, size))})]
      /\ up' = up /\ torn' = torn
  BY DEF Insert, SizeOf, Accepted
<1>2. /\ file \in Seq(Byte) /\ up \in BOOLEAN /\ torn \in 0 .. MaxTorn
      /\ acked \in [InsertedName -> Nat] /\ peak \in [InsertedSize -> Nat]
  BY DEF Inv, TypeOK
<1>3. name \in InsertedName /\ size \in InsertedSize /\ size \in Nat
  BY <1>1, AcceptedIs, PartsOf
<1>4. /\ g \in Seq(Byte) /\ SameSizes(file, g) /\ p + 3 + size <= Len(g)
      /\ \A o \in Slots(file) : o # p => Kept(file, g, o)
      /\ Slots(g) = Slots(file) \cup {p}
      /\ IF p \in Slots(file) THEN ScanEnd(g) = ScanEnd(file) ELSE ScanEnd(g) = Len(g)
      /\ p \in Slots(file) /\ After(file, p) <= Len(file) => Len(g) = Len(file)
      /\ Active(g, p) = 1 /\ Size(g, p) = size
      /\ NameLength(g, p) = Len(name) /\ NameAt(g, p) = name
  BY <1>1, <1>2, WholeWritten
<1>5. /\ p \in Nat
      /\ \/ p \in Slots(file) /\ Active(file, p) = 0 /\ Size(file, p) = size
         \/ FreeSlots(file, size) = {} /\ p \notin Slots(file)
  BY <1>1, <1>2, <1>3, AddOffsetIs
<1> HIDE DEF size, name, p, g
<1> DEFINE active == Cardinality(ActiveOfSize(g, size))
<1>6. active \in Nat /\ \A s : Cardinality(SlotsOfSize(g, s)) \in Nat
  BY <1>4, Finite
<1>7. /\ peak' \in [InsertedSize -> Nat]
      /\ peak'[size] >= peak[size] /\ peak'[size] >= active
      /\ \A s \in InsertedSize : s # size => peak'[s] = peak[s]
  <2>1. peak[size] \in Nat
    BY <1>2, <1>3
  <2>2. Max({peak[size], active}) = IF peak[size] < active THEN active ELSE peak[size]
    BY <1>6, <2>1, MaxOfTwo
  <2>3. peak' = [peak EXCEPT ![size] = IF peak[size] < active THEN active ELSE peak[size]]
    BY <1>1, <2>2
  <2> HIDE DEF active
  <2> QED
    BY <1>2, <1>3, <1>6, <2>1, <2>3
<1>8. acked' \in [InsertedName -> Nat]
  BY <1>1, <1>2, <1>3
<1>9. TypeOK'
  BY <1>1, <1>2, <1>4, <1>7, <1>8 DEF TypeOK
<1>10. WellFramed'
  <2> SUFFICES ASSUME torn = 0
               PROVE  /\ ScanEnd(g) = Len(g)
                      /\ \A o \in Slots(g) : Active(g, o) \in {0, 1} /\ ~Short(g, o)
    BY <1>1 DEF WellFramed
  <2>1. ScanEnd(file) = Len(file) /\ \A o \in Slots(file) : Active(file, o) \in {0, 1}
    BY DEF Inv, WellFramed
  <2>2. ScanEnd(g) = Len(g)
    <3>1. p \in Slots(file) => After(file, p) <= Len(file)
      BY <1>2, <2>1, TilesWhole
    <3> QED
      BY <1>4, <2>1, <3>1
  <2>3. \A o \in Slots(g) : ~Short(g, o)
    BY <1>4, <2>2, TilesWhole
  <2>4. \A o \in Slots(g) : Active(g, o) \in {0, 1}
    BY <1>4, <2>1 DEF Kept
  <2> QED
    BY <2>2, <2>3, <2>4
<1>11. SlotsBounded' /\ SizesInserted'
  <2> SUFFICES ASSUME torn = 0, NEW o \in Slots(g)
               PROVE  /\ Size(g, o) \in InsertedSize
                      /\ Cardinality(SlotsOfSize(g, Size(g, o))) <= peak'[Size(g, o)]
    BY <1>1 DEF SlotsBounded, SizesInserted
  <2> DEFINE s == Size(g, o)
  <2>1. \A q \in Slots(file) : Size(g, q) = Size(file, q)
    BY <1>4 DEF SameSizes
  <2>2. \A q \in Slots(file) :
           /\ Size(file, q) \in InsertedSize
           /\ Cardinality(SlotsOfSize(file, Size(file, q))) <= peak[Size(file, q)]
    BY DEF Inv, SlotsBounded, SizesInserted
  <2>3. s \in InsertedSize
    BY <1>3, <1>4, <2>1, <2>2
  <2> HIDE DEF s
  <2>4. peak[s] \in Nat /\ peak'[s] \in Nat /\ peak[size] \in Nat /\ peak'[size] \in Nat
    BY <1>2, <1>3, <1>7, <2>3
  <2>5. CASE s # size
    <3>1. o \in Slots(file) /\ s = Size(file, o)
      BY <1>4, <2>1, <2>5 DEF s
    <3>2. SlotsOfSize(g, s) = SlotsOfSize(file, s)
      BY <1>4, <2>1, <2>5 DEF SlotsOfSize
    <3>3. peak'[s] = peak[s]
      BY <1>7, <2>3, <2>5
    <3> QED
      BY <2>2, <2>3, <3>1, <3>2, <3>3 DEF s
  <2>6. CASE s = size /\ p \in Slots(file)
    <3>1. Slots(g) = Slots(file) /\ Size(file, p) = size
      BY <1>4, <1>5, <2>6
    <3>2. SlotsOfSize(g, size) = SlotsOfSize(file, size)
      BY <2>1, <3>1 DEF SlotsOfSize
    <3>3. Cardinality(SlotsOfSize(file, size)) <= peak[size]
      BY <2>2, <2>6, <3>1
    <3>4. Cardinality(SlotsOfSize(g, size)) \in Nat
      BY <1>6
    <3>5. Cardinality(SlotsOfSize(g, size)) <= peak'[size]
      BY <1>7, <2>4, <3>2, <3>3, <3>4
    <3> QED
      BY <2>3, <2>6, <3>5 DEF s
  <2>7. CASE s = size /\ p \notin Slots(file)
    <3>1. \A q \in Slots(file) : Active(file, q) \in {0, 1}
      BY DEF Inv, WellFramed
    <3>2. FreeSlots(file, size) = {}
      BY <1>5, <2>7
    <3>3. \A q \in Slots(file) : Size(file, q) = size => Active(file, q) = 1
      BY <3>1, <3>2 DEF FreeSlots
    <3>4. \A q \in Slots(g) : Size(g, q) = size => Active(g, q) = 1
      BY <1>4, <2>1, <3>3 DEF Kept
    <3>5. SlotsOfSize(g, size) = ActiveOfSize(g, size)
      BY <3>4 DEF SlotsOfSize, ActiveOfSize, ActiveSlots
    <3>6. Cardinality(SlotsOfSize(g, size)) <= peak'[size]
      BY <1>6, <1>7, <2>4, <3>5
    <3> QED
      BY <2>3, <2>7, <3>6 DEF s
  <2> QED
    BY <2>5, <2>6, <2>7
<1>12. AcknowledgedKept'
  <2> SUFFICES ASSUME NEW n \in InsertedName
               PROVE  acked'[n] <= Cardinality(Named(g, n))
    BY <1>1 DEF AcknowledgedKept
  <2>1. /\ IsFiniteSet(Named(file, n)) /\ Cardinality(Named(file, n)) \in Nat
        /\ IsFiniteSet(Named(g, n)) /\ Cardinality(Named(g, n)) \in Nat
    BY <1>2, <1>4, Finite
  <2>2. acked[n] \in Nat /\ acked[n] <= Cardinality(Named(file, n))
    BY <1>2 DEF Inv, AcknowledgedKept
  <2>3. p \notin Named(file, n)
    BY <1>5 DEF Named, ActiveSlots
  <2>4. Named(file, n) \subseteq Named(g, n)
    BY <1>2, <1>4, <2>3, NamedKept
  <2>5. CASE n # name
    <3>1. acked'[n] = acked[n]
      BY <1>1, <1>2, <2>5
    <3>2. Cardinality(Named(file, n)) <= Cardinality(Named(g, n))
      BY <2>1, <2>4, FS_Subset
    <3> QED
      BY <2>1, <2>2, <3>1, <3>2
  <2>6. CASE n = name
    <3>1. acked'[n] = acked[n] + 1
      BY <1>1, <1>2, <1>3, <2>6
    <3>2. p \in Named(g, n)
      BY <1>4, <2>6 DEF Named, ActiveSlots
    <3>3. Cardinality(Named(file, n) \cup {p}) = Cardinality(Named(file, n)) + 1
      BY <2>1, <2>3, FS_AddElement
    <3>4. Named(file, n) \cup {p} \subseteq Named(g, n)
      BY <2>4, <3>2
    <3>5. Cardinality(Named(file, n) \cup {p}) <= Cardinality(Named(g, n))
      BY <2>1, <3>4, FS_Subset
    <3> QED
      BY <2>1, <2>2, <3>1, <3>3, <3>5
  <2> QED
    BY <2>5, <2>6
<1> QED
  BY <1>9, <1>10, <1>11, <1>12 DEF Inv

\* A write that is cut short takes nothing away.
LEMMA TornInv ==
    ASSUME Inv, NEW r \in InsertRequest, InsertTorn(r)
    PROVE  Inv'
<1> DEFINE size == SizeOf(r)
           p == AddOffset(file, size)
<1>1. /\ r \in Accepted /\ ~AddCorrupted(file, size) /\ torn < MaxTorn /\ torn' = torn + 1
      /\ file' \in TornWrites(file, Record(r), p)
      /\ up' = FALSE /\ acked' = acked /\ peak' = peak
  BY DEF InsertTorn, Terminate, SizeOf, Accepted
<1>2. /\ file \in Seq(Byte) /\ torn \in 0 .. MaxTorn /\ MaxTorn \in Nat
      /\ acked \in [InsertedName -> Nat] /\ peak \in [InsertedSize -> Nat]
  BY BoundAssumption DEF Inv, TypeOK
<1>3. size \in Nat
  BY <1>1, PartsOf
<1>4. /\ file' \in Seq(Byte) /\ SameSizes(file, file')
      /\ \A o \in Slots(file) : o # p => Kept(file, file', o)
  BY <1>1, <1>2, TornWritten
<1>5. p \notin Slots(file) \/ Active(file, p) = 0
  BY <1>1, <1>2, <1>3, AddOffsetIs
<1> HIDE DEF size, p
<1>6. torn' \in 0 .. MaxTorn /\ torn' # 0
  BY <1>1, <1>2
<1>7. TypeOK'
  BY <1>1, <1>2, <1>4, <1>6 DEF TypeOK
<1>8. WellFramed' /\ SlotsBounded' /\ SizesInserted'
  BY <1>6 DEF WellFramed, SlotsBounded, SizesInserted
<1>9. AcknowledgedKept'
  <2> SUFFICES ASSUME NEW n \in InsertedName
               PROVE  acked[n] <= Cardinality(Named(file', n))
    BY <1>1 DEF AcknowledgedKept
  <2>1. /\ Cardinality(Named(file, n)) \in Nat
        /\ IsFiniteSet(Named(file', n)) /\ Cardinality(Named(file', n)) \in Nat
    BY <1>2, <1>4, Finite
  <2>2. acked[n] \in Nat /\ acked[n] <= Cardinality(Named(file, n))
    BY <1>2 DEF Inv, AcknowledgedKept
  <2>3. p \notin Named(file, n)
    BY <1>5 DEF Named, ActiveSlots
  <2>4. Named(file, n) \subseteq Named(file', n)
    BY <1>2, <1>4, <2>3, NamedKept
  <2>5. Cardinality(Named(file, n)) <= Cardinality(Named(file', n))
    BY <2>1, <2>4, FS_Subset
  <2> QED
    BY <2>1, <2>2, <2>5
<1> QED
  BY <1>7, <1>8, <1>9 DEF Inv

\* A delete leaves its record where it is, with one contact less of that name.
LEMMA DeleteInv ==
    ASSUME Inv, NEW r \in DeleteRequest, Delete(r)
    PROVE  Inv'
<1> DEFINE name == DeletedName(r)
           h == Min(Stops(file, name))
           g == Pwrite(file, <<0>>, h)
<1>1. /\ Stops(file, name) # {} /\ NameAt(file, h) = name /\ file' = g
      /\ acked' = IF name \in InsertedName /\ acked[name] > 0
                  THEN [acked EXCEPT ![name] = @ - 1] ELSE acked
      /\ up' = up /\ torn' = torn /\ peak' = peak
  BY DEF Delete
<1>2. /\ file \in Seq(Byte) /\ up \in BOOLEAN /\ torn \in 0 .. MaxTorn
      /\ acked \in [InsertedName -> Nat] /\ peak \in [InsertedSize -> Nat]
  BY DEF Inv, TypeOK
<1>3. h \in Stops(file, name)
  <2>1. Stops(file, name) \in SUBSET Nat
    BY <1>2, SlotsApart, SMTT(60) DEF Stops, ActiveSlots
  <2> QED
    BY <1>1, <2>1, MinFinds
<1>4. h \in Slots(file) /\ h \in Named(file, name)
  BY <1>1, <1>3, ZenonT(60) DEF Stops, Named, ActiveSlots
<1>5. /\ g \in Seq(Byte) /\ Len(g) = Len(file) /\ SameSizes(file, g)
      /\ Slots(g) = Slots(file) /\ ScanEnd(g) = ScanEnd(file)
      /\ Active(g, h) = 0
      /\ \A o \in Slots(file) : o # h => Kept(file, g, o)
  BY <1>2, <1>4, ByteCleared
<1> HIDE DEF name, h, g
<1>6. acked' \in [InsertedName -> Nat]
  <2>1. name \in InsertedName /\ acked[name] > 0 => acked[name] - 1 \in Nat
    BY <1>2
  <2> QED
    BY <1>1, <1>2, <2>1
<1>7. TypeOK'
  BY <1>1, <1>2, <1>5, <1>6 DEF TypeOK
<1>8. WellFramed'
  <2> SUFFICES ASSUME torn = 0
               PROVE  /\ ScanEnd(g) = Len(g)
                      /\ \A o \in Slots(g) : Active(g, o) \in {0, 1} /\ ~Short(g, o)
    BY <1>1 DEF WellFramed
  <2>1. ScanEnd(file) = Len(file) /\ \A o \in Slots(file) : Active(file, o) \in {0, 1}
    BY DEF Inv, WellFramed
  <2>2. ScanEnd(g) = Len(g)
    BY <1>5, <2>1
  <2>3. \A o \in Slots(g) : ~Short(g, o)
    BY <1>5, <2>2, TilesWhole
  <2>4. \A o \in Slots(g) : Active(g, o) \in {0, 1}
    BY <1>5, <2>1 DEF Kept
  <2> QED
    BY <2>2, <2>3, <2>4
<1>9. SlotsBounded' /\ SizesInserted'
  <2>1. \A o \in Slots(file) : Size(g, o) = Size(file, o)
    BY <1>5 DEF SameSizes
  <2>2. \A s : SlotsOfSize(g, s) = SlotsOfSize(file, s)
    BY <1>5, <2>1 DEF SlotsOfSize
  <2> SUFFICES ASSUME torn = 0, NEW o \in Slots(g)
               PROVE  /\ Size(g, o) \in InsertedSize
                      /\ Cardinality(SlotsOfSize(g, Size(g, o))) <= peak[Size(g, o)]
    BY <1>1 DEF SlotsBounded, SizesInserted
  <2>3. /\ Size(file, o) \in InsertedSize
        /\ Cardinality(SlotsOfSize(file, Size(file, o))) <= peak[Size(file, o)]
    BY <1>5 DEF Inv, SlotsBounded, SizesInserted
  <2> QED
    BY <1>5, <2>1, <2>2, <2>3
<1>10. AcknowledgedKept'
  <2> SUFFICES ASSUME NEW n \in InsertedName
               PROVE  acked'[n] <= Cardinality(Named(g, n))
    BY <1>1 DEF AcknowledgedKept
  <2>1. /\ IsFiniteSet(Named(file, n)) /\ Cardinality(Named(file, n)) \in Nat
        /\ IsFiniteSet(Named(g, n)) /\ Cardinality(Named(g, n)) \in Nat
    BY <1>2, <1>5, Finite
  <2>2. acked[n] \in Nat /\ acked[n] <= Cardinality(Named(file, n))
    BY <1>2 DEF Inv, AcknowledgedKept
  <2>3. Named(file, n) \ {h} \subseteq Named(g, n)
    BY <1>2, <1>5, NamedKept
  <2>4. Cardinality(Named(file, n) \ {h}) <= Cardinality(Named(g, n))
    BY <2>1, <2>3, FS_Subset
  <2>5. CASE n # name
    <3>1. acked'[n] = acked[n]
      BY <1>1, <1>2, <2>5
    <3>2. h \notin Named(file, n)
      BY <1>1, <2>5 DEF Named
    <3>3. Named(file, n) \ {h} = Named(file, n)
      BY <3>2
    <3> QED
      BY <2>1, <2>2, <2>4, <3>1, <3>3
  <2>6. CASE n = name
    <3>1. acked'[n] = IF acked[n] > 0 THEN acked[n] - 1 ELSE acked[n]
      BY <1>1, <1>2, <2>6
    <3>2. Cardinality(Named(file, n) \ {h}) = Cardinality(Named(file, n)) - 1
      BY <1>4, <2>1, <2>6, FS_RemoveElement
    <3> QED
      BY <2>1, <2>2, <2>4, <3>1, <3>2
  <2> QED
    BY <2>5, <2>6
<1> QED
  BY <1>7, <1>8, <1>9, <1>10 DEF Inv

\* Every step keeps the invariant.
LEMMA NextInv == Inv /\ [Next]_vars => Inv'
<1> SUFFICES ASSUME Inv, [Next]_vars PROVE Inv'
  OBVIOUS
<1>1. up \in BOOLEAN
  BY DEF Inv, TypeOK
<1>2. CASE UNCHANGED vars
  BY <1>1, <1>2, UnchangedInv DEF vars
<1>3. ASSUME NEW r \in InsertRequest, HandleInsert(r) PROVE Inv'
  <2>1. CASE RefuseInsert(r)
    BY <1>1, <2>1, UnchangedInv DEF RefuseInsert, Refuse
  <2>2. CASE Insert(r)
    BY <2>2, InsertInv
  <2>3. CASE InsertCorrupted(r)
    BY <2>3, UnchangedInv DEF InsertCorrupted, Terminate
  <2>4. CASE InsertTorn(r)
    BY <2>4, TornInv
  <2> QED
    BY <1>3, <2>1, <2>2, <2>3, <2>4 DEF HandleInsert
<1>4. ASSUME NEW r \in DeleteRequest, HandleDelete(r) PROVE Inv'
  <2>1. CASE RefuseDelete(r)
    BY <1>1, <2>1, UnchangedInv DEF RefuseDelete, Refuse
  <2>2. CASE Delete(r)
    BY <2>2, DeleteInv
  <2>3. CASE DeleteNotFound(r)
    BY <1>1, <2>3, UnchangedInv DEF DeleteNotFound
  <2>4. CASE DeleteCorrupted(r)
    BY <2>4, UnchangedInv DEF DeleteCorrupted, Terminate
  <2> QED
    BY <1>4, <2>1, <2>2, <2>3, <2>4 DEF HandleDelete
<1>5. ASSUME NEW r \in SearchRequest, HandleSearch(r) PROVE Inv'
  <2>1. CASE RefuseSearch(r)
    BY <1>1, <2>1, UnchangedInv DEF RefuseSearch, Refuse
  <2>2. CASE Search(r)
    BY <1>1, <2>2, UnchangedInv DEF Search
  <2>3. CASE SearchCorrupted(r)
    BY <2>3, UnchangedInv DEF SearchCorrupted, Terminate
  <2> QED
    BY <1>5, <2>1, <2>2, <2>3 DEF HandleSearch
<1>6. CASE Restart
  BY <1>6, UnchangedInv DEF Restart
<1> QED
  BY <1>2, <1>3, <1>4, <1>5, <1>6 DEF Next

LEMMA Invariance == Spec => []Inv
  BY InitInv, NextInv, PTL DEF Spec

LEMMA InvParts == Inv => TypeOK /\ WellFramed /\ SlotsBounded /\ AcknowledgedKept
  BY DEF Inv

\* Whatever is inserted, deleted and searched, and wherever a full disk cuts a write
\* short, the file is a sequence of bytes.
THEOREM TypeCorrect == Spec => []TypeOK
  BY Invariance, InvParts, PTL

\* As long as no write is cut short, the records tile the file, for contacts of any
\* lengths and however often their records are used again.
THEOREM RecordsTile == Spec => []WellFramed
  BY Invariance, InvParts, PTL

\* As long as no write is cut short, there are never more records of a size than
\* there have been contacts of that size at once.
THEOREM FragmentationBounded == Spec => []SlotsBounded
  BY Invariance, InvParts, PTL

\* A contact whose insert was answered OK is found until a delete of its name is
\* answered OK, wherever a full disk cuts other writes short.
THEOREM KeptUntilDeleted == Spec => []AcknowledgedKept
  BY Invariance, InvParts, PTL

-----------------------------------------------------------------------------
(***************************************************************************)
(* The file is a phone book.                                               *)
(***************************************************************************)

\* The first k of some hits.
FirstHits(hits, k) == { o \in hits : Cardinality(Before(hits, o)) < k }

\* They are as many as that, if there are.
LEMMA FirstHitsCount ==
    ASSUME NEW hits \in SUBSET Nat, IsFiniteSet(hits), NEW limit \in Nat
    PROVE  /\ Cardinality(hits) < limit => FirstHits(hits, limit) = hits
           /\ Cardinality(hits) >= limit => Cardinality(FirstHits(hits, limit)) = limit
<1> DEFINE all == Cardinality(hits)
           C(o) == Cardinality(Before(hits, o))
           T(k) == FirstHits(hits, k)
           Good == { k \in Nat : k <= all => Cardinality(T(k)) = k }
<1>1. \A S \in SUBSET hits : IsFiniteSet(S) /\ Cardinality(S) \in Nat /\ Cardinality(S) <= all
  BY FS_Subset, FS_CardinalityType
<1>2. all \in Nat
  BY FS_CardinalityType
<1>3. \A o : Before(hits, o) \in SUBSET hits
  BY DEF Before
<1>4. \A o : C(o) \in Nat /\ C(o) <= all
  BY <1>1, <1>3
<1>5. \A o, q \in hits : o < q => C(o) <= C(q)
  <2> SUFFICES ASSUME NEW o \in hits, NEW q \in hits, o < q PROVE C(o) <= C(q)
    OBVIOUS
  <2>1. Before(hits, o) \subseteq Before(hits, q)
    <3> SUFFICES ASSUME NEW x \in Before(hits, o) PROVE x \in Before(hits, q)
      OBVIOUS
    <3>1. x \in hits /\ x < o
      BY DEF Before
    <3>2. x \in Nat /\ o \in Nat /\ q \in Nat
      BY <3>1
    <3>3. x < q
      BY <3>1, <3>2
    <3> QED
      BY <3>1, <3>3 DEF Before
  <2> QED
    BY <1>1, <1>3, <2>1, FS_Subset
<1>6. \A k : T(k) = { o \in hits : C(o) < k } /\ T(k) \in SUBSET hits
  BY DEF FirstHits
<1> HIDE DEF C, T, all
<1>7. 0 \in Good
  <2>1. T(0) = {}
    <3>1. \A o \in hits : ~(C(o) < 0)
      BY <1>4
    <3> QED
      BY <1>6, <3>1
  <2> QED
    BY <2>1, FS_EmptySet
<1>8. ASSUME NEW k \in Nat, k \in Good PROVE k + 1 \in Good
  <2> SUFFICES ASSUME k + 1 <= all PROVE Cardinality(T(k + 1)) = k + 1
    OBVIOUS
  <2>1. Cardinality(T(k)) = k
    BY <1>2, <1>8
  <2> DEFINE rest == hits \ T(k)
  <2>2. rest # {}
    <3>1. T(k) # hits
      BY <1>2, <2>1 DEF all
    <3> QED
      BY <1>6, <3>1
  <2>3. PICK m \in rest : \A o \in rest : m <= o
    <3>1. rest \in SUBSET Nat
      OBVIOUS
    <3> HIDE DEF rest
    <3> QED
      BY <2>2, <3>1, LeastElement
  <2>4. m \in hits /\ m \in Nat /\ m \notin T(k)
    BY <2>3
  <2>5. ASSUME NEW o \in hits, o < m PROVE o \in T(k)
    <3>1. ~(m <= o)
      BY <2>4, <2>5
    <3> QED
      BY <2>3, <3>1
  <2>6. ASSUME NEW o \in T(k) PROVE o \in hits /\ o < m
    <3>1. o \in hits /\ o \in Nat /\ C(o) < k
      BY <1>6, <2>6
    <3>2. ~(C(m) < k)
      BY <1>6, <2>4
    <3>3. ~(m < o)
      BY <1>4, <1>5, <2>4, <3>1, <3>2
    <3>4. o # m
      BY <2>4, <2>6
    <3> QED
      BY <2>4, <3>1, <3>3, <3>4
  <2>7. C(m) = k
    <3>1. Before(hits, m) = T(k)
      BY <2>5, <2>6, <1>6 DEF Before
    <3> QED
      BY <2>1, <3>1 DEF C
  <2>8. ASSUME NEW o \in hits, o # m, o \notin T(k) PROVE ~(C(o) < k + 1)
    <3>1. o \in Nat /\ m < o
      <4>1. m <= o /\ o \in Nat
        BY <2>3, <2>8
      <4> QED
        BY <2>4, <2>8, <4>1
    <3>2. T(k) \cup {m} \subseteq Before(hits, o)
      <4>1. ASSUME NEW q \in T(k) PROVE q \in hits /\ q < o
        <5>1. q \in hits /\ q < m
          BY <2>6
        <5>2. q \in Nat
          BY <5>1
        <5> QED
          BY <2>4, <3>1, <5>1, <5>2
      <4> QED
        BY <2>4, <3>1, <4>1 DEF Before
    <3>3. Cardinality(T(k) \cup {m}) = k + 1
      BY <1>1, <1>6, <2>1, <2>4, FS_AddElement
    <3>4. Cardinality(T(k) \cup {m}) <= C(o)
      BY <1>1, <1>3, <3>2, FS_Subset DEF C
    <3> QED
      BY <1>4, <3>3, <3>4
  <2>9. T(k + 1) = T(k) \cup {m}
    <3>1. \A o \in T(k) : o \in hits /\ C(o) < k + 1
      BY <1>4, <1>6
    <3>2. C(m) < k + 1
      BY <2>7
    <3>3. \A o \in hits : C(o) < k + 1 => o \in T(k) \/ o = m
      BY <2>8
    <3>4. T(k + 1) = { o \in hits : C(o) < k + 1 }
      BY <1>6
    <3> QED
      BY <2>4, <3>1, <3>2, <3>3, <3>4
  <2> QED
    BY <1>1, <1>6, <2>1, <2>4, <2>9, FS_AddElement
<1>9. \A k \in Nat : k \in Good
  <2> HIDE DEF Good
  <2> QED
    BY <1>7, <1>8, Upward
<1>10. all < limit => T(limit) = hits
  <2> SUFFICES ASSUME all < limit PROVE \A o \in hits : C(o) < limit
    BY <1>6
  <2> QED
    BY <1>2, <1>4
<1>11. all >= limit => Cardinality(T(limit)) = limit
  <2>1. limit \in Good
    BY <1>9
  <2> QED
    BY <1>2, <2>1
<1> QED
  BY <1>10, <1>11 DEF all, T

\* The names whose length fits a byte, and the limits that a signed char can hold.
SmallRequests ==
    /\ \A r \in DeleteRequest : r.size < 256
    /\ \A r \in SearchRequest : r.bytes # << >> => r.bytes[1] < 128

\* A file whose records are all whole.
Framed(f) ==
    /\ f \in Seq(Byte) /\ ~Corrupted(f)
    /\ \A o \in Slots(f) : /\ o \in Nat /\ o + 3 <= Len(f) /\ ~Short(f, o)
                           /\ o + 3 + NameLength(f, o) <= Len(f) /\ After(f, o) <= Len(f)
                           /\ Len(NameAt(f, o)) = NameLength(f, o)

\* The invariant says so as long as no write was cut short.
LEMMA InvFramed == Inv /\ torn = 0 => Framed(file)
<1> SUFFICES ASSUME Inv, torn = 0 PROVE Framed(file)
  OBVIOUS
<1>1. file \in Seq(Byte) /\ ScanEnd(file) = Len(file) /\ Len(file) \in Nat
  BY DEF Inv, TypeOK, WellFramed
<1>2. ~Corrupted(file)
  BY <1>1 DEF Corrupted
<1>3. ASSUME NEW o \in Slots(file)
      PROVE  /\ o \in Nat /\ o + 3 <= Len(file) /\ ~Short(file, o)
             /\ o + 3 + NameLength(file, o) <= Len(file) /\ After(file, o) <= Len(file)
             /\ Len(NameAt(file, o)) = NameLength(file, o)
  <2>1. o \in Nat /\ o + 3 <= Len(file)
    BY <1>1, SlotsApart
  <2>2. ~Short(file, o) /\ After(file, o) <= Len(file)
    BY <1>1, TilesWhole
  <2>3. /\ NameLength(file, o) \in Nat /\ Size(file, o) >= NameLength(file, o)
        /\ Size(file, o) \in Nat /\ After(file, o) = o + 3 + Size(file, o)
    BY <1>1, <2>1, HeaderRead
  <2>4. o + 3 + NameLength(file, o) <= Len(file)
    BY <1>1, <2>1, <2>2, <2>3
  <2> QED
    BY <1>1, <2>1, <2>2, <2>4, ShortIs
<1> QED
  BY <1>1, <1>2, <1>3 DEF Framed

LEMMA BookIs ==
    \A f : /\ DOMAIN Book(f) = ActiveSlots(f)
           /\ \A o \in ActiveSlots(f) : Book(f)[o] = ContactAt(f, o)
  BY DEF Book, ContactsAt

\* A record that is kept whole has the same contact.
LEMMA ContactKept ==
    ASSUME NEW f, Framed(f), NEW g, NEW o \in Slots(f), Kept(f, g, o)
    PROVE  ContactAt(g, o) = ContactAt(f, o)
  BY DEF Framed, Kept, ContactAt

\* The empty file is the empty book.
LEMMA InitRefines == Init => PB!Init
<1> SUFFICES ASSUME Init PROVE PB!Init
  OBVIOUS
<1>1. ActiveSlots(file) = {}
  BY Emptied DEF Init, ActiveSlots
<1>2. Book(file) = PB!Nothing
  BY <1>1 DEF Book, ContactsAt, PB!Nothing
<1> QED
  BY <1>2 DEF Init, PB!Init, Answer, PB!Answer, Nothing, PB!Nothing

\* An insert adds an entry.
LEMMA InsertRefines ==
    ASSUME Framed(file), NEW r \in InsertRequest, Insert(r)
    PROVE  PB!Insert(<<NameOf(r), PhoneOf(r)>>)
<1> DEFINE size == SizeOf(r)
           p == AddOffset(file, size)
           g == Pwrite(file, Record(r), p)
           c == <<NameOf(r), PhoneOf(r)>>
<1>1. /\ r \in Accepted /\ ~AddCorrupted(file, size) /\ file' = g
      /\ reply' = Answer("OK", Nothing)
  BY DEF Insert, SizeOf, Accepted
<1>2. file \in Seq(Byte) /\ size \in Nat
  BY <1>1, PartsOf DEF Framed
<1>3. /\ \A o \in Slots(file) : o # p => Kept(file, g, o)
      /\ Slots(g) = Slots(file) \cup {p}
      /\ Active(g, p) = 1
      /\ NameAt(g, p) = NameOf(r) /\ PhoneAt(g, p) = PhoneOf(r)
  BY <1>1, <1>2, WholeWritten
<1>4. p \notin Slots(file) \/ Active(file, p) = 0
  BY <1>1, <1>2, AddOffsetIs
<1> HIDE DEF size, p, g
<1>5. p \notin ActiveSlots(file)
  BY <1>4 DEF ActiveSlots
<1>6. ActiveSlots(g) = ActiveSlots(file) \cup {p}
  BY <1>3, <1>4 DEF ActiveSlots, Kept
<1>7. ContactAt(g, p) = c
  BY <1>3 DEF ContactAt
<1>8. \A o \in ActiveSlots(file) : ContactAt(g, o) = ContactAt(file, o)
  <2> SUFFICES ASSUME NEW o \in ActiveSlots(file) PROVE ContactAt(g, o) = ContactAt(file, o)
    OBVIOUS
  <2>1. o \in Slots(file) /\ o # p
    BY <1>5 DEF ActiveSlots
  <2> QED
    BY <1>3, <2>1, ContactKept
<1> HIDE DEF c
<1>9. Book(g) = [d \in ActiveSlots(file) \cup {p} |-> IF d = p THEN c ELSE Book(file)[d]]
  <2>1. \A d \in ActiveSlots(file) \cup {p} :
            ContactAt(g, d) = IF d = p THEN c ELSE Book(file)[d]
    BY <1>5, <1>7, <1>8, BookIs
  <2> QED
    BY <1>6, <2>1 DEF Book, ContactsAt
<1>10. DOMAIN Book(file) = ActiveSlots(file) /\ DOMAIN Book(g) = ActiveSlots(file) \cup {p}
  BY <1>6, BookIs
<1>11. \E e \in (DOMAIN Book(g)) \ DOMAIN Book(file) :
          Book(g) = [d \in DOMAIN Book(file) \cup {e} |-> IF d = e THEN c ELSE Book(file)[d]]
  BY <1>5, <1>9, <1>10
<1>12. Book(file)' = Book(g)
  BY <1>1 DEF Book, ContactsAt, ActiveSlots, Slots, ContactAt, NameAt, PhoneAt, NameLength,
             PhoneLength, Active, After, Size
<1> QED
  BY <1>1, <1>11, <1>12 DEF PB!Insert, c, Answer, PB!Answer, Nothing, PB!Nothing

\* A delete removes an entry of the name.
LEMMA DeleteRefines ==
    ASSUME Framed(file), NEW r \in DeleteRequest, Delete(r), DeletedName(r) = r.bytes
    PROVE  PB!Delete(r.bytes)
<1> DEFINE name == DeletedName(r)
           h == Min(Stops(file, name))
           g == Pwrite(file, <<0>>, h)
<1>1. /\ Stops(file, name) # {} /\ NameAt(file, h) = name /\ file' = g
      /\ reply' = Answer("OK", Nothing)
  BY DEF Delete
<1>2. file \in Seq(Byte) /\ \A o \in Slots(file) : o \in Nat
  BY DEF Framed
<1>3. h \in Stops(file, name)
  <2>1. Stops(file, name) \in SUBSET Nat
    BY <1>2 DEF Stops, ActiveSlots
  <2> QED
    BY <1>1, <2>1, MinFinds
<1>4. h \in Slots(file) /\ h \in ActiveSlots(file)
  BY <1>3 DEF Stops, ActiveSlots
<1>5. /\ Slots(g) = Slots(file) /\ Active(g, h) = 0
      /\ \A o \in Slots(file) : o # h => Kept(file, g, o)
  BY <1>2, <1>4, ByteCleared
<1> HIDE DEF name, h, g
<1>6. ActiveSlots(g) = ActiveSlots(file) \ {h}
  BY <1>5 DEF ActiveSlots, Kept
<1>7. \A o \in ActiveSlots(file) \ {h} : ContactAt(g, o) = ContactAt(file, o)
  <2> SUFFICES ASSUME NEW o \in ActiveSlots(file), o # h PROVE ContactAt(g, o) = ContactAt(file, o)
    OBVIOUS
  <2>1. o \in Slots(file)
    BY DEF ActiveSlots
  <2> QED
    BY <1>5, <2>1, ContactKept
<1>8. Book(g) = [d \in (DOMAIN Book(file)) \ {h} |-> Book(file)[d]]
  <2>1. \A d \in ActiveSlots(file) \ {h} : ContactAt(g, d) = Book(file)[d]
    BY <1>7, BookIs
  <2> QED
    BY <1>6, <2>1, BookIs DEF Book, ContactsAt
<1>9. h \in DOMAIN Book(file) /\ Book(file)[h][1] = r.bytes
  BY <1>1, <1>4, BookIs DEF ContactAt, name
<1>10. Book(file)' = Book(g)
  BY <1>1 DEF Book, ContactsAt, ActiveSlots, Slots, ContactAt, NameAt, PhoneAt, NameLength,
             PhoneLength, Active, After, Size
<1> QED
  BY <1>1, <1>8, <1>9, <1>10 DEF PB!Delete, PB!Of, Answer, PB!Answer, Nothing, PB!Nothing

\* A delete of a name that no entry has finds nothing.
LEMMA MissingRefines ==
    ASSUME Framed(file), NEW r \in DeleteRequest, DeleteNotFound(r), DeletedName(r) = r.bytes
    PROVE  PB!DeleteMissing(r.bytes)
<1>1. /\ Stops(file, r.bytes) = {} /\ reply' = Answer("NOT_FOUND", Nothing)
      /\ UNCHANGED file
  BY DEF DeleteNotFound
<1>2. ASSUME NEW o \in ActiveSlots(file) PROVE NameAt(file, o) # r.bytes
  <2>1. Len(NameAt(file, o)) = NameLength(file, o)
    BY DEF Framed, ActiveSlots
  <2> QED
    BY <1>1, <2>1 DEF Stops
<1>3. \A e \in DOMAIN Book(file) : Book(file)[e][1] # r.bytes
  BY <1>2, BookIs DEF ContactAt
<1>4. Book(file)' = Book(file)
  BY <1>1 DEF Book, ContactsAt, ActiveSlots, Slots, ContactAt, NameAt, PhoneAt, NameLength,
             PhoneLength, Active, After, Size
<1> QED
  BY <1>1, <1>3, <1>4 DEF PB!DeleteMissing, Answer, PB!Answer, Nothing, PB!Nothing

\* The instance has its own copy of Cardinality, which is the same operator.
LEMMA SameCardinality ==
    ASSUME NEW S
    PROVE  PB!Cardinality(S) = Cardinality(S)
BY Zenon DEF PB!Cardinality, Cardinality

\* A search returns the entries that match, or as many of them as the limit.
LEMMA SearchRefines ==
    ASSUME Framed(file), NEW r \in SearchRequest, Search(r),
           LimitOf(r) \in Nat, LimitOf(r) < 128
    PROVE  PB!Search(LimitOf(r), QueryOf(r))
<1> DEFINE limit == LimitOf(r)
           query == QueryOf(r)
           hits == Hits(file, query)
           taken == Taken(file, query, limit)
           matching == PB!Matching(query)
<1>1. /\ reply' = Answer(IF BelowLimit(Cardinality(taken), limit)
                         THEN "ALL_RETURNED" ELSE "FEWER_RETURNED", ContactsAt(file, taken))
      /\ UNCHANGED file
  BY DEF Search
<1>2. matching = hits
  <2>1. matching = { e \in ActiveSlots(file) : Matches(query, NameAt(file, e)) }
    BY BookIs DEF PB!Matching, ContactAt
  <2>2. ASSUME NEW e \in ActiveSlots(file)
        PROVE  Matches(query, NameAt(file, e)) <=>
                 /\ NameLength(file, e) >= Len(query)
                 /\ Matches(query, NameAt(file, e)) \/ Len(NameAt(file, e)) < NameLength(file, e)
    <3> DEFINE n == NameLength(file, e)
               q == Len(query)
               m == Matches(query, NameAt(file, e))
    <3>1. Len(NameAt(file, e)) = n /\ n \in Nat
      <4>1. e \in Slots(file) /\ e \in Nat /\ e + 3 <= Len(file) /\ file \in Seq(Byte)
        BY DEF Framed, ActiveSlots
      <4> QED
        BY <4>1, HeaderRead DEF Framed
    <3>2. m => q <= n
      BY <3>1 DEF Matches
    <3>3. m => n >= q
      BY <3>2
    <3>4. ~(n < n)
      BY <3>1
    <3> HIDE DEF n, q, m
    <3>5. m <=> n >= q /\ (m \/ n < n)
      BY <3>3, <3>4
    <3> QED
      BY <3>1, <3>5 DEF n, q, m
  <2> QED
    BY <2>1, <2>2 DEF Hits
<1>3. hits \in SUBSET Nat /\ IsFiniteSet(hits) /\ hits \subseteq ActiveSlots(file)
  <2>1. hits \subseteq ActiveSlots(file) /\ ActiveSlots(file) \subseteq Slots(file)
    BY DEF Hits, ActiveSlots
  <2>2. IsFiniteSet(Slots(file)) /\ Slots(file) \subseteq Nat
    BY SlotsApart DEF Framed
  <2> HIDE DEF hits
  <2> QED
    BY <2>1, <2>2, FS_Subset
<1>4. taken = FirstHits(hits, limit) /\ taken \subseteq hits
  BY DEF Taken, FirstHits
<1>5. limit \in Nat /\ limit < 128
  OBVIOUS
<1> HIDE DEF limit, query, hits, taken, matching
<1>6. /\ Cardinality(hits) < limit => taken = hits
      /\ Cardinality(hits) >= limit => Cardinality(taken) = limit
  BY <1>3, <1>4, <1>5, FirstHitsCount
<1>7. Cardinality(hits) \in Nat
  BY <1>3, FS_CardinalityType
<1>8. ContactsAt(file, taken) = [e \in taken |-> Book(file)[e]]
  <2>1. \A e \in taken : ContactAt(file, e) = Book(file)[e]
    BY <1>3, <1>4, BookIs
  <2> QED
    BY <2>1 DEF ContactsAt
<1>9. Book(file)' = Book(file)
  BY <1>1 DEF Book, ContactsAt, ActiveSlots, Slots, ContactAt, NameAt, PhoneAt, NameLength,
             PhoneLength, Active, After, Size
<1>10. CASE Cardinality(hits) < limit
  <2>1. taken = matching /\ Cardinality(matching) < limit
    BY <1>2, <1>6, <1>10
  <2>2. BelowLimit(Cardinality(taken), limit)
    BY <2>1 DEF BelowLimit
  <2>3. reply' = PB!Answer("ALL_RETURNED", PB!Of(matching))
    BY <1>1, <1>8, <2>1, <2>2 DEF Answer, PB!Answer, PB!Of
  <2>4. PB!Cardinality(matching) < limit
    BY <2>1, SameCardinality
  <2> QED
    BY <1>9, <2>3, <2>4 DEF PB!Search, limit, query, matching
<1>11. CASE ~(Cardinality(hits) < limit)
  <2>1. Cardinality(taken) = limit
    BY <1>5, <1>6, <1>7, <1>11
  <2>2. ~BelowLimit(Cardinality(taken), limit)
    BY <1>5, <2>1 DEF BelowLimit
  <2>3. reply' = PB!Answer("FEWER_RETURNED", PB!Of(taken))
    BY <1>1, <1>8, <2>2 DEF Answer, PB!Answer, PB!Of
  <2>4. taken \in SUBSET matching
    BY <1>2, <1>4
  <2>5. \E found \in SUBSET matching :
            PB!Cardinality(found) = limit /\ reply' = PB!Answer("FEWER_RETURNED", PB!Of(found))
    BY <2>1, <2>3, <2>4, SameCardinality
  <2> QED
    BY <1>9, <2>5 DEF PB!Search, limit, query, matching
<1> QED
  BY <1>10, <1>11

\* Each request is a step of the phone book.
LEMMA StepRefines ==
    ASSUME SmallRequests, Inv, Inv', [Next]_vars
    PROVE  [torn' = 0 => PB!Next]_(PB!vars)
<1> SUFFICES ASSUME torn' = 0 PROVE PB!Next \/ UNCHANGED PB!vars
  OBVIOUS
<1>1. torn = 0
  <2>1. torn \in Nat
    BY DEF Inv, TypeOK
  <2>2. torn' = torn \/ torn' = torn + 1
    BY DEF Next, vars, HandleInsert, HandleDelete, HandleSearch, RefuseInsert, RefuseDelete,
           RefuseSearch, Refuse, Insert, InsertCorrupted, InsertTorn, Delete, DeleteNotFound,
           DeleteCorrupted, Search, SearchCorrupted, Restart
  <2> QED
    BY <2>1, <2>2
<1>2. Framed(file) /\ torn \in Nat
  BY <1>1, InvFramed DEF Inv, TypeOK
<1>3. ASSUME UNCHANGED <<file, reply>> PROVE UNCHANGED PB!vars
  BY <1>3 DEF PB!vars, Book, ContactsAt, ActiveSlots, Slots, ContactAt, NameAt, PhoneAt,
              NameLength, PhoneLength, Active, After, Size
<1>4. ASSUME NEW r, Refuse(r) PROVE PB!Next
  <2>1. UNCHANGED Book(file)
    BY <1>4 DEF Refuse, Book, ContactsAt, ActiveSlots, Slots, ContactAt, NameAt, PhoneAt,
                NameLength, PhoneLength, Active, After, Size
  <2>2. PB!Refuse
    BY <1>4, <2>1 DEF Refuse, PB!Refuse, Answer, PB!Answer, Nothing, PB!Nothing
  <2> QED
    BY <2>2 DEF PB!Next
<1>5. ASSUME NEW r \in InsertRequest, HandleInsert(r) PROVE PB!Next
  <2>1. CASE RefuseInsert(r)
    BY <1>4, <2>1 DEF RefuseInsert
  <2>2. CASE Insert(r)
    <3>1. PB!Insert(<<NameOf(r), PhoneOf(r)>>)
      BY <1>2, <2>2, InsertRefines
    <3>2. <<NameOf(r), PhoneOf(r)>> \in
              { <<NameOf(q), PhoneOf(q)>> : q \in { s \in InsertRequest : WellFormedInsert(s) } }
      BY <2>2 DEF Insert
    <3> QED
      BY <3>1, <3>2 DEF PB!Next
  <2>3. CASE InsertCorrupted(r)
    BY <1>2, <2>3 DEF InsertCorrupted, AddCorrupted, Framed
  <2>4. CASE InsertTorn(r)
    BY <1>1, <1>2, <2>4 DEF InsertTorn
  <2> QED
    BY <1>5, <2>1, <2>2, <2>3, <2>4 DEF HandleInsert
<1>6. ASSUME NEW r \in DeleteRequest, HandleDelete(r) PROVE PB!Next
  <2>1. CASE RefuseDelete(r)
    BY <1>4, <2>1 DEF RefuseDelete
  <2>2. ASSUME Len(r.bytes) = r.size PROVE DeletedName(r) = r.bytes
    <3>1. r.bytes \in Seq(Byte) /\ r.size \in Nat /\ r.size < 256
      <4>1. IsRequest(r)
        BY RequestAssumption
      <4> QED
        BY <4>1 DEF IsRequest, SmallRequests
    <3>2. r.size % 256 = r.size
      BY <3>1
    <3>3. SubSeq(r.bytes, 1, Len(r.bytes)) = r.bytes
      BY <3>1, SubSeqFull
    <3> QED
      BY <2>2, <3>2, <3>3 DEF DeletedName
  <2>3. CASE Delete(r)
    <3>1. PB!Delete(r.bytes)
      BY <1>2, <2>2, <2>3, DeleteRefines DEF Delete
    <3> QED
      BY <3>1 DEF PB!Next
  <2>4. CASE DeleteNotFound(r)
    <3>1. PB!DeleteMissing(r.bytes)
      BY <1>2, <2>2, <2>4, MissingRefines DEF DeleteNotFound
    <3> QED
      BY <3>1 DEF PB!Next
  <2>5. CASE DeleteCorrupted(r)
    <3> DEFINE name == DeletedName(r)
               stops == Stops(file, name)
    <3>1. IF stops = {} THEN Corrupted(file) ELSE NameAt(file, Min(stops)) # name
      BY <2>5 DEF DeleteCorrupted
    <3>2. stops # {}
      BY <1>2, <3>1 DEF Framed
    <3>3. Min(stops) \in stops
      <4>1. stops \in SUBSET Nat
        BY <1>2 DEF Stops, ActiveSlots, Framed
      <4> HIDE DEF stops
      <4> QED
        BY <3>2, <4>1, MinFinds
    <3>4. ASSUME NEW o \in stops PROVE NameAt(file, o) = name
      <4>1. o \in Slots(file) /\ NameLength(file, o) = Len(name)
        BY DEF Stops, ActiveSlots
      <4>2. Len(NameAt(file, o)) = Len(name)
        BY <1>2, <4>1 DEF Framed
      <4>3. file \in Seq(Byte) /\ o \in Nat /\ o + 3 <= Len(file)
        BY <1>2, <4>1 DEF Framed
      <4>4. Len(name) \in Nat
        BY <4>1, <4>3, HeaderRead
      <4>5. ~(Len(NameAt(file, o)) < Len(name))
        BY <4>2, <4>4
      <4> QED
        BY <4>5 DEF Stops
    <3> HIDE DEF stops, name
    <3> QED
      BY <3>1, <3>2, <3>3, <3>4
  <2> QED
    BY <1>6, <2>1, <2>3, <2>4, <2>5 DEF HandleDelete
<1>7. ASSUME NEW r \in SearchRequest, HandleSearch(r) PROVE PB!Next
  <2>1. CASE RefuseSearch(r)
    BY <1>4, <2>1 DEF RefuseSearch
  <2>2. CASE Search(r)
    <3>1. LimitOf(r) \in Nat /\ LimitOf(r) < 128
      <4>1. IsRequest(r)
        BY RequestAssumption
      <4>2. r.bytes \in Seq(Byte) /\ Len(r.bytes) = r.size /\ r.size >= 1 /\ r.size \in Nat
        BY <2>2, <4>1 DEF IsRequest, Search, WellFormedSearch
      <4>3. 1 \in 1 .. Len(r.bytes) /\ r.bytes # << >>
        BY <4>2
      <4>4. r.bytes[1] \in Byte /\ r.bytes[1] < 128
        BY <4>2, <4>3 DEF SmallRequests
      <4> QED
        BY <4>4, ByteIsNat DEF LimitOf
    <3>2. PB!Search(LimitOf(r), QueryOf(r))
      BY <1>2, <2>2, <3>1, SearchRefines
    <3> DEFINE both == <<LimitOf(r), QueryOf(r)>>
    <3>3. both \in
              { <<LimitOf(q), QueryOf(q)>> : q \in { s \in SearchRequest : WellFormedSearch(s) } }
      BY <2>2 DEF Search
    <3>4. both[1] = LimitOf(r) /\ both[2] = QueryOf(r)
      OBVIOUS
    <3> HIDE DEF both
    <3> QED
      BY <3>2, <3>3, <3>4 DEF PB!Next
  <2>3. CASE SearchCorrupted(r)
    <3>1. \/ \E o \in Taken(file, QueryOf(r), LimitOf(r)) : Short(file, o)
          \/ Corrupted(file)
      BY <2>3 DEF SearchCorrupted, SearchFails
    <3>2. Taken(file, QueryOf(r), LimitOf(r)) \subseteq Slots(file)
      BY DEF Taken, Hits, ActiveSlots
    <3> QED
      BY <1>2, <3>1, <3>2 DEF Framed
  <2> QED
    BY <1>7, <2>1, <2>2, <2>3 DEF HandleSearch
<1>8. CASE Restart
  BY <1>3, <1>8 DEF Restart
<1>9. CASE UNCHANGED vars
  BY <1>3, <1>9 DEF vars
<1> QED
  BY <1>5, <1>6, <1>7, <1>8, <1>9 DEF Next

\* As long as no write is cut short, the scans and the writes of contact_db.c on the
\* bytes of the file are a book of contacts, for requests with names of at most 255
\* bytes and limits of at most 127: those that fit the types they are passed in.
THEOREM FileIsPhoneBook == SmallRequests => (Spec => ImplementsPhoneBook)
<1> SUFFICES ASSUME SmallRequests PROVE Spec => ImplementsPhoneBook
  OBVIOUS
<1>1. Inv /\ Inv' /\ [Next]_vars => [torn' = 0 => PB!Next]_(PB!vars)
  BY StepRefines
<1> QED
  BY <1>1, InitRefines, Invariance, PTL DEF Spec, ImplementsPhoneBook
=============================================================================
