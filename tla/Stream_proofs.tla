---------------------------- MODULE Stream_proofs ----------------------------
(***************************************************************************)
(* At any time at most one request is under way, and the bytes between the *)
(* two sides are what is left of it or of its answer.  Where the thread is *)
(* in its loop and where the client is in its call say how much is left;   *)
(* once the client is gone, only the first bytes of a request may come.    *)
(***************************************************************************)
EXTENDS Stream, Database_proofs

-----------------------------------------------------------------------------
(***************************************************************************)
(* The invariant.                                                          *)
(***************************************************************************)

PacketOf(r) == Packet(r.op, r.payload)

\* Of a packet, what follows the starting sequence and precedes the payload.
Header(kind, payload) == <<kind, Len(payload) \div 256, Len(payload) % 256>>

\* The request that the thread has not served yet.
Asked == sent[Len(served) + 1]

\* Of what is sent, a client that is gone may have sent the first bytes only.
Reaches(gone, bytes, whole) == IF gone THEN IsPrefix(bytes, whole) ELSE bytes = whole

Arrives(bytes, whole) == Reaches(ClientGone, bytes, whole)

\* What the client and the thread know, by their types.
Count == { n \in Nat : n < 65536 }

Then == { Start, Closed } \cup { Discarding(size) : size \in Count }

AnswerType == [status : Byte, payload : Seq(Byte), then : Then]

ThreadType == [at : ServerAt, need : Count, got : Seq(Byte), op : Int, answer : AnswerType]

CallerType == [at : ClientAt, need : Count, got : Seq(Byte), status : Byte]

ServedType == [op : Int, payload : Seq(Int), status : Byte]

Typed ==
    /\ toServer \in Seq(Byte) /\ toClient \in Seq(Byte)
    /\ reset \in BOOLEAN /\ split \in BOOLEAN
    /\ session \in Byte /\ auth_level \in Byte
    /\ server \in ThreadType /\ client \in CallerType
    /\ sent \in Seq(Request)
    /\ served \in Seq(ServedType)
    /\ results \in Seq(Byte)

\* One request at a time.
Counted ==
    /\ Len(results) = Len(sent) - (IF Waits THEN 1 ELSE 0)
    /\ Len(served) <= Len(sent) /\ Len(sent) <= Len(served) + 1
    /\ client.at = "idle" => Len(served) = Len(sent)
    /\ server.at \in {"header", "payload"} => Len(served) < Len(sent)
    /\ server.at = "answer" => Len(served) = Len(sent)
    /\ reset => server.at = "closed"

\* What is on its way to the thread.
Requested ==
    /\ server.at # "payload" => server.got = << >>
    /\ server.at = "start" => server.need = 1 /\ Arrives(toServer, Unserved)
    /\ server.at = "header" => server.need = 3 /\ Arrives(toServer, Tail(PacketOf(Asked)))
    /\ server.at = "payload" =>
          /\ server.op = Asked.op
          /\ Len(server.got) + server.need = Len(Asked.payload)
          /\ Arrives(server.got \o toServer, Asked.payload)
    /\ server.at = "answer" =>
          \/ server.answer.then = Closed
          \/ server.answer.then = Start /\ toServer = << >>
          \/ /\ server.answer.then.at = "discard" /\ server.answer.then.need > 0
             /\ Len(toServer) <= server.answer.then.need
             /\ ClientGone \/ Len(toServer) = server.answer.then.need
    /\ server.at = "discard" =>
          /\ server.need > 0
          /\ Len(toServer) < server.need => ClientGone
          /\ Len(toServer) >= server.need => Arrives(Drop(toServer, server.need), Unserved)

\* What a request and the status that answers it say of the rest of the answer.
Suits(op, status, content) ==
    /\ Len(content) < 65536
    /\ IF op = LOGIN /\ status = OK THEN content = <<session>>
       ELSE IF op = SEARCH /\ status \in {ALL_RETURNED, FEWER_RETURNED}
            THEN Readable(content) \/ \E c \in Range(found) : ~is_printable(c[1] \o c[2])
            ELSE content = << >>

\* What is left of an answer: all of it, or what the client does not have yet.
Left(op, status, content) ==
    /\ client.at = "start" =>
          client.got = << >> /\ client.need = 1 /\ toClient = Packet(status, content)
    /\ client.at = "header" =>
          /\ Len(client.got) + client.need = 3 /\ client.need > 0
          /\ client.got \o toClient = Tail(Packet(status, content))
    /\ client.at = "level" =>
          /\ client.got = << >> /\ client.need = 1 /\ toClient = content
          /\ op = LOGIN /\ status = OK
    /\ client.at = "payload" =>
          /\ Len(client.got) + client.need = Len(content) /\ client.need > 0
          /\ client.got \o toClient = content
          /\ op = SEARCH /\ client.status = status

OnItsWay(op, status) ==
    \E content \in Seq(Byte) : Suits(op, status, content) /\ Left(op, status, content)

\* The server was full.
Refused == Len(served) = 0 /\ server.at = "closed"

\* The client waits for the answer of a LOGIN that has none.
Forgotten ==
    /\ Unanswered /\ server.at = "start" /\ client.at = "start"
    /\ client.got = << >> /\ client.need = 1 /\ toClient = << >>

\* What is on its way to the client.
Answered ==
    /\ client.at = "idle" =>
          \/ server.at \in {"start", "discard", "closed"} /\ toClient = << >>
          \/ Refused /\ toClient = Packet(SERVER_ERROR, << >>)
    /\ Waits =>
          \/ server.at = "closed" /\ toClient = << >>
          \/ Refused /\ OnItsWay(NoOpcode, SERVER_ERROR)
          \/ Forgotten
          \/ /\ server.at # "closed"
             /\ server.at = "answer" \/ Len(served) < Len(sent)
             /\ client.at = "start" /\ client.got = << >> /\ client.need = 1
             /\ toClient = << >>
          \/ /\ server.at # "answer" /\ Len(served) = Len(sent)
             /\ OnItsWay(Last(sent).op, Last(served).status)
    /\ server.at = "answer" =>
          Suits(Last(sent).op, server.answer.status, server.answer.payload)
          /\ server.answer.status = Last(served).status

\* What the thread has made of the requests.
ServedWell ==
    \A k \in DOMAIN served :
        /\ served[k].op \in {sent[k].op, NoOpcode}
        /\ served[k].payload \in {sent[k].payload, NotRead}
        /\ served[k].status = OK => served[k].op = sent[k].op
        /\ k < Len(sent) \/ client.at = "idle" =>
              k \in DOMAIN results /\ results[k] = served[k].status

Ending == server.at = "closed" \/ (server.at = "answer" /\ server.answer.then = Closed)

SplitOnly ==
    \A k \in DOMAIN served :
        served[k].status = MALFORMED_REQUEST /\ WellFormed(sent[k]) =>
            \/ split /\ k = Len(served) /\ Ending
            \/ k \in DOMAIN results /\ results[k] = Exited

\* A request whose client has left before its answer.
LeftAlone ==
    ClientGone /\ server.at # "closed" /\ Len(served) < Len(sent) =>
        results[Len(sent)] = Exited

\* What the calls have returned.
Returned ==
    \A k \in DOMAIN results :
        \/ k \in DOMAIN served /\ results[k] = served[k].status
        \/ results[k] = Exited
        \/ results[k] = SERVER_ERROR /\ server.at = "closed"
        \/ /\ results[k] = SERVER_ERROR /\ ClientGone
           /\ k = Len(sent) /\ Len(served) = Len(sent)
           /\ sent[k].op = SEARCH /\ \E c \in Range(found) : ~is_printable(c[1] \o c[2])

\* The client has logged in, and has not registered since.
LoggedIn ==
    \E k \in DOMAIN served : Done(k, LOGIN) /\ \A j \in k .. Len(served) : ~Done(j, REGISTER)

LevelKnown ==
    LoggedIn /\ auth_level # session /\ ~ClientGone =>
        Waits /\ Len(served) = Len(sent) /\ Done(Len(served), LOGIN)

Inv ==
    /\ Typed /\ Counted /\ Requested /\ Answered
    /\ ServedWell /\ SplitOnly /\ LeftAlone /\ Returned /\ LevelKnown

-----------------------------------------------------------------------------
(***************************************************************************)
(* Sequences: pieces of a stream.                                          *)
(***************************************************************************)

LEMMA ByteIs == \A b : b \in Byte <=> b \in Nat /\ b < 256
BY DEF Byte

LEMMA CountIs == \A n : n \in Count <=> n \in Nat /\ n < 65536
BY DEF Count

LEMMA NoCount == 0 \in Count
BY CountIs

\* What a recv takes and what it leaves are the stream.
LEMMA CutIs ==
    ASSUME NEW S, NEW s \in Seq(S), NEW n \in Nat, n <= Len(s)
    PROVE  /\ SubSeq(s, 1, n) \in Seq(S) /\ Len(SubSeq(s, 1, n)) = n
           /\ Drop(s, n) \in Seq(S) /\ Len(Drop(s, n)) = Len(s) - n
           /\ SubSeq(s, 1, n) \o Drop(s, n) = s
<1>1. Len(s) \in Nat /\ \A i \in 1 .. Len(s) : s[i] \in S
  BY LenProperties, ElementOfSeq
<1>2. /\ SubSeq(s, 1, n) \in Seq(S) /\ Len(SubSeq(s, 1, n)) = n
  <2>1. \A i \in 1 .. n : s[i] \in S
    BY <1>1
  <2>2. 1 \in Int /\ n \in Int
    OBVIOUS
  <2>3. /\ SubSeq(s, 1, n) \in Seq(S)
        /\ Len(SubSeq(s, 1, n)) = IF 1 <= n THEN n - 1 + 1 ELSE 0
    BY <2>1, <2>2, SubSeqProperties
  <2> QED
    BY <2>3
<1>3. Drop(s, n) \in Seq(S) /\ Len(Drop(s, n)) = Len(s) - n
  <2>1. \A i \in n + 1 .. Len(s) : s[i] \in S
    BY <1>1
  <2>2. n + 1 \in Int /\ Len(s) \in Int
    BY <1>1
  <2>3. /\ SubSeq(s, n + 1, Len(s)) \in Seq(S)
        /\ Len(SubSeq(s, n + 1, Len(s))) = IF n + 1 <= Len(s) THEN Len(s) - (n + 1) + 1 ELSE 0
    BY <2>1, <2>2, SubSeqProperties
  <2> QED
    BY <1>1, <2>3 DEF Drop
<1>4. SubSeq(s, 1, n) \o Drop(s, n) = s
  <2>1. 1 \in 1 .. Len(s) + 1 /\ n \in 1 - 1 .. Len(s) /\ Len(s) \in n .. Len(s)
    BY <1>1
  <2>2. SubSeq(s, 1, n) \o SubSeq(s, n + 1, Len(s)) = SubSeq(s, 1, Len(s))
    BY <2>1, ConcatAdjacentSubSeq
  <2> QED
    BY <2>2, SubSeqFull DEF Drop
<1> QED
  BY <1>2, <1>3, <1>4

\* A stream parts at a length in one way.
LEMMA PartsOnce ==
    ASSUME NEW S, NEW a \in Seq(S), NEW b \in Seq(S), NEW c \in Seq(S), NEW d \in Seq(S),
           a \o b = c \o d, Len(a) = Len(c)
    PROVE  a = c /\ b = d
<1>1. /\ Len(a) \in Nat /\ Len(b) \in Nat /\ Len(d) \in Nat
  BY LenProperties
<1>2. /\ Len(a \o b) = Len(a) + Len(b)
      /\ \A i \in 1 .. Len(a) + Len(b) : (a \o b)[i] = IF i <= Len(a) THEN a[i] ELSE b[i - Len(a)]
  BY ConcatProperties
<1>3. /\ Len(c \o d) = Len(c) + Len(d)
      /\ \A i \in 1 .. Len(c) + Len(d) : (c \o d)[i] = IF i <= Len(c) THEN c[i] ELSE d[i - Len(c)]
  BY ConcatProperties
<1>4. a = c
  <2>1. \A i \in 1 .. Len(a) : a[i] = c[i]
    BY <1>1, <1>2, <1>3
  <2> QED
    BY <2>1, SeqEqual
<1>5. b = d
  BY <1>4, ConcatSimplifications
<1> QED
  BY <1>4, <1>5

LEMMA JoinIs ==
    ASSUME NEW S, NEW a \in Seq(S), NEW b \in Seq(S)
    PROVE  /\ a \o b \in Seq(S) /\ Len(a \o b) = Len(a) + Len(b)
           /\ Len(a) \in Nat /\ Len(b) \in Nat
           /\ a \o << >> = a /\ << >> \o b = b
           /\ Drop(a \o b, Len(a)) = b /\ SubSeq(a \o b, 1, Len(a)) = a
<1>1. /\ a \o b \in Seq(S) /\ Len(a \o b) = Len(a) + Len(b)
      /\ Len(a) \in Nat /\ Len(b) \in Nat
  BY ConcatProperties, LenProperties
<1>2. a \o << >> = a /\ << >> \o b = b
  BY ConcatEmptySeq
<1>3. /\ SubSeq(a \o b, 1, Len(a)) \in Seq(S) /\ Len(SubSeq(a \o b, 1, Len(a))) = Len(a)
      /\ Drop(a \o b, Len(a)) \in Seq(S)
      /\ SubSeq(a \o b, 1, Len(a)) \o Drop(a \o b, Len(a)) = a \o b
  <2> DEFINE s == a \o b
             n == Len(a)
  <2>1. s \in Seq(S) /\ n \in Nat /\ n <= Len(s)
    BY <1>1
  <2> HIDE DEF s, n
  <2>2. /\ SubSeq(s, 1, n) \in Seq(S) /\ Len(SubSeq(s, 1, n)) = n
        /\ Drop(s, n) \in Seq(S) /\ SubSeq(s, 1, n) \o Drop(s, n) = s
    BY <2>1, CutIs
  <2> QED
    BY <2>2 DEF s, n
<1>4. SubSeq(a \o b, 1, Len(a)) = a /\ Drop(a \o b, Len(a)) = b
  <2> DEFINE c == SubSeq(a \o b, 1, Len(a))
             d == Drop(a \o b, Len(a))
  <2>1. c \in Seq(S) /\ d \in Seq(S) /\ c \o d = a \o b /\ Len(c) = Len(a)
    BY <1>3
  <2> HIDE DEF c, d
  <2>2. c = a /\ d = b
    BY <2>1, PartsOnce
  <2> QED
    BY <2>2 DEF c, d
<1> QED
  BY <1>1, <1>2, <1>4

LEMMA NoBytes ==
    ASSUME NEW S, NEW s \in Seq(S)
    PROVE  Len(s) \in Nat /\ (Len(s) = 0 <=> s = << >>)
BY EmptySeq, LenProperties

\* What is read is what was read before with the piece that comes next.
LEMMA PieceJoins ==
    ASSUME NEW S, NEW got \in Seq(S), NEW s \in Seq(S), NEW n \in Nat, n <= Len(s)
    PROVE  /\ got \o SubSeq(s, 1, n) \in Seq(S)
           /\ Len(got \o SubSeq(s, 1, n)) = Len(got) + n
           /\ (got \o SubSeq(s, 1, n)) \o Drop(s, n) = got \o s
<1>1. /\ SubSeq(s, 1, n) \in Seq(S) /\ Len(SubSeq(s, 1, n)) = n
      /\ Drop(s, n) \in Seq(S) /\ SubSeq(s, 1, n) \o Drop(s, n) = s
  BY CutIs
<1> DEFINE p == SubSeq(s, 1, n)
           d == Drop(s, n)
<1>2. p \in Seq(S) /\ d \in Seq(S)
  BY <1>1
<1>3. Len(p) = n /\ p \o d = s
  BY <1>1
<1> HIDE DEF p, d
<1>4. (got \o p) \o d = got \o (p \o d)
  BY <1>2
<1>5. got \o p \in Seq(S) /\ Len(got \o p) = Len(got) + Len(p)
  BY <1>2, ConcatProperties
<1>6. got \o p \in Seq(S) /\ Len(got \o p) = Len(got) + n /\ (got \o p) \o d = got \o s
  BY <1>3, <1>4, <1>5
<1> QED
  BY <1>6 DEF p, d

\* The first bytes of a stream are those that others follow.
LEMMA PrefixIs ==
    ASSUME NEW S, NEW b \in Seq(S), NEW w \in Seq(S)
    PROVE  IsPrefix(b, w) <=> \E u \in Seq(S) : b \o u = w
<1>1. Len(b) \in Nat /\ Len(w) \in Nat /\ SubSeq(b, 1, Len(b)) = b
  BY LenProperties, SubSeqFull
<1>2. ASSUME IsPrefix(b, w) PROVE \E u \in Seq(S) : b \o u = w
  <2>1. Len(b) <= Len(w) /\ SubSeq(w, 1, Len(b)) = b
    BY <1>1, <1>2 DEF IsPrefix
  <2>2. Drop(w, Len(b)) \in Seq(S) /\ SubSeq(w, 1, Len(b)) \o Drop(w, Len(b)) = w
    BY <1>1, <2>1, CutIs
  <2> QED
    BY <2>1, <2>2
<1>3. ASSUME NEW u \in Seq(S), b \o u = w PROVE IsPrefix(b, w)
  <2>1. /\ Len(b \o u) = Len(b) + Len(u) /\ Len(u) \in Nat
        /\ SubSeq(b \o u, 1, Len(b)) = b
    BY JoinIs
  <2> QED
    BY <1>1, <1>3, <2>1 DEF IsPrefix
<1> QED
  BY <1>2, <1>3

LEMMA ReachesPrefix ==
    ASSUME NEW S, NEW gone, NEW b \in Seq(S), NEW w \in Seq(S), Reaches(gone, b, w)
    PROVE  IsPrefix(b, w)
<1>1. b \o << >> = b /\ << >> \in Seq(S)
  BY JoinIs, EmptySeq
<1> QED
  BY <1>1, PrefixIs DEF Reaches

-----------------------------------------------------------------------------
(***************************************************************************)
(* Packets.                                                                *)
(***************************************************************************)

LEMMA SizeBytes ==
    ASSUME NEW n \in Nat, n < 65536
    PROVE  /\ n \div 256 \in Byte /\ n % 256 \in Byte
           /\ (n \div 256) * 256 + (n % 256) = n
<1>1. n \div 256 \in Nat /\ n % 256 \in Nat /\ n \div 256 < 256 /\ n % 256 < 256
  OBVIOUS
<1>2. (n \div 256) * 256 + (n % 256) = n
  OBVIOUS
<1> QED
  BY <1>1, <1>2, ByteIs

LEMMA HeaderIs ==
    ASSUME NEW kind \in Byte, NEW c \in Seq(Byte), Len(c) < 65536
    PROVE  /\ Header(kind, c) \in Seq(Byte) /\ Len(Header(kind, c)) = 3
           /\ Header(kind, c)[1] = kind /\ SizeIn(Header(kind, c)) = Len(c)
<1>1. Len(c) \in Nat
  BY LenProperties
<1> DEFINE hi == Len(c) \div 256
           lo == Len(c) % 256
<1>2. hi \in Byte /\ lo \in Byte /\ hi * 256 + lo = Len(c)
  BY <1>1, SizeBytes
<1> HIDE DEF hi, lo
<1>3. Header(kind, c) = <<kind, hi, lo>>
  BY DEF Header, hi, lo
<1>4. <<kind, hi, lo>> \in Seq(Byte) /\ Len(<<kind, hi, lo>>) = 3
  BY <1>2
<1> QED
  BY <1>2, <1>3, <1>4 DEF SizeIn

LEMMA FourBytes ==
    ASSUME NEW S, NEW a \in S, NEW b \in S, NEW c \in S, NEW d \in S
    PROVE  <<a>> \o <<b, c, d>> = <<a, b, c, d>>
<1> DEFINE s == <<a>>
           t == <<b, c, d>>
           u == <<a, b, c, d>>
<1>1. s \in Seq(S) /\ Len(s) = 1 /\ s[1] = a
  OBVIOUS
<1>2. t \in Seq(S) /\ Len(t) = 3 /\ t[1] = b /\ t[2] = c /\ t[3] = d
  OBVIOUS
<1>3. u \in Seq(S) /\ Len(u) = 4 /\ u[1] = a /\ u[2] = b /\ u[3] = c /\ u[4] = d
  OBVIOUS
<1> HIDE DEF s, t, u
<1> DEFINE v == s \o t
<1>4. /\ v \in Seq(S) /\ Len(v) = 4
      /\ \A i \in 1 .. 4 : v[i] = IF i <= 1 THEN s[i] ELSE t[i - 1]
  <2>1. /\ v \in Seq(S) /\ Len(v) = Len(s) + Len(t)
        /\ \A i \in 1 .. Len(s) + Len(t) : v[i] = IF i <= Len(s) THEN s[i] ELSE t[i - Len(s)]
    BY <1>1, <1>2, ConcatProperties
  <2>2. Len(s) + Len(t) = 4 /\ Len(s) = 1
    BY <1>1, <1>2
  <2> HIDE DEF v
  <2> QED
    BY <2>1, <2>2
<1> HIDE DEF v
<1>5. v[1] = a /\ v[2] = b /\ v[3] = c /\ v[4] = d
  BY <1>1, <1>2, <1>4
<1>6. \A i \in 1 .. 4 : v[i] = u[i]
  BY <1>3, <1>5
<1>7. v = u
  BY <1>3, <1>4, <1>6, SeqEqual
<1> QED
  BY <1>7 DEF v, s, t, u

LEMMA AfterFirst ==
    ASSUME NEW S, NEW x \in S, NEW s \in Seq(S)
    PROVE  /\ <<x>> \o s \in Seq(S) /\ <<x>> \o s # << >>
           /\ Head(<<x>> \o s) = x /\ Tail(<<x>> \o s) = s
<1>1. <<x>> \in Seq(S) /\ Len(<<x>>) = 1 /\ <<x>>[1] = x
  OBVIOUS
<1> DEFINE t == <<x>> \o s
<1>2. /\ t \in Seq(S) /\ Len(t) = 1 + Len(s) /\ Len(s) \in Nat
      /\ \A i \in 1 .. 1 + Len(s) : t[i] = IF i <= 1 THEN x ELSE s[i - 1]
  BY <1>1, ConcatProperties, LenProperties
<1> HIDE DEF t
<1>3. t # << >> /\ Head(t) = t[1] /\ t[1] = x
  BY <1>2, EmptySeq
<1>4. /\ Tail(t) \in Seq(S) /\ Len(Tail(t)) = Len(t) - 1
      /\ \A i \in 1 .. Len(Tail(t)) : Tail(t)[i] = t[i + 1]
  BY <1>2, <1>3, HeadTailProperties
<1>5. \A i \in 1 .. Len(Tail(t)) : Tail(t)[i] = s[i]
  BY <1>2, <1>4
<1>6. Tail(t) = s
  BY <1>2, <1>4, <1>5, SeqEqual
<1> QED
  BY <1>2, <1>3, <1>6 DEF t

LEMMA FirstAndRest ==
    ASSUME NEW S, NEW s \in Seq(S), s # << >>
    PROVE  /\ Head(s) \in S /\ Tail(s) \in Seq(S) /\ <<Head(s)>> \in Seq(S)
           /\ <<Head(s)>> \o Tail(s) = s /\ Len(<<Head(s)>>) = 1
<1>1. /\ Head(s) \in S /\ Tail(s) \in Seq(S) /\ Len(Tail(s)) = Len(s) - 1
      /\ \A i \in 1 .. Len(Tail(s)) : Tail(s)[i] = s[i + 1]
  BY HeadTailProperties
<1>2. Head(s) = s[1] /\ Len(s) \in Nat
  BY LenProperties
<1> DEFINE x == Head(s)
           r == Tail(s)
           t == <<x>> \o r
<1>3. x \in S /\ r \in Seq(S) /\ x = s[1] /\ Len(r) = Len(s) - 1 /\ Len(r) \in Nat
      /\ \A i \in 1 .. Len(r) : r[i] = s[i + 1]
  BY <1>1, <1>2, LenProperties
<1> HIDE DEF x, r
<1>4. <<x>> \in Seq(S) /\ Len(<<x>>) = 1 /\ <<x>>[1] = x
  BY <1>3
<1>5. /\ t \in Seq(S) /\ Len(t) = 1 + Len(r)
      /\ \A i \in 1 .. 1 + Len(r) : t[i] = IF i <= 1 THEN x ELSE r[i - 1]
  BY <1>3, <1>4, ConcatProperties
<1> HIDE DEF t
<1>6. \A i \in 1 .. Len(t) : t[i] = s[i]
  BY <1>2, <1>3, <1>5
<1>7. t = s
  BY <1>2, <1>3, <1>5, <1>6, SeqEqual
<1> QED
  BY <1>3, <1>4, <1>7 DEF t, x, r

\* A packet is the starting sequence, the header and the payload.
IsPacket(p, kind, payload) ==
    /\ p \in Seq(Byte) /\ p # << >> /\ Head(p) = STARTING_SEQ
    /\ Tail(p) \in Seq(Byte) /\ Tail(p) = Header(kind, payload) \o payload

LEMMA PacketIs ==
    ASSUME NEW kind \in Byte, NEW c \in Seq(Byte), Len(c) < 65536
    PROVE  IsPacket(Packet(kind, c), kind, c)
<1>1. Header(kind, c) \in Seq(Byte)
  BY HeaderIs
<1>2. STARTING_SEQ \in Byte /\ <<STARTING_SEQ>> \in Seq(Byte)
  BY ByteIs DEF STARTING_SEQ
<1>3. Packet(kind, c) = <<STARTING_SEQ>> \o (Header(kind, c) \o c)
  <2> DEFINE h == Header(kind, c)
             f == <<STARTING_SEQ>>
             hi == Len(c) \div 256
             lo == Len(c) % 256
  <2>1. hi \in Byte /\ lo \in Byte
    BY SizeBytes, LenProperties
  <2> HIDE DEF hi, lo
  <2>2. h = <<kind, hi, lo>> /\ Packet(kind, c) = <<STARTING_SEQ, kind, hi, lo>> \o c
    BY DEF Header, Packet, hi, lo
  <2>3. f \o h = <<STARTING_SEQ, kind, hi, lo>>
    BY <1>2, <2>1, <2>2, FourBytes
  <2>4. h \in Seq(Byte) /\ f \in Seq(Byte)
    BY <1>1, <1>2
  <2> HIDE DEF h, f
  <2>5. (f \o h) \o c = f \o (h \o c)
    BY <2>4
  <2> QED
    BY SMTT(40), <2>3, <2>5, <2>2 DEF h, f
<1>4. Header(kind, c) \o c \in Seq(Byte)
  BY <1>1, ConcatProperties
<1> DEFINE r == Header(kind, c) \o c
<1>5. r \in Seq(Byte) /\ Packet(kind, c) = <<STARTING_SEQ>> \o r
  BY <1>3, <1>4
<1> HIDE DEF r
<1>6. /\ Packet(kind, c) \in Seq(Byte) /\ Packet(kind, c) # << >>
      /\ Head(Packet(kind, c)) = STARTING_SEQ /\ Tail(Packet(kind, c)) = r
  BY <1>2, <1>5, AfterFirst
<1> QED
  BY <1>5, <1>6 DEF r, IsPacket

\* A request of the client makes a packet.
LEMMA RequestIs ==
    ASSUME NEW r \in Request
    PROVE  /\ r.op \in Byte /\ r.op \in LOGIN .. SEARCH
           /\ r.payload \in Seq(Byte) /\ Len(r.payload) \in Nat /\ Len(r.payload) < 65536
           /\ IsPacket(PacketOf(r), r.op, r.payload)
<1>1. r.op \in LOGIN .. SEARCH /\ r.payload \in Seq(Byte) /\ Len(r.payload) < 65536
  BY RequestAssumption DEF Byte
<1>2. r.op \in Byte
  BY <1>1, ByteIs DEF LOGIN, SEARCH
<1>3. Len(r.payload) \in Nat
  BY <1>1, LenProperties
<1>4. IsPacket(Packet(r.op, r.payload), r.op, r.payload)
  BY <1>1, <1>2, PacketIs
<1> QED
  BY <1>1, <1>2, <1>3, <1>4 DEF PacketOf

\* Of the requests that are sent, none or the last waits for the thread.
LEMMA UnservedIs ==
    ASSUME NEW st, NEW sv,
           Len(st) \in Nat, Len(sv) \in Nat
    PROVE  LET left == FlattenSeq([i \in 1 .. Len(st) - Len(sv) |->
                              Packet(st[Len(sv) + i].op, st[Len(sv) + i].payload)])
           IN  /\ Len(st) = Len(sv) => left = << >>
               /\ Len(st) = Len(sv) + 1 => left = PacketOf(st[Len(sv) + 1])
<1> DEFINE f == [i \in 1 .. Len(st) - Len(sv) |->
                    Packet(st[Len(sv) + i].op, st[Len(sv) + i].payload)]
<1>1. ASSUME Len(st) = Len(sv) PROVE FlattenSeq(f) = << >>
  <2>1. f = << >> /\ Len(f) = 0
    BY <1>1
  <2> HIDE DEF f
  <2> QED
    BY <2>1 DEF FlattenSeq
<1>2. ASSUME Len(st) = Len(sv) + 1 PROVE FlattenSeq(f) = PacketOf(st[Len(sv) + 1])
  <2>1. Len(st) - Len(sv) = 1
    BY <1>2
  <2>2. f = [i \in 1 .. 1 |-> Packet(st[Len(sv) + i].op, st[Len(sv) + i].payload)]
    BY <2>1
  <2>3. Len(f) = 1 /\ f[1] = PacketOf(st[Len(sv) + 1])
    <3> DEFINE p == PacketOf(st[Len(sv) + 1])
    <3>1. f = [i \in 1 .. 1 |-> p]
      BY <2>2 DEF PacketOf
    <3> HIDE DEF p, f
    <3>2. [i \in 1 .. 1 |-> p] = <<p>>
      OBVIOUS
    <3>3. Len(<<p>>) = 1 /\ <<p>>[1] = p
      OBVIOUS
    <3> QED
      BY <3>1, <3>2, <3>3 DEF p
  <2> HIDE DEF f
  <2> DEFINE all == CHOOSE g : g = [i \in 1 .. 1 |-> IF i = 1 THEN f[i] ELSE g[i - 1] \o f[i]]
  <2>4. FlattenSeq(f) = all[1]
    BY <2>3 DEF FlattenSeq
  <2>5. \E g : g = [i \in 1 .. 1 |-> IF i = 1 THEN f[i] ELSE g[i - 1] \o f[i]]
    <3>1. [i \in 1 .. 1 |-> f[i]]
            = [i \in 1 .. 1 |-> IF i = 1 THEN f[i] ELSE [j \in 1 .. 1 |-> f[j]][i - 1] \o f[i]]
      OBVIOUS
    <3> QED
      BY <3>1
  <2>6. all = [i \in 1 .. 1 |-> IF i = 1 THEN f[i] ELSE all[i - 1] \o f[i]]
    BY <2>5
  <2>7. all[1] = f[1]
    BY <2>6
  <2> QED
    BY <2>3, <2>4, <2>7
<1> QED
  BY <1>1, <1>2

-----------------------------------------------------------------------------
(***************************************************************************)
(* Steps of the thread that neither serve a request nor change what the    *)
(* client has: what has been served and returned stays.                    *)
(***************************************************************************)

LEMMA ThreadMoves ==
    ASSUME Inv, UNCHANGED <<session, found, served, sent, results, auth_level, client>>,
           split => split', Ending => Ending',
           server.at = "closed" => server'.at = "closed"
    PROVE  ServedWell' /\ SplitOnly' /\ LeftAlone' /\ Returned' /\ LevelKnown'
<1>1. ServedWell'
  BY DEF Inv, ServedWell
<1>2. SplitOnly'
  BY DEF Inv, SplitOnly
<1>3. LeftAlone'
  BY DEF Inv, LeftAlone, ClientGone
<1>4. Returned'
  BY DEF Inv, Returned, ClientGone
<1>5. LevelKnown'
  BY DEF Inv, LevelKnown, ClientGone, LoggedIn, Waits, Done
<1> QED
  BY <1>1, <1>2, <1>3, <1>4, <1>5

LEMMA Lengths ==
    ASSUME Typed
    PROVE  /\ Len(sent) \in Nat /\ Len(served) \in Nat /\ Len(results) \in Nat
           /\ DOMAIN sent = 1 .. Len(sent) /\ DOMAIN served = 1 .. Len(served)
           /\ DOMAIN results = 1 .. Len(results)
BY LenProperties DEF Typed

\* The answer goes on as it was, or the thread waits for more of the request.
LEMMA ThreadReads ==
    ASSUME Inv, UNCHANGED <<session, found, served, sent, client, toClient>>,
           server.at \in {"start", "header", "payload", "discard"},
           server'.at \in {"start", "header", "payload", "discard"},
           client.at = "idle" => server'.at \in {"start", "discard"},
           server.at = "start" => Len(served) < Len(sent)
    PROVE  Answered'
<1>1. /\ server.at # "closed" /\ server.at # "answer" /\ server'.at # "closed" /\ server'.at # "answer"
      /\ ~Forgotten
  <2>1. Len(served) \in Nat /\ Len(sent) \in Nat
    BY Lengths DEF Inv
  <2> QED
    BY <2>1 DEF Forgotten, Unanswered
<1>2. ASSUME client'.at = "idle" PROVE server'.at \in {"start", "discard"} /\ toClient' = << >>
  BY <1>1, <1>2 DEF Inv, Answered, Refused
<1>3. ASSUME Waits'
      PROVE  \/ /\ server'.at # "closed"
                /\ server'.at = "answer" \/ Len(served') < Len(sent')
                /\ client'.at = "start" /\ client'.got = << >> /\ client'.need = 1
                /\ toClient' = << >>
             \/ /\ server'.at # "answer" /\ Len(served') = Len(sent')
                /\ OnItsWay(Last(sent).op, Last(served).status)'
  <2>1. Waits
    BY <1>3 DEF Waits
  <2>2. OnItsWay(Last(sent).op, Last(served).status) => OnItsWay(Last(sent).op, Last(served).status)'
    BY SMTT(40) DEF OnItsWay, Suits, Left
  <2> QED
    BY <1>1, <2>1, <2>2 DEF Inv, Answered, Refused
<1> QED
  BY <1>1, <1>2, <1>3 DEF Answered

-----------------------------------------------------------------------------
(***************************************************************************)
(* A request is answered.                                                  *)
(***************************************************************************)

\* What of the request may still be on its way when its answer is decided.
Follows(gone, bytes, then) ==
    \/ then = Closed
    \/ then = Start /\ bytes = << >>
    \/ /\ then.at = "discard" /\ then.need > 0
       /\ Len(bytes) <= then.need /\ (gone \/ Len(bytes) = then.need)

LEMMA AskedIs ==
    ASSUME Inv, Len(served) < Len(sent)
    PROVE  /\ Len(sent) = Len(served) + 1 /\ Asked \in Request
           /\ Asked = sent[Len(sent)] /\ Asked = Last(sent)
<1>1. Len(sent) \in Nat /\ Len(served) \in Nat /\ Len(sent) <= Len(served) + 1
  BY Lengths DEF Inv, Counted
<1>2. Len(sent) = Len(served) + 1 /\ Len(sent) \in 1 .. Len(sent)
  BY <1>1
<1>3. sent[Len(sent)] \in Request
  BY <1>2, ElementOfSeq DEF Inv, Typed
<1> QED
  BY <1>2, <1>3 DEF Asked, Last

\* While the thread reads a request, the client waits or is gone.
LEMMA ReadingIs ==
    ASSUME Inv, server.at \in {"header", "payload"}
    PROVE  /\ Len(served) < Len(sent) /\ Len(served) \in Nat /\ Len(sent) \in Nat
           /\ Len(sent) = Len(served) + 1 /\ ~reset /\ client.at # "idle"
           /\ Waits => client.at = "start" /\ client.got = << >> /\ client.need = 1 /\ toClient = << >>
<1>1. Len(served) \in Nat /\ Len(sent) \in Nat
  BY Lengths DEF Inv
<1>2. /\ Len(served) < Len(sent) /\ Len(sent) <= Len(served) + 1
      /\ client.at = "idle" => Len(served) = Len(sent)
      /\ ~reset
  BY DEF Inv, Counted
<1>3. Len(sent) = Len(served) + 1 /\ Len(served) # Len(sent)
  BY <1>1, <1>2
<1>4. server.at # "closed" /\ server.at # "answer" /\ ~Forgotten
  BY <1>3 DEF Forgotten
<1>5. Waits => client.at = "start" /\ client.got = << >> /\ client.need = 1 /\ toClient = << >>
  BY <1>3, <1>4 DEF Inv, Answered, Refused
<1> QED
  BY <1>1, <1>2, <1>3, <1>5

\* One more request is served.
Adds(op, payload, status) ==
    served' = Append(served, [op |-> op, payload |-> payload, status |-> status])

LEMMA ServesOne ==
    ASSUME Inv, server.at \in {"header", "payload"},
           NEW asked, asked = Asked,
           NEW op \in Int, NEW payload \in Seq(Int), NEW status \in Byte,
           Adds(op, payload, status),
           UNCHANGED <<client, auth_level, sent, results>>, split => split',
           op \in {asked.op, NoOpcode}, payload \in {asked.payload, NotRead},
           status = OK => op = asked.op,
           session' = session \/ (status = OK /\ op \in {LOGIN, REGISTER}),
           status = MALFORMED_REQUEST /\ WellFormed(asked) =>
               ClientGone \/ (split' /\ Ending')
    PROVE  /\ served' \in Seq(ServedType) /\ Len(served') = Len(sent) /\ Len(sent) \in Nat
           /\ Len(sent) > 0 /\ Last(served').status = status /\ Last(sent) = asked
           /\ ServedWell' /\ SplitOnly' /\ LeftAlone' /\ Returned' /\ LevelKnown'
<1> DEFINE new == [op |-> op, payload |-> payload, status |-> status]
<1>1. PICK L \in Nat : L = Len(served)
  BY ReadingIs
<1>2. /\ L = Len(served) /\ Len(sent) = L + 1 /\ sent[L + 1] = asked /\ Last(sent) = asked
      /\ Len(results) \in Nat
      /\ DOMAIN sent = 1 .. Len(sent) /\ DOMAIN results = 1 .. Len(results)
      /\ DOMAIN served = 1 .. L
  <2>1. Len(sent) = L + 1 /\ Len(served) < Len(sent)
    BY <1>1, ReadingIs
  <2>2. asked = sent[Len(sent)] /\ asked = Last(sent)
    BY <2>1, AskedIs
  <2>3. /\ Len(results) \in Nat
        /\ DOMAIN sent = 1 .. Len(sent) /\ DOMAIN results = 1 .. Len(results)
        /\ DOMAIN served = 1 .. Len(served)
    BY Lengths DEF Inv
  <2> QED
    BY <1>1, <2>1, <2>2, <2>3
<1>3. new \in ServedType
  BY DEF ServedType
<1>4. /\ served' \in Seq(ServedType) /\ Len(served') = L + 1
      /\ (\A k \in 1 .. L : served'[k] = served[k]) /\ served'[L + 1] = new
      /\ DOMAIN served' = 1 .. L + 1 /\ Last(served') = new
  <2>1. served \in Seq(ServedType) /\ served' = Append(served, new)
    BY DEF Inv, Typed, Adds
  <2>2. /\ Append(served, new) \in Seq(ServedType) /\ Len(Append(served, new)) = Len(served) + 1
        /\ \A k \in 1 .. Len(served) : Append(served, new)[k] = served[k]
        /\ Append(served, new)[Len(served) + 1] = new
    BY <1>3, <2>1, AppendProperties
  <2> HIDE DEF new
  <2>3. DOMAIN served' = 1 .. Len(served')
    BY <2>1, <2>2, LenProperties
  <2> QED
    BY <1>2, <2>1, <2>2, <2>3 DEF Last
<1>5. new.op = op /\ new.payload = payload /\ new.status = status
  OBVIOUS
<1> HIDE DEF new
<1>6. server.at # "closed" /\ server.at # "answer" /\ ~Ending /\ ~reset /\ client.at # "idle"
  BY ReadingIs DEF Ending
<1>7. ServedWell'
  <2>1. ASSUME NEW k \in 1 .. L
        PROVE  /\ served'[k].op \in {sent'[k].op, NoOpcode}
               /\ served'[k].payload \in {sent'[k].payload, NotRead}
               /\ served'[k].status = OK => served'[k].op = sent'[k].op
               /\ k \in DOMAIN results' /\ results'[k] = served'[k].status
    <3>1. k \in DOMAIN served /\ k < Len(sent) /\ served'[k] = served[k]
      BY <1>2, <1>4
    <3> QED
      BY <3>1 DEF Inv, ServedWell
  <2>2. /\ served'[L + 1].op \in {sent'[L + 1].op, NoOpcode}
        /\ served'[L + 1].payload \in {sent'[L + 1].payload, NotRead}
        /\ served'[L + 1].status = OK => served'[L + 1].op = sent'[L + 1].op
    BY <1>2, <1>4, <1>5
  <2>3. ~(L + 1 < Len(sent')) /\ client'.at # "idle"
    BY <1>2, <1>6
  <2>4. \A k \in DOMAIN served' : k \in 1 .. L \/ k = L + 1
    BY <1>2, <1>4
  <2> QED
    BY <2>1, <2>2, <2>3, <2>4 DEF ServedWell
<1>8. SplitOnly'
  <2>1. ASSUME NEW k \in 1 .. L, served'[k].status = MALFORMED_REQUEST, WellFormed(sent'[k])
        PROVE  k \in DOMAIN results' /\ results'[k] = Exited
    BY <1>2, <1>4, <1>6, <2>1 DEF Inv, SplitOnly
  <2>2. ASSUME served'[L + 1].status = MALFORMED_REQUEST, WellFormed(sent'[L + 1])
        PROVE  \/ split' /\ L + 1 = Len(served') /\ Ending'
               \/ L + 1 \in DOMAIN results' /\ results'[L + 1] = Exited
    <3>1. status = MALFORMED_REQUEST /\ WellFormed(asked)
      BY <1>2, <1>4, <1>5, <2>2
    <3>2. CASE split' /\ Ending'
      BY <1>4, <3>2
    <3>3. CASE ClientGone
      <4>1. results[Len(sent)] = Exited
        BY <1>2, <1>6, <3>3 DEF Inv, LeftAlone
      <4>2. Len(results) = Len(sent)
        BY <1>2, <3>3 DEF Inv, Counted, ClientGone, Waits
      <4> QED
        BY <1>2, <4>1, <4>2
    <3> QED
      BY <3>1, <3>2, <3>3
  <2>3. \A k \in DOMAIN served' : k \in 1 .. L \/ k = L + 1
    BY <1>2, <1>4
  <2> QED
    BY <2>1, <2>2, <2>3 DEF SplitOnly
<1>9. LeftAlone'
  BY <1>2, <1>4 DEF LeftAlone
<1>10. Returned'
  <2>1. ASSUME NEW k \in DOMAIN results'
        PROVE  \/ k \in DOMAIN served' /\ results'[k] = served'[k].status
               \/ results'[k] = Exited
    <3>1. ~(Len(served) = Len(sent))
      BY <1>2
    <3>2. \/ k \in DOMAIN served /\ results[k] = served[k].status
          \/ results[k] = Exited
      BY <1>6, <2>1, <3>1 DEF Inv, Returned
    <3> QED
      BY <1>2, <1>4, <3>2
  <2> QED
    BY <2>1 DEF Returned
<1>11. LevelKnown'
  <2> SUFFICES ASSUME LoggedIn', auth_level # session', ~ClientGone
               PROVE  Waits' /\ Len(served') = Len(sent') /\ Done(Len(served), LOGIN)'
    BY DEF LevelKnown, ClientGone
  <2>1. Waits'
    BY <1>6 DEF ClientGone, Waits, Inv, Typed, CallerType, ClientAt
  <2>2. Len(served') = Len(sent')
    BY <1>2, <1>4
  <2>3. PICK k \in 1 .. L + 1 : Done(k, LOGIN)' /\ (\A j \in k .. L + 1 : ~Done(j, REGISTER))'
    BY <1>4 DEF LoggedIn
  <2>4. ~Done(L + 1, REGISTER)'
    BY <1>2, <2>3
  <2>5. CASE k = L + 1
    BY <1>4, <2>1, <2>2, <2>3, <2>5
  <2>6. CASE k \in 1 .. L
    <3>1. \A j \in 1 .. L, o \in {LOGIN, REGISTER} : Done(j, o)' <=> Done(j, o)
      BY <1>4 DEF Done
    <3>2. Done(k, LOGIN) /\ \A j \in k .. L : ~Done(j, REGISTER)
      BY <1>2, <2>3, <2>6, <3>1
    <3>3. LoggedIn
      BY <1>2, <2>6, <3>2 DEF LoggedIn
    <3>4. auth_level = session
      BY <1>2, <3>3 DEF Inv, LevelKnown
    <3>5. status = OK /\ op \in {LOGIN, REGISTER}
      BY <3>4
    <3>6. Done(L + 1, LOGIN)'
      BY <1>4, <1>5, <2>4, <3>5 DEF Done
    <3> QED
      BY <1>4, <2>1, <2>2, <3>6
  <2> QED
    BY <1>2, <2>3, <2>5, <2>6
<1>12. Len(sent) \in Nat /\ Len(sent) > 0 /\ Len(served') = Len(sent)
  BY <1>2, <1>4
<1>13. Last(served').status = status /\ Last(sent) = asked /\ served' \in Seq(ServedType)
  BY <1>2, <1>4, <1>5
<1> QED
  BY <1>7, <1>8, <1>9, <1>10, <1>11, <1>12, <1>13

LEMMA ThreadAnswers ==
    ASSUME Inv, server.at \in {"header", "payload"},
           NEW asked, asked = Asked,
           NEW op \in Int, NEW payload \in Seq(Int), NEW status \in Byte,
           NEW content \in Seq(Byte), NEW then \in Then,
           Answers(op, payload, status, content, then),
           UNCHANGED <<toClient, reset, client, auth_level, sent, results>>,
           split' \in BOOLEAN, split => split',
           toServer' \in Seq(Byte), session' \in Byte,
           op \in {asked.op, NoOpcode}, payload \in {asked.payload, NotRead},
           status = OK => op = asked.op,
           session' = session \/ (status = OK /\ op \in {LOGIN, REGISTER}),
           Suits(asked.op, status, content)',
           Follows(ClientGone, toServer', then),
           status = MALFORMED_REQUEST /\ WellFormed(asked) =>
               ClientGone \/ (split' /\ then = Closed)
    PROVE  Inv'
<1>1. Adds(op, payload, status)
  BY DEF Answers, Adds
<1>2. /\ server' \in ThreadType /\ server'.at = "answer"
      /\ server'.answer.status = status /\ server'.answer.payload = content
      /\ server'.answer.then = then /\ server'.got = << >>
  <2> DEFINE answer == [status |-> status, payload |-> content, then |-> then]
  <2>1. answer \in AnswerType /\ answer.status = status /\ answer.payload = content
        /\ answer.then = then
    BY DEF AnswerType
  <2>2. server' = [server EXCEPT !.at = "answer", !.op = op, !.need = 0, !.got = << >>,
                                 !.answer = answer]
    BY DEF Answers
  <2> HIDE DEF answer
  <2>3. server \in ThreadType /\ 0 \in Count /\ << >> \in Seq(Byte) /\ "answer" \in ServerAt
    BY NoCount, EmptySeq DEF Inv, Typed, ServerAt
  <2>4. server' = [at |-> "answer", need |-> 0, got |-> << >>, op |-> op, answer |-> answer]
    BY <2>2, <2>3 DEF ThreadType
  <2>5. server' \in ThreadType
    BY <2>1, <2>3, <2>4 DEF ThreadType
  <2>6. server'.at = "answer" /\ server'.answer = answer /\ server'.got = << >>
    BY <2>4
  <2> QED
    BY <2>1, <2>5, <2>6
<1>3. ~reset /\ client.at # "idle"
  BY ReadingIs
<1>4. Waits => client.at = "start" /\ client.got = << >> /\ client.need = 1 /\ toClient = << >>
  BY ReadingIs
<1>5. status = MALFORMED_REQUEST /\ WellFormed(asked) => ClientGone \/ (split' /\ Ending')
  BY <1>2 DEF Ending
<1>6. /\ served' \in Seq(ServedType) /\ Len(served') = Len(sent) /\ Len(sent) \in Nat
      /\ Len(sent) > 0 /\ Last(served').status = status /\ Last(sent) = asked
      /\ ServedWell' /\ SplitOnly' /\ LeftAlone' /\ Returned' /\ LevelKnown'
  BY <1>1, <1>5, ServesOne
<1>7. Typed'
  BY <1>2, <1>6 DEF Inv, Typed
<1>8. Counted'
  BY <1>2, <1>3, <1>6 DEF Inv, Counted, Waits
<1>9. Requested'
  BY <1>2 DEF Requested, Follows, ClientGone
<1>10. Answered'
  BY <1>2, <1>3, <1>4, <1>6 DEF Answered, Waits
<1> QED
  BY <1>6, <1>7, <1>8, <1>9, <1>10 DEF Inv

-----------------------------------------------------------------------------
(***************************************************************************)
(* The handlers.                                                           *)
(***************************************************************************)

\* A payload that is whole is that of the request, and nothing comes after it.
LEMMA PayloadIs ==
    ASSUME Inv, server.at = "payload"
    PROVE  /\ Asked \in Request /\ Asked.payload \in Seq(Byte)
           /\ server.op = Asked.op /\ Len(served) < Len(sent)
           /\ server.got \in Seq(Byte) /\ toServer \in Seq(Byte) /\ server.need \in Nat
           /\ server.need = 0 => server.got = Asked.payload /\ toServer = << >>
<1>1. Asked \in Request /\ Len(served) < Len(sent)
  BY AskedIs DEF Inv, Counted
<1>2. Asked.payload \in Seq(Byte) /\ Len(Asked.payload) \in Nat
  BY <1>1, RequestIs
<1>3. server.got \in Seq(Byte) /\ toServer \in Seq(Byte) /\ server.need \in Nat
  BY CountIs DEF Inv, Typed, ThreadType
<1>4. /\ server.op = Asked.op /\ Len(server.got) + server.need = Len(Asked.payload)
      /\ Arrives(server.got \o toServer, Asked.payload)
  BY DEF Inv, Requested
<1>5. ASSUME server.need = 0 PROVE server.got = Asked.payload /\ toServer = << >>
  <2> DEFINE g == server.got
             t == toServer
             p == Asked.payload
  <2>1. /\ g \in Seq(Byte) /\ t \in Seq(Byte) /\ p \in Seq(Byte)
        /\ Reaches(ClientGone, g \o t, p) /\ Len(g) = Len(p)
    BY <1>2, <1>3, <1>4, <1>5 DEF Arrives
  <2> HIDE DEF g, t, p
  <2>2. g \o t \in Seq(Byte) /\ Len(g \o t) = Len(g) + Len(t) /\ Len(g) \in Nat /\ Len(t) \in Nat
    BY <2>1, JoinIs
  <2>3. PICK u \in Seq(Byte) : (g \o t) \o u = p
    <3> DEFINE b == g \o t
    <3>1. b \in Seq(Byte) /\ Reaches(ClientGone, b, p)
      BY <2>1, <2>2
    <3> HIDE DEF b
    <3>2. IsPrefix(b, p)
      BY <2>1, <3>1, ReachesPrefix
    <3>3. \E u \in Seq(Byte) : b \o u = p
      BY <2>1, <3>1, <3>2, PrefixIs
    <3> QED
      BY <3>3 DEF b
  <2>4. Len((g \o t) \o u) = Len(g \o t) + Len(u) /\ Len(u) \in Nat
    BY <2>2, JoinIs
  <2>5. Len(t) = 0 /\ Len(u) = 0
    BY <2>1, <2>2, <2>3, <2>4
  <2>6. t = << >> /\ u = << >>
    BY <2>1, <2>5, NoBytes
  <2>7. g \o << >> = g
    BY <2>1, JoinIs
  <2>8. g = p
    BY <2>3, <2>6, <2>7
  <2> QED
    BY <2>6, <2>8 DEF g, t, p
<1> QED
  BY <1>1, <1>2, <1>3, <1>4, <1>5

LEMMA PayloadReadIs ==
    ASSUME Inv, NEW op, PayloadRead(op)
    PROVE  /\ server.at = "payload" /\ server.op = op
           /\ Asked \in Request /\ Asked.payload \in Seq(Byte) /\ Asked.op = op
           /\ toServer = << >> /\ (Short => ClientGone)
           /\ ~Short => server.got = Asked.payload
<1>1. server.at = "payload" /\ server.op = op /\ (~Short \/ (ClientGone /\ toServer = << >>))
  BY DEF PayloadRead
<1>2. server.need \in Nat /\ Asked \in Request /\ Asked.payload \in Seq(Byte)
  BY <1>1, PayloadIs
<1>3. ~Short => server.need = 0
  BY <1>2 DEF Short
<1> QED
  BY <1>1, <1>2, <1>3, PayloadIs

\* A handler that has the payload, or the end of the stream, answers.
LEMMA HandlerAnswers ==
    ASSUME Inv, NEW op, PayloadRead(op),
           NEW status \in Byte, NEW content \in Seq(Byte), NEW then \in {Start, Closed},
           Serves(status, content, then),
           session' \in Byte,
           session' = session \/ (status = OK /\ op \in {LOGIN, REGISTER}),
           Suits(op, status, content)',
           status = MALFORMED_REQUEST /\ WellFormed(Asked) => Short
    PROVE  Inv'
<1>1. /\ server.at = "payload" /\ server.op = op
      /\ Asked \in Request /\ Asked.payload \in Seq(Byte) /\ Asked.op = op
      /\ toServer = << >> /\ (Short => ClientGone)
      /\ ~Short => server.got = Asked.payload
  BY PayloadReadIs
<1>2. PICK asked \in Request : asked = Asked
  BY <1>1
<1>3. PICK payload : payload = IF Short THEN NotRead ELSE server.got
  OBVIOUS
<1>4. payload \in {asked.payload, NotRead} /\ payload \in Seq(Int)
  <2>1. NotRead \in Seq(Int)
    BY DEF NotRead
  <2>2. Asked.payload \in Seq(Int)
    BY <1>1, SeqMonotonic, ByteIs DEF Byte
  <2> QED
    BY <1>1, <1>2, <1>3, <2>1, <2>2
<1>5. /\ Answers(op, payload, status, content, then)
      /\ UNCHANGED <<toServer, toClient, reset, split, client, auth_level, sent, results>>
  BY <1>1, <1>3 DEF Serves, clientVars
<1>6. split' \in BOOLEAN /\ (split => split') /\ toServer' \in Seq(Byte) /\ op \in Int
      /\ then \in Then
  BY <1>1, <1>5 DEF Inv, Typed, ThreadType, Then
<1>7. op \in {asked.op, NoOpcode} /\ (status = OK => op = asked.op)
  BY <1>1, <1>2
<1>8. Suits(asked.op, status, content)'
  BY <1>1, <1>2
<1>9. Follows(ClientGone, toServer', then)
  BY <1>1, <1>5 DEF Follows
<1>10. status = MALFORMED_REQUEST /\ WellFormed(asked) =>
           ClientGone \/ (split' /\ then = Closed)
  BY <1>1, <1>2
<1> HIDE DEF Inv
<1> QED
  BY <1>1, <1>2, <1>4, <1>5, <1>6, <1>7, <1>8, <1>9, <1>10, ThreadAnswers

\* What the handlers ask of a payload.
LEMMA WellFormedIs ==
    ASSUME NEW r, WellFormed(r)
    PROVE  /\ r.op \in {LOGIN, REGISTER} =>
                 /\ ~BadSize(r.op, Len(r.payload))
                 /\ is_printable(SubSeq(r.payload, 1, Len(r.payload) - DIGEST_LEN))
           /\ r.op = INSERT => WellFormedInsert(r.payload)
           /\ r.op = SEARCH => r.payload # << >>
BY DEF WellFormed, LOGIN, REGISTER, INSERT, SEARCH

\* An answer without a payload.
LEMMA Bare ==
    ASSUME NEW op, NEW status, ~(op = LOGIN /\ status = OK),
           ~(op = SEARCH /\ status \in {ALL_RETURNED, FEWER_RETURNED})
    PROVE  Suits(op, status, << >>)'
<1>1. Len(<< >>) = 0
  OBVIOUS
<1> QED
  BY <1>1 DEF Suits

LEMMA Statuses ==
    /\ {OK, SERVER_ERROR, MALFORMED_REQUEST, NOT_FOUND, UNAUTHORIZED, INVALID_CREDENTIALS,
        USERNAME_TAKEN, ALL_RETURNED, FEWER_RETURNED} \subseteq Byte
    /\ << >> \in Seq(Byte)
<1>1. << >> \in Seq(Byte)
  BY EmptySeq
<1> QED
  BY <1>1, ByteIs DEF OK, SERVER_ERROR, MALFORMED_REQUEST, NOT_FOUND, UNAUTHORIZED,
          INVALID_CREDENTIALS, USERNAME_TAKEN, ALL_RETURNED, FEWER_RETURNED

\* The same of a handler that changes neither the session nor the contacts.
LEMMA HandlerOnlyAnswers ==
    ASSUME Inv, NEW op, PayloadRead(op),
           NEW status \in Byte, NEW then \in {Start, Closed},
           Serves(status, << >>, then),
           UNCHANGED session, UNCHANGED found,
           ~(op = LOGIN /\ status = OK),
           ~(op = SEARCH /\ status \in {ALL_RETURNED, FEWER_RETURNED}),
           status = MALFORMED_REQUEST /\ WellFormed(Asked) => Short
    PROVE  Inv'
<1>1. session' \in Byte
  BY DEF Inv, Typed
<1>2. Suits(op, status, << >>)' /\ << >> \in Seq(Byte)
  BY Bare, Statuses
<1> HIDE DEF Inv
<1> QED
  BY <1>1, <1>2, HandlerAnswers

\* A LOGIN that has no answer: the thread is ready for a request that does not come.
LEMMA SilentStep ==
    ASSUME Inv, PayloadRead(LOGIN), ~Short, LoginUnanswered, UNCHANGED <<session, found>>
    PROVE  Inv'
<1>1. /\ server.at = "payload" /\ Asked \in Request /\ Asked.payload \in Seq(Byte)
      /\ Asked.op = LOGIN /\ toServer = << >> /\ server.got = Asked.payload
  BY PayloadReadIs
<1>2. /\ server' = [server EXCEPT !.at = "start", !.need = 1, !.got = << >>]
      /\ UNCHANGED <<toServer, toClient, reset, split, client, auth_level, sent, results>>
  BY DEF LoginUnanswered, clientVars
<1>3. /\ server' \in ThreadType /\ server'.at = "start" /\ server'.need = 1
      /\ server'.got = << >>
  <2>1. server \in ThreadType /\ 1 \in Count /\ << >> \in Seq(Byte) /\ "start" \in ServerAt
    <3>1. 1 \in Count /\ << >> \in Seq(Byte)
      BY CountIs, EmptySeq
    <3> QED
      BY <3>1 DEF Inv, Typed, ServerAt
  <2>2. server' = [at |-> "start", need |-> 1, got |-> << >>, op |-> server.op,
                   answer |-> server.answer]
    BY <1>2, <2>1 DEF ThreadType
  <2>3. server.op \in Int /\ server.answer \in AnswerType
    BY <2>1 DEF ThreadType
  <2> QED
    BY <2>1, <2>2, <2>3 DEF ThreadType
<1>4. /\ Len(served) < Len(sent) /\ Len(served) \in Nat /\ Len(sent) \in Nat
      /\ Len(sent) = Len(served) + 1 /\ ~reset /\ client.at # "idle"
      /\ Waits => client.at = "start" /\ client.got = << >> /\ client.need = 1 /\ toClient = << >>
  BY <1>1, ReadingIs
<1>5. PICK asked \in Request : asked = Asked
  BY <1>1
<1>6. PICK payload \in Seq(Int) : payload = asked.payload
  <2>1. Asked.payload \in Seq(Int)
    BY <1>1, SeqMonotonic, ByteIs DEF Byte
  <2> QED
    BY <1>5, <2>1
<1>7. Adds(LOGIN, payload, NotSent)
  BY <1>1, <1>5, <1>6 DEF LoginUnanswered, Adds
<1>8. LOGIN \in Int /\ NotSent \in Byte /\ NotSent # OK /\ NotSent # MALFORMED_REQUEST
  BY ByteIs DEF LOGIN, NotSent, OK, MALFORMED_REQUEST
<1>9. LOGIN \in {asked.op, NoOpcode} /\ payload \in {asked.payload, NotRead}
  BY <1>1, <1>5, <1>6
<1>10. /\ served' \in Seq(ServedType) /\ Len(served') = Len(sent)
       /\ Len(sent) > 0 /\ Last(served').status = NotSent
       /\ ServedWell' /\ SplitOnly' /\ LeftAlone' /\ Returned' /\ LevelKnown'
  BY <1>1, <1>2, <1>5, <1>7, <1>8, <1>9, ServesOne
<1>11. Typed'
  BY <1>2, <1>3, <1>10 DEF Inv, Typed
<1>12. Counted'
  BY <1>2, <1>3, <1>4, <1>10 DEF Inv, Counted, Waits
<1>13. Requested'
  <2>1. Unserved' = << >>
    BY <1>2, <1>4, <1>10, UnservedIs DEF Unserved
  <2>2. Reaches(ClientGone', << >>, << >>)
    <3>1. << >> \in Seq(Byte) /\ << >> \o << >> = << >>
      BY Statuses, JoinIs
    <3> QED
      BY ZenonT(60), <3>1, PrefixIs DEF Reaches
  <2> QED
    BY <1>1, <1>2, <1>3, <2>1, <2>2 DEF Requested, Arrives
<1>14. Answered'
  <2>1. served' # << >>
    BY <1>4, <1>10, EmptySeq
  <2>2. ASSUME Waits PROVE Forgotten'
    BY <1>2, <1>3, <1>4, <1>10, <2>1, <2>2 DEF Forgotten, Unanswered
  <2> QED
    BY <1>2, <1>3, <1>4, <2>2 DEF Answered, Waits
<1> QED
  BY <1>10, <1>11, <1>12, <1>13, <1>14 DEF Inv

LEMMA LoginStep ==
    ASSUME Inv, HandleLogin
    PROVE  Inv'
<1> USE Statuses
<1>1. PayloadRead(LOGIN) /\ UNCHANGED found
  BY DEF HandleLogin
<1>2. /\ Asked \in Request /\ Asked.op = LOGIN /\ (~Short => server.got = Asked.payload)
  BY <1>1, PayloadReadIs
<1>3. CASE (Short \/ ~is_printable(Username)) /\ Serves(MALFORMED_REQUEST, << >>, Closed)
           /\ UNCHANGED session
  <2>1. WellFormed(Asked) => Short
    BY <1>2, <1>3, WellFormedIs DEF Username
  <2>2. MALFORMED_REQUEST # OK /\ LOGIN # SEARCH
    BY DEF MALFORMED_REQUEST, OK, LOGIN, SEARCH
  <2> QED
    BY <1>1, <1>3, <2>1, <2>2, HandlerOnlyAnswers
<1>4. CASE (Serves(INVALID_CREDENTIALS, << >>, Start) \/ Serves(SERVER_ERROR, << >>, Closed))
           /\ UNCHANGED session
  <2>1. /\ INVALID_CREDENTIALS \notin {OK, MALFORMED_REQUEST}
        /\ SERVER_ERROR \notin {OK, MALFORMED_REQUEST} /\ LOGIN # SEARCH
    BY DEF INVALID_CREDENTIALS, SERVER_ERROR, MALFORMED_REQUEST, OK, LOGIN, SEARCH
  <2> QED
    BY <1>1, <1>4, <2>1, HandlerOnlyAnswers
<1>5. ASSUME NEW level \in Level, session' = level, Serves(OK, <<level>>, Start)
      PROVE  Inv'
  <2>1. level \in Byte /\ <<level>> \in Seq(Byte) /\ Len(<<level>>) = 1
    BY LevelAssumption DEF Byte
  <2>2. Suits(LOGIN, OK, <<level>>)'
    BY <1>5, <2>1 DEF Suits
  <2>3. OK # MALFORMED_REQUEST
    BY DEF OK, MALFORMED_REQUEST
  <2> QED
    BY <1>1, <1>5, <2>1, <2>2, <2>3, HandlerAnswers
<1>6. CASE ~Short /\ LoginUnanswered /\ UNCHANGED session
  BY <1>1, <1>6, SilentStep
<1> QED
  BY <1>3, <1>4, <1>5, <1>6 DEF HandleLogin

LEMMA RegisterStep ==
    ASSUME Inv, HandleRegister
    PROVE  Inv'
<1> USE Statuses
<1>1. PayloadRead(REGISTER) /\ UNCHANGED found
  BY DEF HandleRegister
<1>2. /\ Asked \in Request /\ Asked.op = REGISTER /\ (~Short => server.got = Asked.payload)
  BY <1>1, PayloadReadIs
<1>3. REGISTER # LOGIN /\ REGISTER # SEARCH
  BY DEF REGISTER, LOGIN, SEARCH
<1>4. ASSUME UNCHANGED session, NEW then \in {Start, Closed},
             Short \/ ~is_printable(Username), Serves(MALFORMED_REQUEST, << >>, then)
      PROVE  Inv'
  <2>1. WellFormed(Asked) => Short
    BY <1>2, <1>4, WellFormedIs DEF Username
  <2> QED
    BY <1>1, <1>3, <1>4, <2>1, HandlerOnlyAnswers
<1>5. ASSUME UNCHANGED session, NEW status \in {USERNAME_TAKEN, SERVER_ERROR},
             Serves(status, << >>, Start)
      PROVE  Inv'
  <2>1. status # MALFORMED_REQUEST /\ status \in Byte
    BY DEF USERNAME_TAKEN, SERVER_ERROR, MALFORMED_REQUEST
  <2> QED
    BY <1>1, <1>3, <1>5, <2>1, HandlerOnlyAnswers
<1>6. CASE session' = ANONYMOUS /\ Serves(OK, << >>, Start)
  <2>1. session' \in Byte
    BY <1>6, ByteIs DEF ANONYMOUS
  <2>2. Suits(REGISTER, OK, << >>)' /\ OK # MALFORMED_REQUEST
    BY <1>3, Bare DEF OK, MALFORMED_REQUEST
  <2> QED
    BY <1>1, <1>6, <2>1, <2>2, HandlerAnswers
<1> QED
  BY <1>4, <1>5, <1>6 DEF HandleRegister

LEMMA InsertStep ==
    ASSUME Inv, HandleInsert
    PROVE  Inv'
<1> USE Statuses
<1>1. PayloadRead(INSERT) /\ UNCHANGED session /\ UNCHANGED found
  BY DEF HandleInsert
<1>2. /\ Asked \in Request /\ Asked.op = INSERT /\ Asked.payload \in Seq(Byte)
      /\ (~Short => server.got = Asked.payload)
  BY <1>1, PayloadReadIs
<1>3. INSERT # LOGIN /\ INSERT # SEARCH
  BY DEF INSERT, LOGIN, SEARCH
<1>4. CASE (Short \/ ~WellFormedInsert(server.got)) /\ Serves(MALFORMED_REQUEST, << >>, Start)
  <2>1. WellFormed(Asked) => Short
    BY <1>2, <1>4, WellFormedIs
  <2> QED
    BY <1>1, <1>3, <1>4, <2>1, HandlerOnlyAnswers
<1>5. CASE Serves(OK, << >>, Start) \/ Serves(SERVER_ERROR, << >>, Closed)
  <2>1. SERVER_ERROR # MALFORMED_REQUEST /\ OK # MALFORMED_REQUEST
    BY DEF SERVER_ERROR, OK, MALFORMED_REQUEST
  <2> QED
    BY <1>1, <1>3, <1>5, <2>1, HandlerOnlyAnswers
<1> QED
  BY <1>4, <1>5 DEF HandleInsert

LEMMA DeleteStep ==
    ASSUME Inv, HandleDelete
    PROVE  Inv'
<1> USE Statuses
<1>1. PayloadRead(DELETE) /\ UNCHANGED session /\ UNCHANGED found
  BY DEF HandleDelete
<1>2. DELETE # LOGIN /\ DELETE # SEARCH
  BY DEF DELETE, LOGIN, SEARCH
<1>3. CASE Short /\ Serves(MALFORMED_REQUEST, << >>, Start)
  BY <1>1, <1>2, <1>3, HandlerOnlyAnswers
<1>4. ASSUME NEW status \in {OK, NOT_FOUND}, Serves(status, << >>, Start)
      PROVE  Inv'
  <2>1. status \in Byte /\ status # MALFORMED_REQUEST
    BY DEF OK, NOT_FOUND, MALFORMED_REQUEST
  <2> QED
    BY <1>1, <1>2, <1>4, <2>1, HandlerOnlyAnswers
<1>5. CASE Serves(SERVER_ERROR, << >>, Closed)
  <2>1. SERVER_ERROR # MALFORMED_REQUEST
    BY DEF SERVER_ERROR, MALFORMED_REQUEST
  <2> QED
    BY <1>1, <1>2, <1>5, <2>1, HandlerOnlyAnswers
<1> QED
  BY <1>3, <1>4, <1>5 DEF HandleDelete

-----------------------------------------------------------------------------
(***************************************************************************)
(* The header of a request.                                                *)
(***************************************************************************)

\* A whole header is that of the request, and its payload comes next.
LEMMA WholeHeader ==
    ASSUME Inv, server.at = "header", 3 <= Len(toServer)
    PROVE  LET header == SubSeq(toServer, 1, 3)
           IN  /\ header[1] = Asked.op /\ SizeIn(header) = Len(Asked.payload)
               /\ Arrives(Drop(toServer, 3), Asked.payload)
<1>1. Asked \in Request
  BY AskedIs DEF Inv, Counted
<1>2. PICK p : p = Asked.payload
  OBVIOUS
<1>3. PICK op : op = Asked.op
  OBVIOUS
<1>4. /\ op \in Byte /\ p \in Seq(Byte) /\ Len(p) < 65536
      /\ Tail(PacketOf(Asked)) \in Seq(Byte)
      /\ Tail(PacketOf(Asked)) = Header(op, p) \o p
  <2>1. /\ Asked.op \in Byte /\ Asked.payload \in Seq(Byte) /\ Len(Asked.payload) < 65536
        /\ IsPacket(PacketOf(Asked), Asked.op, Asked.payload)
    BY <1>1, RequestIs
  <2>2. op \in Byte /\ p \in Seq(Byte) /\ Len(p) < 65536 /\ IsPacket(PacketOf(Asked), op, p)
    BY <1>2, <1>3, <2>1
  <2> QED
    BY SMTT(40), <2>2 DEF IsPacket
<1>5. /\ Header(op, p) \in Seq(Byte) /\ Len(Header(op, p)) = 3
      /\ Header(op, p)[1] = op /\ SizeIn(Header(op, p)) = Len(p)
  BY <1>4, HeaderIs
<1> DEFINE h == Header(op, p)
           t == toServer
           a == SubSeq(t, 1, 3)
           d == Drop(t, 3)
           w == Tail(PacketOf(Asked))
<1>6. /\ h \in Seq(Byte) /\ p \in Seq(Byte) /\ Len(h) = 3 /\ w = h \o p /\ t \in Seq(Byte) /\ w \in Seq(Byte)
  <2>1. t \in Seq(Byte)
    BY DEF Inv, Typed
  <2>2. h \in Seq(Byte) /\ Len(h) = 3
    BY <1>5
  <2>3. p \in Seq(Byte) /\ w = h \o p /\ w \in Seq(Byte)
    BY SMTT(40), <1>4
  <2> QED
    BY <2>1, <2>2, <2>3
<1>7. a \in Seq(Byte) /\ Len(a) = 3 /\ d \in Seq(Byte) /\ a \o d = t
  BY <1>6, CutIs
<1>8. Reaches(ClientGone, t, w)
  BY DEF Inv, Requested, Arrives
<1> HIDE DEF h, t, a, d, w
<1>9. IsPrefix(t, w)
  BY <1>6, <1>8, ReachesPrefix
<1>10. PICK u \in Seq(Byte) : t \o u = w
  BY <1>6, <1>9, PrefixIs
<1>11. (a \o d) \o u = a \o (d \o u) /\ d \o u \in Seq(Byte)
  <2>1. a \in Seq(Byte) /\ d \in Seq(Byte)
    BY <1>7
  <2> QED
    BY <2>1
<1>12. a = h /\ d \o u = p
  <2> DEFINE e == d \o u
  <2>1. e \in Seq(Byte) /\ a \o e = h \o p
    BY <1>6, <1>7, <1>10, <1>11
  <2> HIDE DEF e
  <2>2. a = h /\ e = p
    BY <1>6, <1>7, <2>1, PartsOnce
  <2> QED
    BY <2>2 DEF e
<1>13. Reaches(ClientGone, d, p)
  <2>1. CASE ClientGone
    BY <1>6, <1>7, <1>12, <2>1, PrefixIs DEF Reaches
  <2>2. CASE ~ClientGone
    <3>1. t = w
      BY <1>8, <2>2 DEF Reaches
    <3>2. a \o d = h \o p
      BY <1>6, <1>7, <3>1
    <3>3. d = p
      BY <1>6, <1>7, <3>2, PartsOnce
    <3> QED
      BY <2>2, <3>3 DEF Reaches
  <2> QED
    BY <2>1, <2>2
<1> QED
  BY <1>2, <1>3, <1>5, <1>12, <1>13 DEF h, a, d, t, Arrives

LEMMA RefusedAt ==
    ASSUME Inv, server.at = "header", NEW n \in Pieces(toServer, 3), toServer' = Drop(toServer, n),
           NEW op \in Int, NEW status \in Byte, NEW then \in Then,
           Answers(op, NotRead, status, << >>, then),
           UNCHANGED <<toClient, reset, session, found, client, auth_level, sent, results>>,
           split' \in BOOLEAN, split => split',
           op \in {Asked.op, NoOpcode}, status \in {MALFORMED_REQUEST, UNAUTHORIZED},
           Follows(ClientGone, toServer', then),
           status = MALFORMED_REQUEST /\ WellFormed(Asked) => split' /\ then = Closed
    PROVE  Inv'
<1>1. PICK asked : asked = Asked
  OBVIOUS
<1>2. NotRead \in Seq(Int) /\ << >> \in Seq(Byte)
  BY Statuses DEF NotRead
<1>3. toServer' \in Seq(Byte) /\ session' \in Byte
  <2>1. toServer \in Seq(Byte) /\ n \in Nat /\ n <= Len(toServer)
    BY DEF Inv, Typed, Pieces
  <2>2. Drop(toServer, n) \in Seq(Byte)
    BY <2>1, CutIs
  <2> QED
    BY <2>2 DEF Inv, Typed
<1>4. status # OK
  BY DEF OK, MALFORMED_REQUEST, UNAUTHORIZED
<1>5. Suits(asked.op, status, << >>)'
  BY <1>4, Bare DEF MALFORMED_REQUEST, UNAUTHORIZED, ALL_RETURNED, FEWER_RETURNED
<1>6. op \in {asked.op, NoOpcode} /\ NotRead \in {asked.payload, NotRead}
  BY <1>1
<1>7. status = MALFORMED_REQUEST /\ WellFormed(asked) => ClientGone \/ (split' /\ then = Closed)
  BY <1>1
<1> HIDE DEF Inv
<1> QED
  BY <1>1, <1>2, <1>3, <1>4, <1>5, <1>6, <1>7, ThreadAnswers

LEMMA HeaderStep ==
    ASSUME Inv, RecvHeader
    PROVE  Inv'
<1>1. server.at = "header" /\ UNCHANGED <<toClient, reset, session, found, client, auth_level, sent, results>>
  BY DEF RecvHeader, clientVars
<1>2. Asked \in Request /\ Asked.op \in Byte /\ Asked.op \in LOGIN .. SEARCH
      /\ Asked.payload \in Seq(Byte) /\ Len(Asked.payload) \in Nat /\ Len(Asked.payload) < 65536
      /\ Len(served) < Len(sent)
  BY <1>1, AskedIs, RequestIs DEF Inv, Counted
<1>3. PICK n \in Pieces(toServer, 3) :
          /\ toServer' = Drop(toServer, n)
          /\ split' = (split \/ n < 3)
          /\ IF n < 3
             THEN Answers(NoOpcode, NotRead, MALFORMED_REQUEST, << >>, Closed)
             ELSE Dispatch(SubSeq(toServer, 1, n)[1], SizeIn(SubSeq(toServer, 1, n)))
  BY DEF RecvHeader
<1>4. n \in 1 .. 3 /\ n <= Len(toServer) /\ toServer \in Seq(Byte)
      /\ split' \in BOOLEAN /\ (split => split')
  BY <1>3 DEF Pieces, Inv, Typed
<1>5. Closed \in Then /\ \A bytes : Follows(ClientGone, bytes, Closed)
  BY DEF Then, Follows
<1>6. MALFORMED_REQUEST \in Byte /\ UNAUTHORIZED \in Byte /\ MALFORMED_REQUEST # UNAUTHORIZED
  BY Statuses DEF MALFORMED_REQUEST, UNAUTHORIZED
<1>7. CASE n < 3
  <2>1. Answers(NoOpcode, NotRead, MALFORMED_REQUEST, << >>, Closed) /\ split' = TRUE
    BY <1>3, <1>7
  <2>2. NoOpcode \in Int
    BY DEF NoOpcode
  <2> HIDE DEF Inv
  <2> QED
    BY <1>1, <1>3, <1>4, <1>5, <1>6, <2>1, <2>2, RefusedAt
<1>8. CASE n = 3
  <2> DEFINE op == Asked.op
             size == Len(Asked.payload)
  <2>1. Dispatch(op, size) /\ Arrives(Drop(toServer, 3), Asked.payload)
    BY <1>1, <1>3, <1>4, <1>8, WholeHeader
  <2>2. op \in LOGIN .. SEARCH /\ op \in Int /\ size \in Nat /\ size < 65536
    BY <1>2 DEF Byte
  <2>3. CASE BadSize(op, size)
    <3>1. Answers(op, NotRead, MALFORMED_REQUEST, << >>, Closed)
      BY <2>1, <2>3 DEF Dispatch, BadSize, Unauthorized, LOGIN, REGISTER, INSERT, DELETE, SEARCH
    <3>2. ~WellFormed(Asked)
      BY <2>3, WellFormedIs DEF BadSize
    <3> HIDE DEF Inv
    <3> QED
      BY <1>1, <1>3, <1>4, <1>5, <1>6, <2>2, <3>1, <3>2, RefusedAt
  <2>4. CASE ~BadSize(op, size) /\ Unauthorized(op)
    <3>1. Answers(op, NotRead, UNAUTHORIZED, << >>, Discarding(size))
      BY <2>1, <2>2, <2>4 DEF Dispatch
    <3>2. Discarding(size) \in Then
      BY <2>2, CountIs DEF Then
    <3>3. Follows(ClientGone, toServer', Discarding(size))
      <4> DEFINE d == Drop(toServer, 3)
                 p == Asked.payload
      <4>1. d \in Seq(Byte) /\ p \in Seq(Byte) /\ Reaches(ClientGone, d, p) /\ toServer' = d
        BY <1>2, <1>3, <1>4, <1>8, <2>1, CutIs DEF Arrives
      <4> HIDE DEF d
      <4>2. IsPrefix(d, p) /\ (~ClientGone => d = p)
        BY <4>1, ReachesPrefix DEF Reaches
      <4>3. Len(d) <= Len(p) /\ Len(d) \in Nat /\ Len(p) \in Nat /\ (~ClientGone => Len(d) = Len(p))
        BY <4>1, <4>2, LenProperties DEF IsPrefix
      <4>4. CASE size = 0
        <5>1. d = << >>
          BY <4>1, <4>3, <4>4, NoBytes
        <5> QED
          BY <4>1, <4>4, <5>1 DEF Follows, Discarding
      <4>5. CASE size > 0
        BY <4>1, <4>3, <4>5 DEF Follows, Discarding
      <4> QED
        BY <2>2, <4>4, <4>5
    <3> HIDE DEF Inv
    <3> QED
      BY <1>1, <1>3, <1>4, <1>6, <2>2, <3>1, <3>2, <3>3, RefusedAt
  <2>5. CASE ~BadSize(op, size) /\ ~Unauthorized(op)
    <3>1. server' = [server EXCEPT !.at = "payload", !.op = op, !.need = size] /\ UNCHANGED served
      BY <2>1, <2>2, <2>5 DEF Dispatch
    <3>2. server \in ThreadType /\ size \in Count /\ "payload" \in ServerAt
      BY <2>2, CountIs DEF Inv, Typed, ServerAt
    <3> HIDE DEF op, size
    <3>3. server' \in ThreadType /\ server'.at = "payload" /\ server'.op = op /\ server'.need = size
          /\ server'.got = server.got
      <4>1. server' = [at |-> "payload", need |-> size, got |-> server.got, op |-> op,
                       answer |-> server.answer]
        BY <3>1, <3>2 DEF ThreadType
      <4>2. server.got \in Seq(Byte) /\ server.answer \in AnswerType
        BY <3>2 DEF ThreadType
      <4> QED
        BY <2>2, <3>2, <4>1, <4>2 DEF ThreadType
    <3>4. Typed'
      <4>1. Drop(toServer, n) \in Seq(Byte)
        BY <1>4, CutIs
      <4> QED
        BY <1>1, <1>3, <1>4, <3>1, <3>3, <4>1 DEF Inv, Typed
    <3>5. Counted'
      BY <1>1, <1>2, <3>1, <3>3 DEF Inv, Counted, Waits
    <3>6. Arrives(server.got \o toServer, Asked.payload)'
      <4> DEFINE d == Drop(toServer, 3)
      <4>1. server'.got = << >> /\ toServer' = d /\ Asked' = Asked /\ ClientGone' = ClientGone
        BY <1>1, <1>3, <1>8, <3>1, <3>3 DEF Inv, Requested, Asked, ClientGone
      <4>2. d \in Seq(Byte)
        BY <1>4, <1>8, CutIs
      <4>3. Reaches(ClientGone, d, Asked.payload)
        BY <2>1 DEF Arrives
      <4> HIDE DEF d
      <4>4. << >> \o d = d
        BY <4>2, JoinIs
      <4> QED
        BY <4>1, <4>3, <4>4 DEF Arrives
    <3>7. Requested'
      <4>1. Asked' = Asked /\ Len(<< >>) = 0 /\ server.got = << >>
        BY <1>1, <3>1 DEF Inv, Requested, Asked
      <4> QED
        BY <2>2, <3>3, <3>6, <4>1 DEF Requested, op, size
    <3>8. Answered'
      BY <1>1, <1>2, <3>1, <3>3, ThreadReads DEF Inv, Counted
    <3>9. ServedWell' /\ SplitOnly' /\ LeftAlone' /\ Returned' /\ LevelKnown'
      BY <1>1, <1>4, <3>1, <3>3, ThreadMoves DEF Ending
    <3> QED
      BY <3>4, <3>5, <3>7, <3>8, <3>9 DEF Inv
  <2> QED
    BY <2>3, <2>4, <2>5
<1> QED
  BY <1>4, <1>7, <1>8

-----------------------------------------------------------------------------
(***************************************************************************)
(* What the thread reads, piece by piece.                                  *)
(***************************************************************************)

LEMMA FirstReaches ==
    ASSUME NEW S, NEW gone, NEW b \in Seq(S), NEW w \in Seq(S), Reaches(gone, b, w), b # << >>
    PROVE  w # << >> /\ Head(b) = Head(w) /\ Reaches(gone, Tail(b), Tail(w))
<1>1. PICK u \in Seq(S) : b \o u = w
  BY ReachesPrefix, PrefixIs
<1>2. w # << >>
  <2>1. Len(b \o u) = Len(b) + Len(u) /\ Len(b) \in Nat /\ Len(u) \in Nat
    BY JoinIs
  <2>2. Len(b) # 0
    BY NoBytes
  <2> QED
    BY <1>1, <2>1, <2>2, NoBytes
<1> DEFINE x == <<Head(b)>>
           y == <<Head(w)>>
           tb == Tail(b)
           tw == Tail(w)
<1>3. x \in Seq(S) /\ tb \in Seq(S) /\ Len(x) = 1 /\ x \o tb = b /\ x[1] = Head(b)
  BY FirstAndRest
<1>4. y \in Seq(S) /\ tw \in Seq(S) /\ Len(y) = 1 /\ y \o tw = w /\ y[1] = Head(w)
  BY <1>2, FirstAndRest
<1> HIDE DEF x, y, tb, tw
<1>5. (x \o tb) \o u = x \o (tb \o u) /\ tb \o u \in Seq(S)
  <2>1. x \in Seq(S) /\ tb \in Seq(S)
    BY <1>3
  <2> QED
    BY <2>1
<1>6. x = y /\ tb \o u = tw
  <2> DEFINE e == tb \o u
  <2>1. e \in Seq(S) /\ x \o e = y \o tw
    BY <1>1, <1>3, <1>4, <1>5
  <2> HIDE DEF e
  <2>2. x = y /\ e = tw
    BY <1>3, <1>4, <2>1, PartsOnce
  <2> QED
    BY <2>2 DEF e
<1>7. Reaches(gone, tb, tw)
  <2>1. CASE gone
    BY <1>3, <1>4, <1>6, <2>1, PrefixIs DEF Reaches
  <2>2. CASE ~gone
    BY <2>2 DEF Reaches, tb, tw
  <2> QED
    BY <2>1, <2>2
<1> QED
  BY <1>2, <1>3, <1>4, <1>6, <1>7 DEF tb, tw

\* Where the thread waits for a packet, the next one starts.
LEMMA UnservedFacts ==
    ASSUME Inv
    PROVE  /\ Unserved \in Seq(Byte)
           /\ Len(served) = Len(sent) => Unserved = << >>
           /\ Len(served) < Len(sent) => Unserved = PacketOf(Asked)
<1>1. Len(sent) \in Nat /\ Len(served) \in Nat
      /\ (Len(sent) = Len(served) \/ Len(sent) = Len(served) + 1)
  <2>1. Len(sent) \in Nat /\ Len(served) \in Nat
    BY Lengths DEF Inv
  <2>2. Len(served) <= Len(sent) /\ Len(sent) <= Len(served) + 1
    BY DEF Inv, Counted
  <2> QED
    BY <2>1, <2>2
<1>2. /\ Len(sent) = Len(served) => Unserved = << >>
      /\ Len(sent) = Len(served) + 1 => Unserved = PacketOf(Asked)
  BY <1>1, UnservedIs DEF Unserved, Asked
<1>3. ASSUME Len(sent) = Len(served) + 1 PROVE PacketOf(Asked) \in Seq(Byte)
  <2>1. Len(served) < Len(sent)
    BY <1>1, <1>3
  <2>2. Asked \in Request
    BY <2>1, AskedIs
  <2>3. IsPacket(PacketOf(Asked), Asked.op, Asked.payload)
    BY <2>2, RequestIs
  <2> QED
    BY <2>3 DEF IsPacket
<1>4. << >> \in Seq(Byte)
  BY EmptySeq
<1>5. CASE Len(sent) = Len(served)
  <2>1. Unserved = << >> /\ ~(Len(served) < Len(sent))
    BY <1>1, <1>2, <1>5
  <2> QED
    BY <1>4, <2>1
<1>6. CASE Len(sent) = Len(served) + 1
  <2>1. Unserved = PacketOf(Asked) /\ Len(served) # Len(sent)
    BY <1>1, <1>2, <1>6
  <2> QED
    BY <1>3, <1>6, <2>1
<1> QED
  BY <1>1, <1>5, <1>6

LEMMA StartStep ==
    ASSUME Inv, RecvStart
    PROVE  Inv'
<1>1. server.at = "start" /\ toServer # << >> /\ UNCHANGED served
  BY DEF RecvStart
<1>2. toServer \in Seq(Byte) /\ Unserved \in Seq(Byte) /\ Reaches(ClientGone, toServer, Unserved)
  BY <1>1, UnservedFacts DEF Inv, Typed, Requested, Arrives
<1>3. /\ Unserved # << >> /\ Head(toServer) = Head(Unserved)
      /\ Reaches(ClientGone, Tail(toServer), Tail(Unserved))
  BY <1>1, <1>2, FirstReaches
<1>4. Len(served) < Len(sent) /\ Unserved = PacketOf(Asked)
  <2>1. Len(served) # Len(sent)
    BY SMTT(60), <1>3, UnservedFacts
  <2>2. Len(sent) \in Nat /\ Len(served) \in Nat /\ Len(served) <= Len(sent)
    BY Lengths DEF Inv, Counted
  <2> QED
    BY <2>1, <2>2, UnservedFacts
<1>5. Head(toServer) = STARTING_SEQ
  <2>1. Asked \in Request
    BY <1>4, AskedIs
  <2>2. IsPacket(PacketOf(Asked), Asked.op, Asked.payload)
    BY <2>1, RequestIs
  <2>3. Head(PacketOf(Asked)) = STARTING_SEQ
    BY <2>2 DEF IsPacket
  <2> QED
    BY <1>3, <1>4, <2>3
<1>6. /\ server' = [server EXCEPT !.at = "header", !.need = 3]
      /\ toServer' = Tail(toServer)
      /\ UNCHANGED <<toClient, reset, session, found, split, client, auth_level, sent, results>>
  BY <1>5 DEF RecvStart, clientVars
<1>7. /\ server' \in ThreadType /\ server'.at = "header" /\ server'.need = 3
      /\ server'.got = server.got
  <2>1. 3 \in Count /\ "header" \in ServerAt
    BY CountIs DEF ServerAt
  <2> QED
    BY <1>6, <2>1 DEF Inv, Typed, ThreadType
<1>8. Typed'
  <2>1. Tail(toServer) \in Seq(Byte)
    BY <1>1, <1>2, HeadTailProperties
  <2> QED
    BY <1>1, <1>6, <1>7, <2>1 DEF Inv, Typed
<1>9. Counted'
  BY <1>1, <1>4, <1>6, <1>7 DEF Inv, Counted, Waits
<1>10. Requested'
  <2>1. Arrives(toServer, Tail(PacketOf(Asked)))'
    BY <1>1, <1>3, <1>4, <1>6 DEF Arrives, Asked, ClientGone
  <2>2. server'.got = << >>
    BY <1>1, <1>7 DEF Inv, Requested
  <2> QED
    BY <1>7, <2>1, <2>2 DEF Requested
<1>11. Answered'
  BY <1>1, <1>4, <1>6, <1>7, ThreadReads DEF Inv, Counted
<1>12. ServedWell' /\ SplitOnly' /\ LeftAlone' /\ Returned' /\ LevelKnown'
  BY <1>1, <1>6, <1>7, ThreadMoves DEF Ending
<1> QED
  BY <1>8, <1>9, <1>10, <1>11, <1>12 DEF Inv

LEMMA PayloadStep ==
    ASSUME Inv, RecvPayload
    PROVE  Inv'
<1>1. server.at = "payload"
      /\ UNCHANGED <<toClient, reset, session, found, served, split, client, auth_level, sent, results>>
  BY DEF RecvPayload, clientVars
<1>2. PICK n \in Pieces(toServer, server.need) :
          /\ server' = [server EXCEPT !.need = @ - n, !.got = @ \o SubSeq(toServer, 1, n)]
          /\ toServer' = Drop(toServer, n)
  BY DEF RecvPayload
<1> DEFINE got == server.got \o SubSeq(toServer, 1, n)
           need == server.need - n
<1>3. /\ toServer \in Seq(Byte) /\ server.got \in Seq(Byte) /\ server.need \in Count
      /\ server \in ThreadType
  BY DEF Inv, Typed, ThreadType
<1>4. n \in Nat /\ n <= server.need /\ n <= Len(toServer) /\ server.need \in Nat /\ server.need < 65536
  BY <1>3, CountIs DEF Pieces
<1>5. /\ got \in Seq(Byte) /\ Len(got) = Len(server.got) + n
      /\ got \o Drop(toServer, n) = server.got \o toServer
      /\ Drop(toServer, n) \in Seq(Byte)
  <2> DEFINE g == server.got
  <2>1. g \in Seq(Byte) /\ toServer \in Seq(Byte) /\ n \in Nat /\ n <= Len(toServer)
    BY <1>3, <1>4
  <2> HIDE DEF g
  <2>2. /\ g \o SubSeq(toServer, 1, n) \in Seq(Byte)
        /\ Len(g \o SubSeq(toServer, 1, n)) = Len(g) + n
        /\ (g \o SubSeq(toServer, 1, n)) \o Drop(toServer, n) = g \o toServer
    BY ZenonT(60), <2>1, PieceJoins
  <2>3. Drop(toServer, n) \in Seq(Byte)
    BY <2>1, CutIs
  <2> QED
    BY <2>2, <2>3 DEF g
<1>6. need \in Nat /\ need < 65536 /\ need = server.need - n
  BY <1>4
<1>7. need \in Count
  BY <1>6, CountIs
<1>8. server' = [server EXCEPT !.need = need, !.got = got]
  BY <1>2
<1> HIDE DEF got, need
<1>9. /\ server' \in ThreadType /\ server'.at = "payload" /\ server'.need = need
      /\ server'.got = got /\ server'.op = server.op
  <2>1. server' = [at |-> "payload", need |-> need, got |-> got, op |-> server.op,
                   answer |-> server.answer]
    BY <1>1, <1>3, <1>8 DEF ThreadType
  <2>2. server.op \in Int /\ server.answer \in AnswerType /\ "payload" \in ServerAt
    BY <1>3 DEF ThreadType, ServerAt
  <2> QED
    BY <1>5, <1>7, <2>1, <2>2 DEF ThreadType
<1>10. Typed'
  BY <1>1, <1>2, <1>5, <1>9 DEF Inv, Typed
<1>11. Counted'
  BY <1>1, <1>9 DEF Inv, Counted, Waits
<1>12. Requested'
  <2>1. /\ server.op = Asked.op /\ Len(server.got) + server.need = Len(Asked.payload)
        /\ Arrives(server.got \o toServer, Asked.payload)
    BY <1>1 DEF Inv, Requested
  <2>2. Asked' = Asked /\ ClientGone' = ClientGone
    BY <1>1 DEF Asked, ClientGone
  <2>3. Arrives(server.got \o toServer, Asked.payload)'
    BY <1>2, <1>5, <1>9, <2>1, <2>2 DEF Arrives
  <2>4. Len(got) + need = Len(Asked.payload)
    <3>1. Len(server.got) \in Nat
      BY <1>3, LenProperties
    <3>2. Len(got) = Len(server.got) + n
      BY <1>5
    <3>3. Len(server.got) + server.need = Len(Asked.payload)
      BY <2>1
    <3> QED
      BY <1>4, <1>6, <3>1, <3>2, <3>3
  <2> QED
    BY <1>9, <2>1, <2>2, <2>3, <2>4 DEF Requested
<1>13. Answered'
  BY <1>1, <1>9, ThreadReads DEF Inv, Counted
<1>14. ServedWell' /\ SplitOnly' /\ LeftAlone' /\ Returned' /\ LevelKnown'
  BY <1>1, <1>9, ThreadMoves DEF Ending
<1> QED
  BY <1>10, <1>11, <1>12, <1>13, <1>14 DEF Inv

LEMMA DropDrop ==
    ASSUME NEW S, NEW s \in Seq(S), NEW n \in Nat, NEW m \in Nat, n + m <= Len(s)
    PROVE  Drop(Drop(s, n), m) = Drop(s, n + m)
<1> DEFINE a == SubSeq(s, 1, n)
           d == Drop(s, n)
           b == SubSeq(d, 1, m)
           e == Drop(d, m)
           c == SubSeq(s, 1, n + m)
           f == Drop(s, n + m)
<1>1. Len(s) \in Nat /\ n <= Len(s) /\ n + m \in Nat
  BY LenProperties
<1>2. /\ a \in Seq(S) /\ Len(a) = n /\ d \in Seq(S) /\ Len(d) = Len(s) - n /\ a \o d = s
  BY <1>1, CutIs
<1>3. /\ c \in Seq(S) /\ Len(c) = n + m /\ f \in Seq(S) /\ c \o f = s
  BY <1>1, CutIs
<1>4. d \in Seq(S) /\ m <= Len(d)
  BY <1>1, <1>2
<1> HIDE DEF d
<1>5. /\ b \in Seq(S) /\ Len(b) = m /\ e \in Seq(S) /\ b \o e = d
  BY <1>4, CutIs
<1> HIDE DEF a, b, c, e, f
<1>6. a \in Seq(S) /\ b \in Seq(S) /\ e \in Seq(S)
  BY <1>2, <1>5
<1>7. (a \o b) \o e = a \o (b \o e)
  BY SMTT(40), <1>6
<1>8. a \o b \in Seq(S) /\ Len(a \o b) = Len(a) + Len(b)
  BY <1>6, ConcatProperties
<1>9. e = f
  <2> DEFINE g == a \o b
  <2>1. g \in Seq(S) /\ Len(g) = Len(c) /\ g \o e = c \o f
    BY <1>2, <1>3, <1>5, <1>7, <1>8
  <2> HIDE DEF g
  <2> QED
    BY <1>3, <1>6, <2>1, PartsOnce
<1> QED
  BY <1>9 DEF d, e, f

LEMMA DiscardStep ==
    ASSUME Inv, Discard
    PROVE  Inv'
<1>1. /\ server.at = "discard"
      /\ UNCHANGED <<toClient, reset, session, found, served, split, client, auth_level, sent, results>>
  BY DEF Discard, clientVars
<1>2. /\ toServer \in Seq(Byte) /\ server \in ThreadType /\ server.need \in Nat /\ server.need < 65536
      /\ server.need > 0 /\ server.got = << >> /\ Len(toServer) \in Nat
      /\ Len(toServer) < server.need => ClientGone
      /\ Len(toServer) >= server.need => Arrives(Drop(toServer, server.need), Unserved)
  <2>1. server.need \in Count /\ toServer \in Seq(Byte)
    BY DEF Inv, Typed, ThreadType
  <2> QED
    BY <1>1, <2>1, CountIs, LenProperties DEF Inv, Typed, Requested
<1>3. Unserved' = Unserved /\ ClientGone' = ClientGone
  BY <1>1 DEF Unserved, ClientGone
<1>4. SUFFICES ASSUME server' \in ThreadType, server'.at \in {"start", "discard"}, toServer' \in Seq(Byte),
                      server'.got = << >>,
                      server'.at = "start" =>
                          server'.need = 1 /\ Reaches(ClientGone, toServer', Unserved),
                      server'.at = "discard" =>
                          /\ server'.need > 0
                          /\ Len(toServer') < server'.need => ClientGone
                          /\ Len(toServer') >= server'.need =>
                                Reaches(ClientGone, Drop(toServer', server'.need), Unserved)
               PROVE  Inv'
  <2>1. ASSUME server' = [server EXCEPT !.at = "start", !.need = 1]
        PROVE  /\ server' \in ThreadType /\ server'.at = "start" /\ server'.need = 1
               /\ server'.got = << >>
    <3>1. 1 \in Count /\ "start" \in ServerAt
      BY CountIs DEF ServerAt
    <3>2. server \in ThreadType
      BY <1>2
    <3>3. server' = [at |-> "start", need |-> 1, got |-> server.got, op |-> server.op,
                     answer |-> server.answer]
      BY <2>1, <3>2 DEF ThreadType
    <3>4. server.got \in Seq(Byte) /\ server.op \in Int /\ server.answer \in AnswerType
      BY <1>2 DEF ThreadType
    <3> QED
      BY <1>2, <3>1, <3>3, <3>4 DEF ThreadType
  <2>2. CASE ClientGone /\ toServer = << >> /\ server' = [server EXCEPT !.at = "start", !.need = 1]
             /\ UNCHANGED toServer
    <3>1. Reaches(ClientGone, << >>, Unserved)
      <4>1. Unserved \in Seq(Byte) /\ << >> \in Seq(Byte)
        BY UnservedFacts, EmptySeq
      <4>2. << >> \o Unserved = Unserved
        BY <4>1, JoinIs
      <4> QED
        BY <2>2, <4>1, <4>2, PrefixIs DEF Reaches
    <3> QED
      BY <1>2, <1>4, <2>1, <2>2, <3>1
  <2>3. ASSUME NEW n \in Pieces(toServer, server.need), toServer' = Drop(toServer, n),
               n = server.need, server' = [server EXCEPT !.at = "start", !.need = 1]
        PROVE  Inv'
    <3>1. server.need <= Len(toServer)
      BY <2>3 DEF Pieces
    <3>2. Drop(toServer, n) \in Seq(Byte)
      BY <1>2, <2>3, <3>1, CutIs
    <3>3. Reaches(ClientGone, toServer', Unserved)
      BY <1>2, <2>3, <3>1 DEF Arrives
    <3> QED
      BY <1>4, <2>1, <2>3, <3>2, <3>3
  <2>4. ASSUME NEW n \in Pieces(toServer, server.need), toServer' = Drop(toServer, n),
               n # server.need, server' = [server EXCEPT !.need = @ - n]
        PROVE  Inv'
    <3>1. n \in Nat /\ n < server.need /\ n <= Len(toServer)
      BY <1>2, <2>4 DEF Pieces
    <3>2. Drop(toServer, n) \in Seq(Byte) /\ Len(Drop(toServer, n)) = Len(toServer) - n
      BY <1>2, <3>1, CutIs
    <3> DEFINE need == server.need - n
    <3>3. need \in Nat /\ need < 65536 /\ need > 0 /\ n + need = server.need
      BY <1>2, <3>1
    <3>4. server' = [server EXCEPT !.need = need]
      BY <2>4
    <3> HIDE DEF need
    <3>5. need \in Count
      BY <3>3, CountIs
    <3>6. server' \in ThreadType /\ server'.at = "discard" /\ server'.need = need /\ server'.got = << >>
      BY <1>1, <1>2, <3>4, <3>5 DEF ThreadType
    <3>7. Len(toServer') < need => ClientGone
      BY <1>2, <2>4, <3>1, <3>2, <3>3
    <3>8. ASSUME Len(toServer') >= need
          PROVE  Reaches(ClientGone, Drop(toServer', need), Unserved)
      <4>1. n + need <= Len(toServer)
        BY <1>2, <2>4, <3>1, <3>2, <3>3, <3>8
      <4>2. Drop(Drop(toServer, n), need) = Drop(toServer, n + need)
        BY <1>2, <3>1, <3>3, <4>1, DropDrop
      <4>3. Arrives(Drop(toServer, server.need), Unserved)
        BY <1>2, <3>3, <4>1
      <4> QED
        BY <2>4, <3>3, <4>2, <4>3 DEF Arrives
    <3> QED
      BY <1>4, <2>4, <3>2, <3>3, <3>6, <3>7, <3>8
  <2> QED
    BY <2>2, <2>3, <2>4 DEF Discard
<1>5. Typed'
  BY <1>1, <1>4 DEF Inv, Typed
<1>6. Counted'
  BY <1>1, <1>4 DEF Inv, Counted, Waits
<1>7. Requested'
  BY <1>3, <1>4 DEF Requested, Arrives
<1>8. Answered'
  BY <1>1, <1>4, ThreadReads
<1>9. ServedWell' /\ SplitOnly' /\ LeftAlone' /\ Returned' /\ LevelKnown'
  BY <1>1, <1>4, ThreadMoves DEF Ending
<1> QED
  BY <1>5, <1>6, <1>7, <1>8, <1>9 DEF Inv

-----------------------------------------------------------------------------
(***************************************************************************)
(* The thread sends its answer, or closes.                                 *)
(***************************************************************************)

LEMMA ReplyIs ==
    ASSUME Inv, server.at = "answer"
    PROVE  /\ Len(served) = Len(sent) /\ client.at # "idle"
           /\ server.answer \in AnswerType
           /\ server.answer.status = Last(served).status
           /\ Suits(Last(sent).op, server.answer.status, server.answer.payload)
           /\ Packet(server.answer.status, server.answer.payload) \in Seq(Byte)
           /\ Waits => client.at = "start" /\ client.got = << >> /\ client.need = 1 /\ toClient = << >>
<1>1. Len(served) = Len(sent) /\ client.at # "idle"
  BY DEF Inv, Counted, Answered, Refused
<1>2. server.answer \in AnswerType
  BY DEF Inv, Typed, ThreadType
<1>3. /\ server.answer.status = Last(served).status
      /\ Suits(Last(sent).op, server.answer.status, server.answer.payload)
  BY DEF Inv, Answered
<1>4. Waits => client.at = "start" /\ client.got = << >> /\ client.need = 1 /\ toClient = << >>
  BY DEF Inv, Answered, Refused, Forgotten
<1>5. Packet(server.answer.status, server.answer.payload) \in Seq(Byte)
  <2>1. PICK kind, c : kind = server.answer.status /\ c = server.answer.payload
    OBVIOUS
  <2>2. kind \in Byte /\ c \in Seq(Byte) /\ Len(c) < 65536
    BY <1>2, <1>3, <2>1 DEF AnswerType, Suits
  <2>3. Packet(kind, c) \in Seq(Byte)
    BY <2>2, PacketIs DEF IsPacket
  <2> QED
    BY <2>1, <2>3
<1> QED
  BY <1>1, <1>2, <1>3, <1>4, <1>5

\* The whole answer is on its way to a client that waits for it.
LEMMA ReplyComes ==
    ASSUME Inv, server.at = "answer", Waits,
           UNCHANGED <<session, found, client, sent, served>>,
           toClient' = Packet(server.answer.status, server.answer.payload)
    PROVE  OnItsWay(Last(sent).op, Last(served).status)'
<1>1. PICK content : content = server.answer.payload
  OBVIOUS
<1>2. content \in Seq(Byte) /\ Suits(Last(sent).op, Last(served).status, content)
      /\ toClient' = Packet(Last(served).status, content)
  BY <1>1, ReplyIs DEF AnswerType
<1>3. Suits(Last(sent).op, Last(served).status, content)'
  BY <1>2 DEF Suits
<1>4. client.at = "start" /\ client.got = << >> /\ client.need = 1
  BY ReplyIs
<1>5. Left(Last(sent).op, Last(served).status, content)'
  BY <1>2, <1>4 DEF Left
<1> QED
  BY <1>2, <1>3, <1>5 DEF OnItsWay

LEMMA ReplyStep ==
    ASSUME Inv, Reply, server.answer.then # Closed
    PROVE  Inv'
<1>1. /\ server.at = "answer" /\ UNCHANGED served
      /\ server' = [server EXCEPT !.at = server.answer.then.at, !.need = server.answer.then.need,
                                  !.answer = NoAnswer]
      /\ toClient' = IF ClientGone THEN << >>
                     ELSE toClient \o Packet(server.answer.status, server.answer.payload)
      /\ UNCHANGED <<toServer, reset, session, found, split, client, auth_level, sent, results>>
  BY DEF Reply, clientVars
<1>2. PICK then \in Then : then = server.answer.then
  BY <1>1, ReplyIs DEF AnswerType
<1>3. /\ then.at \in {"start", "discard"} /\ then.need \in Count
      /\ then.at = "start" => then = Start /\ then.need = 1
  <2>1. then = Start \/ \E size \in Count : then = Discarding(size)
    BY <1>2 DEF Then
  <2>2. 1 \in Count
    BY CountIs
  <2> QED
    BY <2>1, <2>2 DEF Start, Discarding
<1>4. /\ then = Start /\ toServer = << >>
      \/ /\ then.at = "discard" /\ then.need > 0 /\ Len(toServer) <= then.need
         /\ ClientGone \/ Len(toServer) = then.need
  BY <1>1, <1>2 DEF Inv, Requested
<1>5. /\ server' \in ThreadType /\ server'.at = then.at /\ server'.need = then.need
      /\ server'.got = << >>
  <2>1. server \in ThreadType /\ server.got = << >> /\ then.at \in ServerAt
    BY <1>1, <1>3 DEF Inv, Typed, Requested, ServerAt
  <2>2. NoAnswer \in AnswerType
    <3>1. 0 \in Byte /\ << >> \in Seq(Byte) /\ Start \in Then
      BY Statuses, ByteIs DEF Then
    <3> QED
      BY <3>1 DEF NoAnswer, AnswerType
  <2>3. server' = [at |-> then.at, need |-> then.need, got |-> server.got, op |-> server.op,
                   answer |-> NoAnswer]
    BY <1>1, <1>2, <2>1 DEF ThreadType
  <2>4. server.got \in Seq(Byte) /\ server.op \in Int
    BY <2>1 DEF ThreadType
  <2> HIDE DEF NoAnswer
  <2> QED
    BY <1>3, <2>1, <2>2, <2>3, <2>4 DEF ThreadType
<1>6. Len(served) = Len(sent) /\ client.at # "idle"
      /\ Packet(server.answer.status, server.answer.payload) \in Seq(Byte)
  BY <1>1, ReplyIs
<1>7. Typed'
  <2>1. toClient' \in Seq(Byte)
    BY <1>1, <1>6, Statuses, ConcatProperties DEF Inv, Typed
  <2> QED
    BY <1>1, <1>5, <2>1 DEF Inv, Typed
<1>8. Counted'
  BY <1>1, <1>3, <1>5, <1>6 DEF Inv, Counted, Waits
<1>9. Unserved' = << >> /\ ClientGone' = ClientGone
  <2>1. Unserved = << >>
    BY <1>6, UnservedFacts
  <2> QED
    BY <1>1, <2>1 DEF Unserved, ClientGone
<1>10. \A bytes : bytes = << >> => Reaches(ClientGone, bytes, << >>)
  <2>1. << >> \in Seq(Byte) /\ << >> \o << >> = << >>
    BY Statuses, JoinIs
  <2> QED
    BY ZenonT(60), <2>1, PrefixIs DEF Reaches
<1>11. Requested'
  <2>1. CASE then = Start /\ toServer = << >>
    BY <1>1, <1>3, <1>5, <1>9, <1>10, <2>1 DEF Requested, Arrives, Start
  <2>2. CASE /\ then.at = "discard" /\ then.need > 0 /\ Len(toServer) <= then.need
             /\ ClientGone \/ Len(toServer) = then.need
    <3>1. then.need \in Nat /\ Len(toServer) \in Nat /\ toServer \in Seq(Byte)
      BY <1>3, CountIs, LenProperties DEF Inv, Typed
    <3>2. ASSUME Len(toServer) >= then.need PROVE Drop(toServer, then.need) = << >>
      <4>1. Len(toServer) = then.need
        BY <2>2, <3>1, <3>2
      <4>2. Drop(toServer, then.need) \in Seq(Byte) /\ Len(Drop(toServer, then.need)) = 0
        BY <3>1, <4>1, CutIs
      <4> QED
        BY <4>2, NoBytes
    <3>3. Len(toServer) < then.need => ClientGone
      BY <2>2, <3>1
    <3> QED
      BY <1>1, <1>5, <1>9, <1>10, <2>2, <3>2, <3>3 DEF Requested, Arrives
  <2> QED
    BY <1>4, <2>1, <2>2
<1>12. Answered'
  <2>1. ASSUME Waits PROVE OnItsWay(Last(sent).op, Last(served).status)'
    <3>1. ~ClientGone /\ toClient = << >>
      BY <1>1, <2>1, ReplyIs DEF Waits, ClientGone
    <3>2. toClient' = Packet(server.answer.status, server.answer.payload)
      <4> DEFINE p == Packet(server.answer.status, server.answer.payload)
      <4>1. p \in Seq(Byte) /\ toClient' = << >> \o p
        BY <1>1, <1>6, <3>1
      <4> HIDE DEF p
      <4>2. << >> \o p = p
        BY <4>1, JoinIs
      <4> QED
        BY <4>1, <4>2 DEF p
    <3> QED
      BY <1>1, <2>1, <3>2, ReplyComes
  <2>2. Waits' <=> Waits
    BY <1>1 DEF Waits
  <2>3. server'.at # "answer" /\ client'.at # "idle" /\ Len(served') = Len(sent')
    BY <1>1, <1>3, <1>5, <1>6
  <2> QED
    BY <2>1, <2>2, <2>3 DEF Answered
<1>13. ServedWell' /\ SplitOnly' /\ LeftAlone' /\ Returned' /\ LevelKnown'
  BY <1>1, <1>2, <1>3, <1>5, ThreadMoves DEF Ending
<1> QED
  BY <1>7, <1>8, <1>11, <1>12, <1>13 DEF Inv

LEMMA ClosingStep ==
    ASSUME Inv, server.at # "closed", NEW unread, NEW sending \in Seq(Byte),
           Closes(unread, sending), UNCHANGED served,
           \/ sending = << >>
           \/ /\ server.at = "answer"
              /\ sending = Packet(server.answer.status, server.answer.payload)
    PROVE  Inv'
<1>1. /\ server' = [server EXCEPT !.at = "closed", !.need = 0, !.got = << >>, !.answer = NoAnswer]
      /\ toServer' = << >> /\ reset' \in BOOLEAN
      /\ toClient' \in {<< >>, IF ClientGone THEN << >> ELSE toClient \o sending}
      /\ UNCHANGED <<session, found, split, client, auth_level, sent, results, served>>
  BY DEF Closes, clientVars
<1>2. server' \in ThreadType /\ server'.at = "closed" /\ server'.got = << >>
  <2>1. server \in ThreadType /\ 0 \in Count /\ << >> \in Seq(Byte) /\ "closed" \in ServerAt
    BY NoCount, Statuses DEF Inv, Typed, ServerAt
  <2>2. NoAnswer \in AnswerType
    <3>1. 0 \in Byte /\ << >> \in Seq(Byte) /\ Start \in Then
      BY SMTT(40), Statuses, ByteIs DEF Then
    <3> QED
      BY <3>1 DEF NoAnswer, AnswerType
  <2> HIDE DEF NoAnswer
  <2>3. server.op \in Int
    BY <2>1 DEF ThreadType
  <2>4. server' = [at |-> "closed", need |-> 0, got |-> << >>, op |-> server.op,
                   answer |-> NoAnswer]
    BY <1>1, <2>1 DEF ThreadType
  <2> QED
    BY <2>1, <2>2, <2>3, <2>4 DEF ThreadType
<1>3. toClient \in Seq(Byte) /\ toClient \o << >> = toClient /\ << >> \o sending = sending
      /\ toClient \o sending \in Seq(Byte)
  <2>1. toClient \in Seq(Byte)
    BY DEF Inv, Typed
  <2> QED
    BY <2>1, JoinIs
<1>4. Typed'
  BY <1>1, <1>2, <1>3, Statuses DEF Inv, Typed
<1>5. Counted'
  BY <1>1, <1>2 DEF Inv, Counted, Waits
<1>6. Requested'
  BY <1>2 DEF Requested
<1>7. Answered'
  <2>1. ASSUME client.at = "idle" PROVE toClient' = << >>
    <3>1. server.at # "answer" /\ toClient = << >>
      BY <2>1 DEF Inv, Answered, Refused
    <3>2. sending = << >>
      BY <3>1
    <3> QED
      BY <1>1, <1>3, <3>1, <3>2
  <2>2. ASSUME Waits, toClient' # << >>
        PROVE  Len(served) = Len(sent) /\ OnItsWay(Last(sent).op, Last(served).status)'
    <3>1. ~ClientGone /\ toClient' = toClient \o sending
      BY <1>1, <2>2 DEF Waits, ClientGone
    <3>2. CASE /\ server.at = "answer"
               /\ sending = Packet(server.answer.status, server.answer.payload)
      <4>1. toClient = << >> /\ Len(served) = Len(sent)
        BY <2>2, <3>2, ReplyIs
      <4>2. toClient' = sending
        BY <1>3, <3>1, <4>1
      <4> QED
        BY <1>1, <2>2, <3>2, <4>1, <4>2, ReplyComes
    <3>3. CASE sending = << >>
      <4>1. toClient' = toClient
        BY <1>3, <3>1, <3>3
      <4>2. Len(served) = Len(sent) /\ OnItsWay(Last(sent).op, Last(served).status)
        BY <2>2, <4>1 DEF Inv, Answered, Refused, Forgotten
      <4>3. UNCHANGED <<session, found, client, toClient, sent, served>>
        BY <1>1, <4>1
      <4> QED
        BY <4>2, <4>3 DEF OnItsWay, Suits, Left
    <3> QED
      BY <3>2, <3>3
  <2>3. Waits' <=> Waits
    BY <1>1 DEF Waits
  <2> QED
    BY <1>1, <1>2, <2>1, <2>2, <2>3 DEF Answered
<1>8. ServedWell' /\ SplitOnly' /\ LeftAlone' /\ Returned' /\ LevelKnown'
  BY <1>1, <1>2, ThreadMoves DEF Ending
<1> QED
  BY <1>4, <1>5, <1>6, <1>7, <1>8 DEF Inv

LEMMA ThreadStep ==
    ASSUME Inv, RecvStart \/ RecvHeader \/ RecvPayload \/ Reply \/ Discard \/ ClientLost \/ ProcessEnds
    PROVE  Inv'
<1>1. << >> \in Seq(Byte)
  BY Statuses
<1>2. CASE Reply /\ server.answer.then = Closed
  <2>1. /\ server.at = "answer" /\ UNCHANGED served
        /\ Closes(toServer, Packet(server.answer.status, server.answer.payload))
    BY <1>2 DEF Reply
  <2>2. Packet(server.answer.status, server.answer.payload) \in Seq(Byte)
    BY <2>1, ReplyIs
  <2> HIDE DEF Inv
  <2>3. PICK p \in Seq(Byte) : p = Packet(server.answer.status, server.answer.payload)
    BY <2>2
  <2>4. Closes(toServer, p)
    BY <2>1, <2>3
  <2> QED
    BY <2>1, <2>3, <2>4, ClosingStep
<1>3. CASE ClientLost
  <2>1. server.at # "closed" /\ Closes(<< >>, << >>) /\ UNCHANGED served
    BY <1>3 DEF ClientLost
  <2> QED
    BY <1>1, <2>1, ClosingStep
<1>4. CASE ProcessEnds
  <2>1. server.at # "closed" /\ Closes(toServer, << >>) /\ UNCHANGED served
    BY <1>4 DEF ProcessEnds
  <2> QED
    BY <1>1, <2>1, ClosingStep
<1> QED
  BY <1>2, <1>3, <1>4, StartStep, HeaderStep, PayloadStep, ReplyStep, DiscardStep

-----------------------------------------------------------------------------
(***************************************************************************)
(* The client ends: only the first bytes of what it has sent may arrive.   *)
(***************************************************************************)

LEMMA PrefixFacts ==
    ASSUME NEW S, NEW b \in Seq(S), NEW w \in Seq(S), IsPrefix(b, w)
    PROVE  /\ Len(b) \in Nat /\ Len(w) \in Nat /\ Len(b) <= Len(w)
           /\ w = << >> => b = << >>
           /\ \A v \in Seq(S) : IsPrefix(w, v) => IsPrefix(b, v)
           /\ \A a \in Seq(S) : IsPrefix(a \o b, a \o w)
           /\ \A n \in Nat : n <= Len(b) => IsPrefix(Drop(b, n), Drop(w, n))
<1>1. PICK u \in Seq(S) : b \o u = w
  BY PrefixIs
<1>2. Len(b) \in Nat /\ Len(w) \in Nat /\ Len(b) <= Len(w)
  BY LenProperties DEF IsPrefix
<1>3. w = << >> => b = << >>
  BY <1>2, NoBytes
<1>4. ASSUME NEW v \in Seq(S), IsPrefix(w, v) PROVE IsPrefix(b, v)
  <2>1. PICK t \in Seq(S) : w \o t = v
    BY <1>4, PrefixIs
  <2>2. (b \o u) \o t = b \o (u \o t) /\ u \o t \in Seq(S)
    OBVIOUS
  <2>3. b \o (u \o t) = v
    BY <1>1, <2>1, <2>2
  <2> QED
    BY <2>2, <2>3, PrefixIs
<1>5. ASSUME NEW a \in Seq(S) PROVE IsPrefix(a \o b, a \o w)
  <2>1. (a \o b) \o u = a \o (b \o u)
    OBVIOUS
  <2>2. (a \o b) \o u = a \o w
    BY <1>1, <2>1
  <2>3. a \o b \in Seq(S) /\ a \o w \in Seq(S)
    OBVIOUS
  <2> DEFINE x == a \o b
             y == a \o w
  <2>4. x \in Seq(S) /\ y \in Seq(S) /\ x \o u = y
    BY <2>2, <2>3
  <2> HIDE DEF x, y
  <2>5. IsPrefix(x, y)
    BY <2>4, PrefixIs
  <2> QED
    BY <2>5 DEF x, y
<1>6. ASSUME NEW n \in Nat, n <= Len(b) PROVE IsPrefix(Drop(b, n), Drop(w, n))
  <2> DEFINE a == SubSeq(b, 1, n)
             d == Drop(b, n)
             c == SubSeq(w, 1, n)
             e == Drop(w, n)
  <2>1. a \in Seq(S) /\ Len(a) = n /\ d \in Seq(S) /\ a \o d = b
    BY <1>6, CutIs
  <2>2. c \in Seq(S) /\ Len(c) = n /\ e \in Seq(S) /\ c \o e = w
    BY <1>2, <1>6, CutIs
  <2> HIDE DEF a, d, c, e
  <2>3. (a \o d) \o u = a \o (d \o u) /\ d \o u \in Seq(S)
    <3>1. a \in Seq(S) /\ d \in Seq(S)
      BY <2>1
    <3> QED
      BY <3>1
  <2>4. a \o (d \o u) = c \o e
    BY <1>1, <2>1, <2>2, <2>3
  <2>5. d \o u = e
    <3> DEFINE f == d \o u
    <3>1. f \in Seq(S) /\ a \o f = c \o e
      BY <2>3, <2>4
    <3> HIDE DEF f
    <3>2. f = e
      BY <2>1, <2>2, <3>1, PartsOnce
    <3> QED
      BY <3>2 DEF f
  <2>6. IsPrefix(d, e)
    BY <2>1, <2>2, <2>5, PrefixIs
  <2> QED
    BY <2>6 DEF d, e
<1> QED
  BY <1>2, <1>3, <1>4, <1>5, <1>6

\* What arrives of the requests when the client ends.
LEMMA EndRequested ==
    ASSUME Inv, server.at # "closed", client'.at = "gone",
           UNCHANGED <<server, served, sent>>,
           toServer' \in Seq(Byte), IsPrefix(toServer', toServer)
    PROVE  Requested'
<1>1. toServer \in Seq(Byte) /\ server \in ThreadType
  BY DEF Inv, Typed
<1>2. server.got \in Seq(Byte) /\ server.need \in Nat
  BY <1>1, CountIs DEF ThreadType
<1>3. Unserved' = Unserved /\ Asked' = Asked /\ ClientGone' = TRUE
  BY DEF Unserved, Asked, ClientGone
<1>4. Unserved \in Seq(Byte)
  BY UnservedFacts
<1>5. PICK t \in Seq(Byte) : t = toServer'
  OBVIOUS
<1>6. IsPrefix(t, toServer)
  BY <1>5
<1>7. Len(t) \in Nat /\ Len(toServer) \in Nat /\ Len(t) <= Len(toServer)
      /\ (toServer = << >> => t = << >>)
  BY <1>1, <1>6, PrefixFacts
<1>8. ASSUME server.at = "start" PROVE server.need = 1 /\ IsPrefix(t, Unserved)
  <2>1. server.need = 1 /\ Reaches(ClientGone, toServer, Unserved)
    BY <1>8 DEF Inv, Requested, Arrives
  <2>2. IsPrefix(toServer, Unserved)
    BY <1>1, <1>4, <2>1, ReachesPrefix
  <2> QED
    BY <1>1, <1>4, <1>6, <2>1, <2>2, PrefixFacts
<1>9. ASSUME server.at = "header" PROVE server.need = 3 /\ IsPrefix(t, Tail(PacketOf(Asked)))
  <2>1. server.need = 3 /\ Reaches(ClientGone, toServer, Tail(PacketOf(Asked)))
    BY <1>9 DEF Inv, Requested, Arrives
  <2>2. IsPacket(PacketOf(Asked), Asked.op, Asked.payload)
    BY <1>9, AskedIs, RequestIs DEF Inv, Counted
  <2>3. PICK w \in Seq(Byte) : w = Tail(PacketOf(Asked))
    BY <2>2 DEF IsPacket
  <2>4. IsPrefix(toServer, w)
    BY <1>1, <2>1, <2>3, ReachesPrefix
  <2>5. IsPrefix(t, w)
    BY <1>1, <1>6, <2>4, PrefixFacts
  <2> QED
    BY <2>1, <2>3, <2>5
<1>10. ASSUME server.at = "payload"
       PROVE  /\ server.op = Asked.op /\ Len(server.got) + server.need = Len(Asked.payload)
              /\ IsPrefix(server.got \o t, Asked.payload)
  <2>1. /\ server.op = Asked.op /\ Len(server.got) + server.need = Len(Asked.payload)
        /\ Reaches(ClientGone, server.got \o toServer, Asked.payload)
    BY <1>10 DEF Inv, Requested, Arrives
  <2>2. PICK p \in Seq(Byte) : p = Asked.payload
    BY <1>10, PayloadIs
  <2>3. PICK g \in Seq(Byte) : g = server.got
    BY <1>2
  <2>4. PICK x \in Seq(Byte) : x = g \o toServer
    <3>1. g \o toServer \in Seq(Byte)
      BY <1>1, ConcatProperties
    <3> QED
      BY <3>1
  <2>5. PICK y \in Seq(Byte) : y = g \o t
    <3>1. g \o t \in Seq(Byte)
      BY ConcatProperties
    <3> QED
      BY <3>1
  <2>6. IsPrefix(x, p)
    BY <2>1, <2>2, <2>3, <2>4, ReachesPrefix
  <2>7. IsPrefix(y, x)
    BY <1>1, <1>6, <2>4, <2>5, PrefixFacts
  <2>8. IsPrefix(y, p)
    BY <2>6, <2>7, PrefixFacts
  <2> QED
    BY <2>1, <2>2, <2>3, <2>5, <2>8
<1>11. ASSUME server.at = "answer"
       PROVE  \/ server.answer.then = Closed
              \/ server.answer.then = Start /\ t = << >>
              \/ /\ server.answer.then.at = "discard" /\ server.answer.then.need > 0
                 /\ Len(t) <= server.answer.then.need
  <2>1. \/ server.answer.then = Closed
        \/ server.answer.then = Start /\ toServer = << >>
        \/ /\ server.answer.then.at = "discard" /\ server.answer.then.need > 0
           /\ Len(toServer) <= server.answer.then.need
    BY <1>11 DEF Inv, Requested
  <2>2. server.answer.then \in Then
    BY <1>1 DEF ThreadType, AnswerType
  <2>3. server.answer.then.need \in Nat
    BY <2>2, CountIs DEF Then, Start, Closed, Discarding
  <2> QED
    BY <1>7, <2>1, <2>3
<1>12. ASSUME server.at = "discard"
       PROVE  server.need > 0 /\ (Len(t) >= server.need => IsPrefix(Drop(t, server.need), Unserved))
  <2>1. /\ server.need > 0
        /\ Len(toServer) >= server.need => Reaches(ClientGone, Drop(toServer, server.need), Unserved)
    BY <1>12 DEF Inv, Requested, Arrives
  <2>2. PICK n \in Nat : n = server.need
    BY <1>2
  <2>3. ASSUME Len(t) >= n PROVE IsPrefix(Drop(t, n), Unserved)
    <3>1. n <= Len(t) /\ n <= Len(toServer)
      BY <1>7, <2>3
    <3>2. PICK x \in Seq(Byte) : x = Drop(t, n)
      BY <3>1, CutIs
    <3>3. PICK y \in Seq(Byte) : y = Drop(toServer, n)
      BY <1>1, <3>1, CutIs
    <3>4. IsPrefix(x, y)
      BY <1>1, <1>6, <3>1, <3>2, <3>3, PrefixFacts
    <3>5. Reaches(ClientGone, y, Unserved)
      BY <1>7, <2>1, <2>2, <3>1, <3>3
    <3>6. IsPrefix(y, Unserved)
      BY <1>4, <3>5, ReachesPrefix
    <3>7. IsPrefix(x, Unserved)
      BY <1>4, <3>4, <3>6, PrefixFacts
    <3> QED
      BY <3>2, <3>7
  <2> QED
    BY <2>1, <2>2, <2>3
<1>13. server'.at # "payload" => server'.got = << >>
  BY DEF Inv, Requested
<1> QED
  BY <1>3, <1>5, <1>8, <1>9, <1>10, <1>11, <1>12, <1>13 DEF Requested, Arrives, Reaches

\* What the last call returned, or did not, before the program ended.
LastResult(result) ==
    \/ result = Exited
    \/ result = SERVER_ERROR /\ server.at = "closed"
    \/ Len(served) = Len(sent) /\ result = Last(served).status
    \/ /\ result = SERVER_ERROR /\ Len(served) = Len(sent)
       /\ Last(sent).op = SEARCH /\ \E c \in Range(found) : ~is_printable(c[1] \o c[2])

LEMMA AppendIs ==
    ASSUME NEW S, NEW s \in Seq(S), NEW x \in S, NEW t, t = Append(s, x)
    PROVE  /\ t \in Seq(S) /\ Len(t) = Len(s) + 1 /\ Len(s) \in Nat
           /\ DOMAIN s = 1 .. Len(s) /\ DOMAIN t = 1 .. Len(s) + 1
           /\ (\A k \in 1 .. Len(s) : t[k] = s[k]) /\ t[Len(s) + 1] = x
<1>1. /\ Append(s, x) \in Seq(S) /\ Len(Append(s, x)) = Len(s) + 1
      /\ \A k \in 1 .. Len(s) : Append(s, x)[k] = s[k]
      /\ Append(s, x)[Len(s) + 1] = x
  BY AppendProperties
<1>2. Len(s) \in Nat /\ DOMAIN s = 1 .. Len(s) /\ DOMAIN t = 1 .. Len(t)
  BY <1>1, LenProperties
<1> QED
  BY <1>1, <1>2

\* The program ends between two calls.
LEMMA EndsIdle ==
    ASSUME Inv, client.at = "idle", client' \in CallerType, client'.at = "gone",
           UNCHANGED <<server, session, found, served, split, reset, auth_level, sent, results>>,
           toClient' \in Seq(Byte), toServer' \in Seq(Byte), IsPrefix(toServer', toServer)
    PROVE  Inv'
<1>1. Typed' /\ Counted'
  BY DEF Inv, Typed, Counted, Waits
<1>2. Requested'
  <2>1. CASE server.at = "closed"
    BY <2>1 DEF Inv, Requested
  <2>2. CASE server.at # "closed"
    BY <2>2, EndRequested
  <2> QED
    BY <2>1, <2>2
<1>3. Answered'
  BY DEF Inv, Answered, Waits, Suits
<1>4. Len(served) = Len(sent) /\ ~Waits /\ ~ClientGone
  BY DEF Inv, Counted, Waits, ClientGone
<1>5. ServedWell' /\ LeftAlone' /\ LevelKnown'
  BY <1>4 DEF Inv, ServedWell, LeftAlone, LevelKnown, ClientGone
<1>6. SplitOnly'
  BY DEF Inv, SplitOnly, Ending
<1>7. Returned'
  BY <1>4 DEF Inv, Returned
<1> QED
  BY <1>1, <1>2, <1>3, <1>5, <1>6, <1>7 DEF Inv

\* The program ends in the middle of a call.
LEMMA EndsWaiting ==
    ASSUME Inv, Waits, client' \in CallerType, client'.at = "gone",
           UNCHANGED <<server, session, found, served, split, reset, sent>>,
           auth_level' \in Byte,
           toClient' \in Seq(Byte), toServer' \in Seq(Byte), IsPrefix(toServer', toServer),
           NEW result \in Byte, LastResult(result), results' = Append(results, result)
    PROVE  Inv'
<1>1. PICK L \in Nat : L = Len(results)
  BY Lengths DEF Inv
<1>2. /\ results' \in Seq(Byte) /\ Len(results') = L + 1
      /\ DOMAIN results = 1 .. L /\ DOMAIN results' = 1 .. L + 1
      /\ (\A k \in 1 .. L : results'[k] = results[k]) /\ results'[L + 1] = result
  BY <1>1, AppendIs DEF Inv, Typed
<1>3. Len(sent) = L + 1 /\ ~ClientGone /\ ~Waits' /\ client.at # "idle"
      /\ Len(sent) \in Nat /\ Len(served) \in Nat /\ DOMAIN served = 1 .. Len(served)
  <2>1. /\ Len(sent) \in Nat /\ Len(served) \in Nat /\ DOMAIN served = 1 .. Len(served)
        /\ Len(results) = Len(sent) - 1
    BY Lengths DEF Inv, Counted
  <2>2. ~ClientGone /\ ~Waits' /\ client.at # "idle"
    BY DEF ClientGone, Waits
  <2> QED
    BY SMTT(60), <1>1, <2>1, <2>2
<1>4. Typed'
  BY SMTT(60), <1>2 DEF Inv, Typed
<1>5. Counted'
  <2>1. client'.at # "idle" /\ Len(results') = Len(sent') - 0
    BY <1>2, <1>3
  <2> QED
    BY <1>3, <2>1 DEF Inv, Counted
<1>6. Requested'
  <2>1. CASE server.at = "closed"
    BY <2>1 DEF Inv, Requested
  <2>2. CASE server.at # "closed"
    BY SMTT(60), <2>2, EndRequested
  <2> QED
    BY <2>1, <2>2
<1>7. Answered'
  <2>1. client'.at # "idle"
    OBVIOUS
  <2>2. \A op, st, content : Suits(op, st, content) => Suits(op, st, content)'
    BY DEF Suits
  <2>3. server.at = "answer" =>
            Suits(Last(sent).op, server.answer.status, server.answer.payload)
            /\ server.answer.status = Last(served).status
    BY DEF Inv, Answered
  <2>4. server.at = "answer" => Suits(Last(sent).op, server.answer.status, server.answer.payload)'
    BY <2>2, <2>3
  <2> QED
    BY <1>3, <2>1, <2>3, <2>4 DEF Answered
<1>8. ServedWell'
  <2>1. \A k \in DOMAIN served :
            /\ served[k].op \in {sent[k].op, NoOpcode}
            /\ served[k].payload \in {sent[k].payload, NotRead}
            /\ served[k].status = OK => served[k].op = sent[k].op
            /\ k < Len(sent) => k \in 1 .. L /\ results[k] = served[k].status
    BY <1>2 DEF Inv, ServedWell
  <2>2. \A k \in DOMAIN served : k < Len(sent) => k \in 1 .. L + 1 /\ results'[k] = served[k].status
    BY <1>2, <2>1
  <2> QED
    BY <1>2, <2>1, <2>2 DEF ServedWell
<1>9. SplitOnly'
  <2>1. \A k \in DOMAIN served :
            served[k].status = MALFORMED_REQUEST /\ WellFormed(sent[k]) =>
                \/ split /\ k = Len(served) /\ Ending
                \/ k \in 1 .. L + 1 /\ results'[k] = Exited
    BY <1>2 DEF Inv, SplitOnly
  <2> QED
    BY <1>2, <2>1 DEF SplitOnly, Ending
<1>10. LeftAlone'
  <2>1. ASSUME server.at # "closed", Len(served) < Len(sent)
        PROVE  result = Exited
    <3>1. Len(sent) \in Nat /\ Len(served) \in Nat
      BY <1>3
    <3>2. Len(served) # Len(sent)
      BY <2>1, <3>1
    <3> QED
      BY <2>1, <3>2 DEF LastResult
  <2> QED
    BY <1>2, <1>3, <2>1 DEF LeftAlone
<1>11. Returned'
  <2>1. \A k \in 1 .. L :
            \/ k \in DOMAIN served /\ results'[k] = served[k].status
            \/ results'[k] = Exited
            \/ results'[k] = SERVER_ERROR /\ server.at = "closed"
    <3> SUFFICES ASSUME NEW k \in 1 .. L
                 PROVE  \/ k \in DOMAIN served /\ results[k] = served[k].status
                        \/ results[k] = Exited
                        \/ results[k] = SERVER_ERROR /\ server.at = "closed"
      BY <1>2
    <3>1. k \in DOMAIN results /\ k # Len(sent)
      BY <1>2, <1>3
    <3>2. Returned
      BY DEF Inv
    <3> HIDE DEF Inv
    <3> QED
      BY <3>1, <3>2 DEF Returned
  <2>2. \/ L + 1 \in DOMAIN served /\ result = served[L + 1].status
        \/ result = Exited
        \/ result = SERVER_ERROR /\ server.at = "closed"
        \/ /\ result = SERVER_ERROR /\ L + 1 = Len(sent) /\ Len(served) = Len(sent)
           /\ sent[L + 1].op = SEARCH /\ \E c \in Range(found) : ~is_printable(c[1] \o c[2])
    <3>1. CASE Len(served) = Len(sent) /\ result = Last(served).status
      <4>1. L + 1 \in DOMAIN served /\ Last(served) = served[L + 1]
        BY <1>3, <3>1 DEF Last
      <4> QED
        BY <3>1, <4>1
    <3>2. Last(sent) = sent[L + 1]
      BY <1>3 DEF Last
    <3> QED
      BY <1>3, <3>1, <3>2 DEF LastResult
  <2>3. \A k \in DOMAIN results' : k \in 1 .. L \/ k = L + 1
    BY <1>1, <1>2
  <2> QED
    BY SMTT(60), <1>2, <2>1, <2>2, <2>3 DEF Returned, ClientGone
<1>12. LevelKnown'
  BY DEF LevelKnown, ClientGone
<1> QED
  BY SMTT(60), <1>4, <1>5, <1>6, <1>7, <1>8, <1>9, <1>10, <1>11, <1>12 DEF Inv

\* A call after the end of the server: SIGPIPE.
LEMMA EndsCalling ==
    ASSUME Inv, client.at = "idle", server.at = "closed", client' \in CallerType, client'.at = "gone",
           UNCHANGED <<server, session, found, served, split, reset, auth_level, toServer, toClient>>,
           NEW r \in Request, sent' = Append(sent, r), results' = Append(results, Exited)
    PROVE  Inv'
<1>1. PICK L \in Nat : L = Len(results)
  BY Lengths DEF Inv
<1>2. Exited \in Byte
  BY ByteIs DEF Exited
<1>3. /\ results' \in Seq(Byte) /\ Len(results') = L + 1
      /\ DOMAIN results = 1 .. L /\ DOMAIN results' = 1 .. L + 1
      /\ (\A k \in 1 .. L : results'[k] = results[k]) /\ results'[L + 1] = Exited
  BY <1>1, <1>2, AppendIs DEF Inv, Typed
<1>4. ~ClientGone /\ ~Waits' /\ Len(sent) = L /\ Len(served) = L /\ DOMAIN served = 1 .. L
  <2>1. ~ClientGone /\ ~Waits' /\ ~Waits
    BY DEF ClientGone, Waits
  <2>2. /\ Len(sent) \in Nat /\ DOMAIN served = 1 .. Len(served)
        /\ Len(results) = Len(sent) - 0 /\ Len(served) = Len(sent)
    BY <2>1, Lengths DEF Inv, Counted
  <2> QED
    BY <1>1, <2>1, <2>2
<1>5. /\ sent' \in Seq(Request) /\ Len(sent') = L + 1 /\ \A k \in 1 .. L : sent'[k] = sent[k]
  BY <1>4, AppendIs DEF Inv, Typed
<1>6. Typed'
  BY <1>3, <1>5 DEF Inv, Typed
<1>7. Counted'
  BY <1>3, <1>4, <1>5 DEF Inv, Counted
<1>8. Requested'
  BY DEF Inv, Requested
<1>9. Answered'
  BY <1>4 DEF Answered
<1>10. ServedWell'
  BY <1>3, <1>4, <1>5 DEF Inv, ServedWell
<1>11. SplitOnly'
  BY <1>3, <1>4, <1>5 DEF Inv, SplitOnly, Ending
<1>12. LeftAlone'
  BY DEF LeftAlone
<1>13. Returned'
  BY <1>1, <1>3, <1>4 DEF Inv, Returned
<1>14. LevelKnown'
  BY DEF LevelKnown, ClientGone
<1> QED
  BY SMTT(60), <1>6, <1>7, <1>8, <1>9, <1>10, <1>11, <1>12, <1>13, <1>14 DEF Inv

-----------------------------------------------------------------------------
(***************************************************************************)
(* The steps of the client.                                                *)
(***************************************************************************)

\* The call returns the status of its answer, and the program goes on.
LEMMA ClientIdles ==
    ASSUME Inv, Waits, client' \in CallerType, client'.at = "idle",
           UNCHANGED <<server, session, found, served, split, reset, sent, toServer>>,
           Len(served) = Len(sent), server.at # "answer", toClient' = << >>,
           results' = Append(results, Last(served).status),
           auth_level' = session \/ (auth_level' = auth_level /\ ~Done(Len(served), LOGIN))
    PROVE  Inv'
<1>1. PICK L \in Nat : L = Len(results)
  BY Lengths DEF Inv
<1>2. Len(sent) = L + 1 /\ Len(served) = L + 1 /\ DOMAIN served = 1 .. L + 1
  <2>1. DOMAIN served = 1 .. Len(served) /\ Len(results) = Len(sent) - 1 /\ Len(sent) \in Nat
    BY Lengths DEF Inv, Counted
  <2> QED
    BY <1>1, <2>1
<1>3. ~ClientGone' /\ ~Waits' /\ client.at # "idle" /\ ~ClientGone
  BY DEF ClientGone, Waits
<1>4. Last(served) = served[L + 1] /\ served[L + 1].status \in Byte
  <2>1. served \in Seq(ServedType) /\ L + 1 \in 1 .. Len(served)
    BY <1>1, <1>2 DEF Inv, Typed
  <2>2. served[L + 1] \in ServedType
    BY <2>1, ElementOfSeq
  <2> QED
    BY <1>2, <2>2 DEF Last, ServedType
<1>5. /\ results' \in Seq(Byte) /\ Len(results') = L + 1
      /\ DOMAIN results = 1 .. L /\ DOMAIN results' = 1 .. L + 1
      /\ (\A k \in 1 .. L : results'[k] = results[k]) /\ results'[L + 1] = served[L + 1].status
  BY <1>1, <1>4, AppendIs DEF Inv, Typed
<1>6. Typed'
  BY <1>5, Statuses DEF Inv, Typed
<1>7. Counted'
  <2>1. Len(results') = Len(sent') - 0
    BY <1>1, <1>2, <1>5
  <2> QED
    BY <1>2, <1>3, <2>1 DEF Inv, Counted
<1>8. Requested'
  BY <1>3 DEF Inv, Requested, Arrives, Reaches, Unserved, Asked, ClientGone
<1>9. Answered'
  <2>1. server.at \in {"start", "discard", "closed"}
    <3>1. server.at \in ServerAt
      BY DEF Inv, Typed, ThreadType
    <3>2. server.at \notin {"header", "payload"}
      BY <1>1, <1>2 DEF Inv, Counted
    <3> QED
      BY <3>1, <3>2 DEF ServerAt
  <2> QED
    BY <1>3, <2>1 DEF Answered
<1>10. ServedWell'
  <2>1. \A k \in DOMAIN served :
            /\ served[k].op \in {sent[k].op, NoOpcode}
            /\ served[k].payload \in {sent[k].payload, NotRead}
            /\ served[k].status = OK => served[k].op = sent[k].op
            /\ k < Len(sent) => k \in 1 .. L /\ results[k] = served[k].status
    BY <1>5 DEF Inv, ServedWell
  <2>2. \A k \in DOMAIN served : k \in 1 .. L + 1 /\ results'[k] = served[k].status
    BY <1>1, <1>2, <1>5, <2>1
  <2> QED
    BY <1>5, <2>1, <2>2 DEF ServedWell
<1>11. SplitOnly'
  <2>1. \A k \in DOMAIN served :
            served[k].status = MALFORMED_REQUEST /\ WellFormed(sent[k]) =>
                \/ split /\ k = Len(served) /\ Ending
                \/ k \in 1 .. L + 1 /\ results'[k] = Exited
    BY <1>1, <1>5 DEF Inv, SplitOnly
  <2> QED
    BY <1>5, <2>1 DEF SplitOnly, Ending
<1>12. LeftAlone'
  BY <1>3 DEF LeftAlone
<1>13. Returned'
  <2>1. \A k \in 1 .. L :
            \/ k \in DOMAIN served /\ results'[k] = served[k].status
            \/ results'[k] = Exited
            \/ results'[k] = SERVER_ERROR /\ server.at = "closed"
    BY <1>3, <1>5 DEF Inv, Returned
  <2>2. L + 1 \in DOMAIN served /\ results'[L + 1] = served[L + 1].status
    BY <1>1, <1>2, <1>5
  <2>3. \A k \in DOMAIN results' : k \in 1 .. L \/ k = L + 1
    BY <1>1, <1>5
  <2> QED
    BY <2>1, <2>2, <2>3 DEF Returned
<1>14. LevelKnown'
  BY <1>3 DEF Inv, LevelKnown, LoggedIn, Done
<1> QED
  BY SMTT(60), <1>6, <1>7, <1>8, <1>9, <1>10, <1>11, <1>12, <1>13, <1>14 DEF Inv

\* A status that answers the request is returned.
LEMMA CallAnswered ==
    ASSUME Inv, Waits, Len(served) = Len(sent), server.at # "answer", toClient' = << >>,
           Returns(Last(served).status),
           UNCHANGED <<server, session, found, served, split, reset, sent, toServer>>,
           auth_level' = session \/ (auth_level' = auth_level /\ ~Done(Len(served), LOGIN))
    PROVE  Inv'
<1>1. client \in CallerType /\ toServer \in Seq(Byte) /\ session \in Byte /\ auth_level \in Byte
  BY DEF Inv, Typed
<1>2. << >> \in Seq(Byte) /\ 0 \in Count
  BY Statuses, NoCount
<1>3. /\ client' \in CallerType
      /\ client'.at = IF Last(served).status = SERVER_ERROR THEN "gone" ELSE "idle"
  BY <1>1, <1>2 DEF Returns, CallerType, ClientAt
<1>4. results' = Append(results, Last(served).status)
  BY DEF Returns
<1>5. CASE Last(served).status = SERVER_ERROR
  <2>1. IsPrefix(toServer', toServer)
    BY ZenonT(60), <1>1, <1>2, JoinIs, PrefixIs
  <2>2. LastResult(SERVER_ERROR) /\ SERVER_ERROR \in Byte
    BY <1>5, Statuses DEF LastResult
  <2> QED
    BY <1>1, <1>2, <1>3, <1>4, <1>5, <2>1, <2>2, EndsWaiting
<1>6. CASE Last(served).status # SERVER_ERROR
  BY <1>3, <1>4, <1>6, ClientIdles
<1> QED
  BY <1>5, <1>6

\* The call finds no answer, or one that it cannot read: every prompt ends the program.
LEMMA CallFails ==
    ASSUME Inv, Waits, LastResult(SERVER_ERROR), toClient' \in Seq(Byte),
           Returns(SERVER_ERROR),
           UNCHANGED <<server, session, found, served, split, reset, sent, toServer, auth_level>>
    PROVE  Inv'
<1>1. client \in CallerType /\ toServer \in Seq(Byte) /\ auth_level \in Byte
  BY DEF Inv, Typed
<1>2. << >> \in Seq(Byte) /\ 0 \in Count /\ SERVER_ERROR \in Byte
  BY Statuses, NoCount
<1>3. client' \in CallerType /\ client'.at = "gone" /\ results' = Append(results, SERVER_ERROR)
  BY <1>1, <1>2 DEF Returns, CallerType, ClientAt
<1>4. IsPrefix(toServer', toServer)
  BY ZenonT(60), <1>1, <1>2, JoinIs, PrefixIs
<1> QED
  BY <1>1, <1>2, <1>3, <1>4, EndsWaiting

LEMMA ServerGoneStep ==
    ASSUME Inv, ServerGone
    PROVE  Inv'
<1>1. LastResult(SERVER_ERROR) /\ toClient' = << >>
  BY DEF ServerGone, LastResult
<1>2. << >> \in Seq(Byte)
  BY Statuses
<1> QED
  BY <1>1, <1>2, CallFails DEF ServerGone, serverVars

LEMMA ServerResetStep ==
    ASSUME Inv, ServerReset
    PROVE  Inv'
<1>1. client \in CallerType /\ toServer \in Seq(Byte) /\ auth_level \in Byte
  BY DEF Inv, Typed
<1>2. << >> \in Seq(Byte) /\ 0 \in Count /\ Exited \in Byte
  BY Statuses, NoCount, ByteIs DEF Exited
<1>3. client' \in CallerType /\ client'.at = "gone" /\ results' = Append(results, Exited)
  BY <1>1, <1>2 DEF ServerReset, Reads, CallerType, ClientAt
<1>4. IsPrefix(toServer, toServer)
  BY ZenonT(60), <1>1, <1>2, JoinIs, PrefixIs
<1>5. LastResult(Exited)
  BY DEF LastResult
<1> QED
  BY <1>1, <1>2, <1>3, <1>4, <1>5, EndsWaiting DEF ServerReset, serverVars

LEMMA LeaveStep ==
    ASSUME Inv, Leave
    PROVE  Inv'
<1>1. client \in CallerType /\ toServer \in Seq(Byte) /\ auth_level \in Byte
  BY DEF Inv, Typed
<1>2. << >> \in Seq(Byte) /\ 0 \in Count /\ Exited \in Byte
  BY Statuses, NoCount, ByteIs DEF Exited
<1>3. client' \in CallerType /\ client'.at = "gone"
  BY <1>1, <1>2 DEF Leave, Reads, CallerType, ClientAt
<1>4. toServer' \in Seq(Byte) /\ IsPrefix(toServer', toServer)
  <2>1. PICK n \in 0 .. Len(toServer) : toServer' = SubSeq(toServer, 1, n)
    BY DEF Leave
  <2>2. n \in Nat /\ n <= Len(toServer)
    BY <1>1, <2>1, LenProperties
  <2>3. /\ SubSeq(toServer, 1, n) \in Seq(Byte) /\ Drop(toServer, n) \in Seq(Byte)
        /\ SubSeq(toServer, 1, n) \o Drop(toServer, n) = toServer
    BY <1>1, <2>2, CutIs
  <2>4. IsPrefix(SubSeq(toServer, 1, n), toServer)
    BY <1>1, <2>3, PrefixIs
  <2> QED
    BY <2>1, <2>3, <2>4
<1>5. toClient' \in Seq(Byte) /\ LastResult(Exited)
  BY <1>2 DEF Leave, LastResult
<1>6. UNCHANGED <<server, session, found, served, split, reset, auth_level, sent>>
  BY DEF Leave, serverVars
<1>7. CASE Waits
  <2>1. results' = Append(results, Exited)
    BY <1>7 DEF Leave
  <2> QED
    BY <1>1, <1>2, <1>3, <1>4, <1>5, <1>6, <1>7, <2>1, EndsWaiting
<1>8. CASE ~Waits
  <2>1. client.at = "idle"
    BY <1>1, <1>8 DEF Leave, Waits, CallerType, ClientAt
  <2>2. UNCHANGED results
    BY <1>8 DEF Leave
  <2> QED
    BY <1>3, <1>4, <1>5, <1>6, <2>1, <2>2, EndsIdle
<1> QED
  BY <1>7, <1>8

\* What a call that sends its request leaves as it was.
LEMMA CallKeeps ==
    ASSUME Inv, client.at = "idle", client' = [client EXCEPT !.at = "start", !.need = 1, !.got = << >>],
           NEW r \in Request, sent' = Append(sent, r),
           UNCHANGED <<results, auth_level, server, session, found, served, split>>,
           reset' \in BOOLEAN, reset' => server.at = "closed",
           toServer' \in Seq(Byte), toClient' \in Seq(Byte)
    PROVE  /\ Typed' /\ Counted' /\ ServedWell' /\ SplitOnly' /\ LeftAlone' /\ Returned' /\ LevelKnown'
           /\ Waits' /\ ~ClientGone /\ ~ClientGone' /\ Len(served) = Len(sent) /\ Len(served') < Len(sent')
           /\ Asked' = r /\ Unserved' = PacketOf(r) /\ Unserved = << >>
<1>1. PICK L \in Nat : L = Len(sent)
  BY Lengths DEF Inv
<1>2. Waits' /\ ~Waits /\ ~ClientGone /\ ~ClientGone' /\ client'.at = "start" /\ client' \in CallerType
  <2>1. client \in CallerType /\ << >> \in Seq(Byte)
    BY Statuses DEF Inv, Typed
  <2>2. 1 \in Count
    BY CountIs
  <2>3. client'.at = "start" /\ client' \in CallerType
    BY <2>1, <2>2 DEF CallerType, ClientAt
  <2> QED
    BY <2>3 DEF Waits, ClientGone
<1>3. Len(served) = L /\ DOMAIN served = 1 .. L /\ Len(results) = L /\ DOMAIN results = 1 .. L
  <2>1. Len(results) = Len(sent) - 0 /\ Len(served) = Len(sent)
    BY <1>2 DEF Inv, Counted
  <2>2. DOMAIN served = 1 .. Len(served) /\ DOMAIN results = 1 .. Len(results)
    BY Lengths DEF Inv
  <2> QED
    BY <1>1, <2>1, <2>2
<1>4. /\ sent' \in Seq(Request) /\ Len(sent') = L + 1
      /\ (\A k \in 1 .. L : sent'[k] = sent[k]) /\ sent'[L + 1] = r
  BY <1>1, AppendIs DEF Inv, Typed
<1>5. Typed'
  BY <1>2, <1>4 DEF Inv, Typed
<1>6. Counted'
  <2>1. Len(results') = Len(sent') - 1 /\ Len(served') <= Len(sent') /\ Len(sent') <= Len(served') + 1
        /\ Len(served') < Len(sent')
    BY <1>1, <1>3, <1>4
  <2>2. server.at # "answer"
    BY DEF Inv, Answered, Refused
  <2> QED
    BY <1>2, <2>1, <2>2 DEF Counted
<1>7. ServedWell'
  <2>1. \A k \in 1 .. L :
            /\ served[k].op \in {sent[k].op, NoOpcode}
            /\ served[k].payload \in {sent[k].payload, NotRead}
            /\ served[k].status = OK => served[k].op = sent[k].op
            /\ k \in 1 .. L /\ results[k] = served[k].status
    BY <1>3 DEF Inv, ServedWell
  <2> QED
    BY <1>3, <1>4, <2>1 DEF ServedWell
<1>8. SplitOnly'
  <2>1. \A k \in 1 .. L :
            served[k].status = MALFORMED_REQUEST /\ WellFormed(sent'[k]) =>
                \/ split /\ k = Len(served) /\ Ending
                \/ k \in DOMAIN results /\ results[k] = Exited
    BY <1>3, <1>4 DEF Inv, SplitOnly
  <2> QED
    BY <1>3, <2>1 DEF SplitOnly, Ending
<1>9. LeftAlone'
  BY <1>2 DEF LeftAlone
<1>10. Returned'
  <2>1. \A k \in 1 .. L :
            \/ k \in DOMAIN served /\ results[k] = served[k].status
            \/ results[k] = Exited
            \/ results[k] = SERVER_ERROR /\ server.at = "closed"
    BY <1>2, <1>3 DEF Inv, Returned
  <2> QED
    BY <1>3, <2>1 DEF Returned
<1>11. LevelKnown'
  BY <1>2 DEF Inv, LevelKnown, LoggedIn, Done
<1>12. Len(served) = Len(sent) /\ Len(served') < Len(sent') /\ Asked' = r
  BY <1>1, <1>3, <1>4 DEF Asked
<1>13. Unserved' = PacketOf(r)
  <2>1. Len(sent') \in Nat /\ Len(served') \in Nat /\ Len(sent') = Len(served') + 1
    BY <1>1, <1>3, <1>4
  <2>2. Unserved' = PacketOf(sent'[Len(served') + 1])
    BY <2>1, UnservedIs DEF Unserved
  <2> QED
    BY <1>3, <1>4, <2>2
<1>14. Unserved = << >>
  BY <1>1, <1>3, UnservedFacts
<1> QED
  BY <1>2, <1>5, <1>6, <1>7, <1>8, <1>9, <1>10, <1>11, <1>12, <1>13, <1>14

\* The request follows what the thread still discards.
LEMMA CallSends ==
    ASSUME Inv, client.at = "idle", server.at # "closed",
           client' = [client EXCEPT !.at = "start", !.need = 1, !.got = << >>],
           NEW r \in Request, sent' = Append(sent, r),
           toServer' = toServer \o PacketOf(r),
           UNCHANGED <<toClient, reset, results, auth_level, server, session, found, served, split>>
    PROVE  Inv'
<1>1. toServer \in Seq(Byte) /\ toClient \in Seq(Byte) /\ reset \in BOOLEAN
      /\ (reset => server.at = "closed") /\ server.need \in Nat /\ client.at # "gone"
  BY CountIs DEF Inv, Typed, Counted, ThreadType
<1>2. PICK p \in Seq(Byte) : p = PacketOf(r)
  <2>1. IsPacket(PacketOf(r), r.op, r.payload)
    BY RequestIs
  <2> QED
    BY <2>1 DEF IsPacket
<1>3. toServer' \in Seq(Byte)
  BY <1>1, <1>2, JoinIs
<1>4. /\ Typed' /\ Counted' /\ ServedWell' /\ SplitOnly' /\ LeftAlone' /\ Returned' /\ LevelKnown'
      /\ Waits' /\ ~ClientGone /\ ~ClientGone' /\ Len(served) = Len(sent) /\ Len(served') < Len(sent')
      /\ Asked' = r /\ Unserved' = PacketOf(r) /\ Unserved = << >>
  BY <1>1, <1>3, CallKeeps
<1>5. server.at \in {"start", "discard"} /\ toClient = << >>
  BY DEF Inv, Answered, Refused
<1>6. Requested'
  <2>1. server.got = << >>
    BY <1>5 DEF Inv, Requested
  <2>2. CASE server.at = "start"
    <3>1. server.need = 1 /\ toServer = << >>
      BY <1>4, <2>2 DEF Inv, Requested, Arrives, Reaches
    <3>2. toServer' = p
      BY <1>1, <1>2, <3>1, JoinIs
    <3> QED
      BY <1>2, <1>4, <2>1, <2>2, <3>1, <3>2 DEF Requested, Arrives, Reaches
  <2>3. CASE server.at = "discard"
    <3>1. server.need > 0 /\ Len(toServer) >= server.need /\ Drop(toServer, server.need) = << >>
      <4>1. /\ server.need > 0 /\ (Len(toServer) < server.need => ClientGone)
            /\ Len(toServer) >= server.need => Arrives(Drop(toServer, server.need), Unserved)
        BY <2>3 DEF Inv, Requested
      <4>2. Len(toServer) >= server.need
        BY <1>1, <1>4, <4>1, LenProperties
      <4> QED
        BY <1>4, <4>1, <4>2 DEF Arrives, Reaches
    <3>2. Len(toServer) = server.need
      <4>1. Len(toServer) \in Nat
        BY <1>1, LenProperties
      <4>2. Len(Drop(toServer, server.need)) = Len(toServer) - server.need
        BY <1>1, <3>1, <4>1, CutIs
      <4>3. Len(Drop(toServer, server.need)) = 0
        BY <3>1, EmptySeq
      <4> QED
        BY <1>1, <4>1, <4>2, <4>3
    <3>3. PICK s \in Seq(Byte) : s = toServer
      BY <1>1
    <3>4. Len(s \o p) = Len(s) + Len(p) /\ Len(s) \in Nat /\ Len(p) \in Nat /\ Drop(s \o p, Len(s)) = p
      BY JoinIs
    <3>5. Drop(toServer', server.need) = p /\ Len(toServer') >= server.need
      BY <1>2, <3>2, <3>3, <3>4
    <3>6. /\ server'.need > 0 /\ (Len(toServer') < server'.need => ClientGone')
          /\ (Len(toServer') >= server'.need => Drop(toServer', server'.need) = Unserved')
      <4>1. toServer' \in Seq(Byte) /\ Len(toServer') \in Nat
        BY <1>3, LenProperties
      <4> QED
        BY <1>1, <1>2, <1>4, <3>1, <3>5, <4>1
    <3> QED
      BY <1>4, <2>1, <2>3, <3>6 DEF Requested, Arrives, Reaches
  <2> QED
    BY <1>5, <2>2, <2>3
<1>7. Answered'
  BY <1>4, <1>5 DEF Answered
<1> QED
  BY <1>4, <1>6, <1>7 DEF Inv

\* The server has closed: the request provokes a reset.
LEMMA CallLost ==
    ASSUME Inv, client.at = "idle", server.at = "closed",
           client' = [client EXCEPT !.at = "start", !.need = 1, !.got = << >>],
           NEW r \in Request, sent' = Append(sent, r),
           reset' = TRUE, toClient' \in {toClient, << >>},
           UNCHANGED <<toServer, results, auth_level, server, session, found, served, split>>
    PROVE  Inv'
<1>1. toServer \in Seq(Byte) /\ toClient \in Seq(Byte) /\ << >> \in Seq(Byte)
  BY Statuses DEF Inv, Typed
<1>2. /\ Typed' /\ Counted' /\ ServedWell' /\ SplitOnly' /\ LeftAlone' /\ Returned' /\ LevelKnown'
      /\ Waits'
  BY <1>1, CallKeeps
<1>3. Requested'
  BY DEF Inv, Requested
<1>4. Answered'
  <2>1. CASE toClient' = << >>
    BY <1>2, <2>1 DEF Answered, Waits
  <2>2. CASE toClient' # << >>
    <3>1. Refused /\ toClient' = Packet(SERVER_ERROR, << >>)
      BY <2>2 DEF Inv, Answered
    <3>2. Suits(NoOpcode, SERVER_ERROR, << >>)'
      BY Bare DEF NoOpcode, LOGIN, SEARCH
    <3>3. client'.at = "start" /\ client'.got = << >> /\ client'.need = 1
      BY DEF Inv, Typed, CallerType
    <3>4. Left(NoOpcode, SERVER_ERROR, << >>)'
      BY <3>1, <3>3 DEF Left
    <3>5. Refused' /\ OnItsWay(NoOpcode, SERVER_ERROR)'
      BY <1>1, <3>1, <3>2, <3>4 DEF OnItsWay, Refused
    <3> QED
      BY <1>2, <3>3, <3>5 DEF Answered
  <2> QED
    BY <2>1, <2>2
<1> QED
  BY <1>2, <1>3, <1>4 DEF Inv

LEMMA CallStep ==
    ASSUME Inv, NEW r \in Request, Call(r)
    PROVE  Inv'
<1>1. client.at = "idle" /\ sent' = Append(sent, r)
      /\ UNCHANGED <<auth_level, server, session, found, served, split>>
  BY DEF Call, serverVars
<1>2. client \in CallerType /\ << >> \in Seq(Byte) /\ 0 \in Count
  BY Statuses, NoCount DEF Inv, Typed
<1>3. CASE Reads("start", 1) /\ UNCHANGED results /\ server.at = "closed"
           /\ reset' = TRUE /\ UNCHANGED toServer /\ toClient' \in {toClient, << >>}
  BY <1>1, <1>3, CallLost DEF Reads
<1>4. CASE Reads("start", 1) /\ UNCHANGED results /\ server.at # "closed"
           /\ toServer' = toServer \o Packet(r.op, r.payload) /\ UNCHANGED <<toClient, reset>>
  BY <1>1, <1>4, CallSends DEF Reads, PacketOf
<1>5. CASE reset /\ Reads("gone", 0) /\ results' = Append(results, Exited)
           /\ UNCHANGED <<toServer, toClient, reset>>
  <2>1. server.at = "closed"
    BY <1>5 DEF Inv, Counted
  <2>2. client' \in CallerType /\ client'.at = "gone"
    BY <1>2, <1>5 DEF Reads, CallerType, ClientAt
  <2> QED
    BY <1>1, <1>5, <2>1, <2>2, EndsCalling
<1> QED
  BY <1>3, <1>4, <1>5 DEF Call

-----------------------------------------------------------------------------
(***************************************************************************)
(* The client reads its answer.                                            *)
(***************************************************************************)

\* The answer that is on its way: of a server that is full, or to the request.
AnswerOf(op, status) ==
    \/ Refused /\ op = NoOpcode /\ status = SERVER_ERROR
    \/ /\ server.at # "answer" /\ Len(served) = Len(sent)
       /\ op = Last(sent).op /\ status = Last(served).status

LEMMA AnswerComes ==
    ASSUME Inv, Waits, toClient # << >>
    PROVE  \E op, status : \E content \in Seq(Byte) :
              AnswerOf(op, status) /\ Suits(op, status, content) /\ Left(op, status, content)
<1>1. CASE Refused /\ OnItsWay(NoOpcode, SERVER_ERROR)
  BY <1>1 DEF OnItsWay, AnswerOf
<1>2. CASE server.at # "answer" /\ Len(served) = Len(sent) /\ OnItsWay(Last(sent).op, Last(served).status)
  BY <1>2 DEF OnItsWay, AnswerOf
<1> QED
  BY <1>1, <1>2 DEF Inv, Answered, Forgotten

\* Of a request that is served there is a status.
LEMMA LastServed ==
    ASSUME Inv, Waits
    PROVE  /\ Len(sent) \in Nat /\ Len(sent) # 0
           /\ Len(served) = Len(sent) =>
                 /\ Last(served) = served[Len(served)] /\ Last(sent) = sent[Len(served)]
                 /\ Last(served).status \in Byte
                 /\ Last(served).status = OK => Last(served).op = Last(sent).op
<1>1. /\ Len(sent) \in Nat /\ Len(served) \in Nat /\ DOMAIN served = 1 .. Len(served)
      /\ Len(results) \in Nat /\ Len(results) = Len(sent) - 1
  BY Lengths DEF Inv, Counted
<1>2. Len(sent) # 0
  BY <1>1
<1>3. ASSUME Len(served) = Len(sent)
      PROVE  /\ Last(served) = served[Len(served)] /\ Last(sent) = sent[Len(served)]
             /\ Last(served).status \in Byte
             /\ Last(served).status = OK => Last(served).op = Last(sent).op
  <2>1. Last(served) = served[Len(served)] /\ Last(sent) = sent[Len(served)]
    BY <1>3 DEF Last
  <2>2. Len(served) \in 1 .. Len(served)
    BY <1>1, <1>2, <1>3
  <2>3. served[Len(served)] \in ServedType
    BY <2>2, ElementOfSeq DEF Inv, Typed
  <2>4. served[Len(served)].status = OK => served[Len(served)].op = sent[Len(served)].op
    BY <1>1, <2>2 DEF Inv, ServedWell
  <2> QED
    BY <2>1, <2>3, <2>4 DEF ServedType
<1> QED
  BY ZenonT(60), <1>1, <1>2, <1>3

LEMMA AnswerFacts ==
    ASSUME Inv, Waits, NEW op, NEW status, AnswerOf(op, status)
    PROVE  status \in Byte /\ server.at # "answer"
<1>1. CASE Refused /\ status = SERVER_ERROR
  BY <1>1, Statuses DEF Refused
<1>2. CASE server.at # "answer" /\ Len(served) = Len(sent) /\ status = Last(served).status
  BY <1>2, LastServed
<1> QED
  BY <1>1, <1>2 DEF AnswerOf

\* The client goes on reading.
LEMMA ClientReads ==
    ASSUME Inv, Waits, Waits', client' \in CallerType, toClient' \in Seq(Byte),
           UNCHANGED <<server, session, found, served, split, reset, sent, toServer, auth_level, results>>,
           NEW op, NEW status, NEW content \in Seq(Byte),
           AnswerOf(op, status), Suits(op, status, content), Left(op, status, content)'
    PROVE  Inv'
<1>1. client.at # "idle" /\ client'.at # "idle" /\ ~ClientGone /\ ~ClientGone'
  BY DEF Waits, ClientGone
<1>2. Typed' /\ Counted'
  BY <1>1 DEF Inv, Typed, Counted
<1>3. Requested'
  BY <1>1 DEF Inv, Requested, Arrives, Reaches, Unserved, Asked, ClientGone
<1>4. Suits(op, status, content)'
  BY DEF Suits
<1>5. OnItsWay(op, status)'
  BY <1>4 DEF OnItsWay
<1>6. Answered'
  <2>1. server'.at # "answer" /\ client'.at # "idle"
    BY <1>1, AnswerFacts
  <2>2. CASE Refused /\ op = NoOpcode /\ status = SERVER_ERROR
    <3>1. Refused' /\ OnItsWay(NoOpcode, SERVER_ERROR)'
      BY <1>5, <2>2 DEF Refused
    <3> QED
      BY <2>1, <3>1 DEF Answered
  <2>3. CASE Len(served) = Len(sent) /\ op = Last(sent).op /\ status = Last(served).status
    <3>1. Len(served') = Len(sent') /\ OnItsWay(Last(sent).op, Last(served).status)'
      BY <1>5, <2>3
    <3> QED
      BY <2>1, <3>1 DEF Answered
  <2> QED
    BY <2>2, <2>3 DEF AnswerOf
<1>7. ServedWell' /\ SplitOnly' /\ LeftAlone'
  BY <1>1 DEF Inv, ServedWell, SplitOnly, LeftAlone, Ending
<1>8. Returned'
  BY <1>1 DEF Inv, Returned
<1>9. LevelKnown'
  BY <1>1 DEF Inv, LevelKnown, LoggedIn, Done
<1> QED
  BY <1>2, <1>3, <1>6, <1>7, <1>8, <1>9 DEF Inv

\* The call returns the status of the answer, with nothing more to read.
LEMMA AnswerReturns ==
    ASSUME Inv, Waits, toClient' = << >>,
           UNCHANGED <<server, session, found, served, split, reset, sent, toServer>>,
           NEW op, NEW status, AnswerOf(op, status), Returns(status),
           \/ auth_level' = session /\ op = LOGIN
           \/ auth_level' = auth_level /\ ~(op = LOGIN /\ status = OK)
    PROVE  Inv'
<1>1. CASE Refused /\ op = NoOpcode /\ status = SERVER_ERROR
  <2>1. LastResult(SERVER_ERROR) /\ << >> \in Seq(Byte)
    BY <1>1, Statuses DEF LastResult, Refused
  <2>2. UNCHANGED auth_level
    BY <1>1 DEF NoOpcode, LOGIN
  <2> QED
    BY <1>1, <2>1, <2>2, CallFails
<1>2. CASE server.at # "answer" /\ Len(served) = Len(sent) /\ op = Last(sent).op /\ status = Last(served).status
  <2>1. ~(op = LOGIN /\ status = OK) => ~Done(Len(served), LOGIN)
    BY <1>2, LastServed DEF Done
  <2> QED
    BY <1>2, <2>1, CallAnswered
<1> QED
  BY <1>1, <1>2 DEF AnswerOf

\* A recv of the client: what it had, what is on its way, and how they are cut.
ClientCuts(n, got, stream, bytes, rest) ==
    /\ got = client.got /\ stream = toClient /\ stream # << >>
    /\ bytes = client.got \o SubSeq(toClient, 1, n) /\ rest = Drop(toClient, n)
    /\ got \in Seq(Byte) /\ stream \in Seq(Byte) /\ bytes \in Seq(Byte) /\ rest \in Seq(Byte)
    /\ Len(got) \in Nat /\ Len(bytes) = Len(got) + n /\ bytes \o rest = got \o stream

LEMMA ClientPieces ==
    ASSUME Inv, Waits, NEW n \in Pieces(toClient, client.need)
    PROVE  /\ n \in Nat /\ n # 0 /\ n <= client.need
           /\ client \in CallerType /\ client.need \in Nat /\ client.need < 65536
           /\ \E got, stream, bytes, rest : ClientCuts(n, got, stream, bytes, rest)
<1> DEFINE got == client.got
           stream == toClient
<1>1. client \in CallerType /\ stream \in Seq(Byte)
  BY DEF Inv, Typed
<1>2. client.need \in Nat /\ client.need < 65536 /\ got \in Seq(Byte)
  BY <1>1, CountIs DEF CallerType
<1>3. n \in 1 .. client.need /\ n <= Len(stream)
  BY DEF Pieces
<1>4. n \in Nat /\ n # 0 /\ n <= client.need
  BY <1>2, <1>3
<1>5. Len(stream) \in Nat /\ Len(got) \in Nat
  BY <1>1, <1>2, LenProperties
<1>6. stream # << >>
  BY <1>1, <1>3, <1>4, <1>5, NoBytes
<1> HIDE DEF got, stream
<1>7. got \in Seq(Byte) /\ stream \in Seq(Byte) /\ n \in Nat /\ n <= Len(stream)
  BY <1>1, <1>2, <1>3, <1>4
<1>8. /\ got \o SubSeq(stream, 1, n) \in Seq(Byte)
      /\ Len(got \o SubSeq(stream, 1, n)) = Len(got) + n
      /\ (got \o SubSeq(stream, 1, n)) \o Drop(stream, n) = got \o stream
  BY ZenonT(60), <1>7, PieceJoins
<1>9. Drop(stream, n) \in Seq(Byte)
  BY <1>7, CutIs
<1>10. PICK bytes : bytes = got \o SubSeq(stream, 1, n)
  OBVIOUS
<1>11. PICK rest : rest = Drop(stream, n)
  OBVIOUS
<1>12. bytes \in Seq(Byte) /\ rest \in Seq(Byte)
  BY <1>8, <1>9, <1>10, <1>11
<1>13. Len(bytes) = Len(got) + n /\ bytes \o rest = got \o stream
  BY <1>8, <1>10, <1>11
<1>14. bytes = client.got \o SubSeq(toClient, 1, n) /\ rest = Drop(toClient, n)
  BY <1>10, <1>11 DEF got, stream
<1>15. got = client.got /\ stream = toClient
  BY DEF got, stream
<1>16. ClientCuts(n, got, stream, bytes, rest)
  BY <1>5, <1>6, <1>7, <1>12, <1>13, <1>14, <1>15 DEF ClientCuts
<1>17. n \in Nat /\ n # 0 /\ n <= client.need
       /\ client \in CallerType /\ client.need \in Nat /\ client.need < 65536
  BY <1>1, <1>2, <1>4
<1> QED
  BY <1>16, <1>17

\* A recv has returned less than what is asked for.
ReadsPiece(n) ==
    /\ client' = [client EXCEPT !.need = client.need - n,
                                !.got = client.got \o SubSeq(toClient, 1, n)]
    /\ UNCHANGED <<auth_level, results>>

LEMMA PieceRead ==
    ASSUME Inv, Waits, NEW n \in Pieces(toClient, client.need), n < client.need,
           toClient' = Drop(toClient, n),
           ReadsPiece(n),
           UNCHANGED <<toServer, reset, sent, server, session, found, served, split>>
    PROVE  Inv'
<1>1. n \in Nat /\ n # 0 /\ client \in CallerType /\ client.need \in Nat /\ client.need < 65536
  BY ClientPieces
<1>2. PICK got, stream, bytes, rest : ClientCuts(n, got, stream, bytes, rest)
  BY ClientPieces
<1>3. PICK op, status : \E content \in Seq(Byte) :
          AnswerOf(op, status) /\ Suits(op, status, content) /\ Left(op, status, content)
  BY <1>2, AnswerComes DEF ClientCuts
<1>4. PICK content \in Seq(Byte) :
          AnswerOf(op, status) /\ Suits(op, status, content) /\ Left(op, status, content)
  BY <1>3
<1>5. PICK left \in Nat : left = client.need - n /\ left < 65536 /\ left > 0
  BY <1>1
<1>6. /\ client' \in CallerType /\ client'.at = client.at /\ client'.need = left
      /\ client'.got = bytes /\ client'.status = client.status
  <2>1. client' = [client EXCEPT !.need = left, !.got = bytes] /\ bytes \in Seq(Byte)
    BY <1>2, <1>5 DEF ClientCuts, ReadsPiece
  <2>2. left \in Count
    BY <1>5, CountIs
  <2>3. client' = [at |-> client.at, need |-> left, got |-> bytes, status |-> client.status]
    <3>1. client \in CallerType
      BY <1>1
    <3>2. client' = [client EXCEPT !.need = left, !.got = bytes]
      BY <2>1
    <3>3. client = [at |-> client.at, need |-> client.need, got |-> client.got,
                    status |-> client.status]
      BY <3>1 DEF CallerType
    <3> QED
      BY <3>2, <3>3
  <2>4. client.at \in ClientAt /\ client.status \in Byte
    BY <1>1 DEF CallerType
  <2> QED
    BY <2>1, <2>2, <2>3, <2>4 DEF CallerType
<1>7. toClient' = rest /\ rest \in Seq(Byte) /\ Waits'
  BY <1>2, <1>6 DEF ClientCuts, Waits
<1>8. client.at # "start" /\ client.at # "level"
  BY <1>1, <1>4 DEF Left
<1>9. Left(op, status, content)'
  <2>1. /\ got = client.got /\ stream = toClient /\ bytes \o rest = got \o stream
        /\ Len(got) \in Nat /\ Len(bytes) = Len(got) + n
    BY <1>2 DEF ClientCuts
  <2>2. Len(bytes) + left = Len(client.got) + client.need
    BY <1>1, <1>5, <2>1
  <2>3. client.at = "header" => /\ Len(bytes) + left = 3
                                /\ bytes \o rest = Tail(Packet(status, content))
    BY <1>4, <2>1, <2>2 DEF Left
  <2>4. client.at = "payload" => /\ Len(bytes) + left = Len(content) /\ bytes \o rest = content
                                 /\ op = SEARCH /\ client.status = status
    BY <1>4, <2>1, <2>2 DEF Left
  <2>5. PICK at : at = client.at /\ at # "start" /\ at # "level"
    BY <1>8
  <2>6. CASE at = "header"
    BY SMTT(60), <1>5, <1>6, <1>7, <2>3, <2>5, <2>6 DEF Left
  <2>7. CASE at = "payload"
    BY <1>5, <1>6, <1>7, <2>4, <2>5, <2>7 DEF Left
  <2>8. CASE at # "header" /\ at # "payload"
    BY <1>6, <2>5, <2>8 DEF Left
  <2> QED
    BY <2>6, <2>7, <2>8
<1> QED
  BY <1>4, <1>6, <1>7, <1>9, ClientReads DEF ReadsPiece

\* The starting sequence.
LEMMA FirstRead ==
    ASSUME Inv, Waits, client.at = "start", client.need \in Pieces(toClient, client.need),
           toClient' = Drop(toClient, client.need),
           ReadWhole(client.got \o SubSeq(toClient, 1, client.need)),
           UNCHANGED <<toServer, reset, sent, server, session, found, served, split>>
    PROVE  Inv'
<1>1. client \in CallerType
  BY ClientPieces
<1>2. PICK got, stream, bytes, rest : ClientCuts(client.need, got, stream, bytes, rest)
  BY ClientPieces
<1>3. PICK op, status : \E content \in Seq(Byte) :
          AnswerOf(op, status) /\ Suits(op, status, content) /\ Left(op, status, content)
  BY <1>2, AnswerComes DEF ClientCuts
<1>4. PICK content \in Seq(Byte) :
          AnswerOf(op, status) /\ Suits(op, status, content) /\ Left(op, status, content)
  BY <1>3
<1>5. client.got = << >> /\ client.need = 1 /\ toClient = Packet(status, content)
  BY <1>4 DEF Left
<1>6. PICK p : p = Packet(status, content) /\ IsPacket(p, status, content)
  <2>1. status \in Byte /\ Len(content) < 65536
    BY <1>4, AnswerFacts DEF Suits
  <2> QED
    BY <2>1, PacketIs
<1>7. /\ p \in Seq(Byte) /\ p # << >> /\ Head(p) = STARTING_SEQ /\ Tail(p) \in Seq(Byte)
      /\ stream = p /\ got = << >> /\ bytes \in Seq(Byte) /\ rest \in Seq(Byte)
      /\ Len(bytes) = 1 /\ bytes \o rest = << >> \o p
  <2>1. Len(got) = 0
    BY <1>2, <1>5, EmptySeq DEF ClientCuts
  <2> QED
    BY <1>2, <1>5, <1>6, <2>1 DEF ClientCuts, IsPacket
<1>8. bytes = <<STARTING_SEQ>> /\ rest = Tail(p)
  <2>1. << >> \o p = p
    BY <1>7, JoinIs
  <2>2. <<Head(p)>> \o Tail(p) = p /\ <<Head(p)>> \in Seq(Byte) /\ Len(<<Head(p)>>) = 1
    BY <1>7, FirstAndRest
  <2>3. PICK h \in Seq(Byte) : h = <<Head(p)>> /\ Len(h) = 1
    BY <2>2
  <2>4. PICK t \in Seq(Byte) : t = Tail(p)
    BY <1>7
  <2>5. bytes \o rest = h \o t
    BY <1>7, <2>1, <2>2, <2>3, <2>4
  <2>6. bytes = h /\ rest = t
    BY <1>7, <2>3, <2>4, <2>5, PartsOnce
  <2> QED
    BY <1>7, <2>3, <2>4, <2>6
<1>9. Reads("header", 3) /\ UNCHANGED <<results, auth_level>>
  <2>1. ReadWhole(bytes)
    BY <1>2 DEF ClientCuts
  <2>2. bytes[1] = STARTING_SEQ
    BY <1>8
  <2> QED
    BY <2>1, <2>2 DEF ReadWhole
<1>10. /\ client' \in CallerType /\ client'.at = "header" /\ client'.need = 3 /\ client'.got = << >>
  <2>1. << >> \in Seq(Byte)
    BY Statuses
  <2>2. 3 \in Count
    BY CountIs
  <2> QED
    BY <1>1, <1>9, <2>1, <2>2 DEF Reads, CallerType, ClientAt
<1>11. toClient' = rest /\ Waits'
  BY <1>2, <1>10 DEF ClientCuts, Waits
<1>12. Left(op, status, content)'
  <2>1. << >> \o rest = Tail(p) /\ Len(<< >>) = 0
    BY <1>7, <1>8, JoinIs, EmptySeq
  <2> QED
    BY <1>6, <1>10, <1>11, <2>1 DEF Left
<1> QED
  BY <1>4, <1>7, <1>9, <1>10, <1>11, <1>12, ClientReads

\* The level that follows the header of a login.
LEMMA LevelRead ==
    ASSUME Inv, Waits, client.at = "level", client.need \in Pieces(toClient, client.need),
           toClient' = Drop(toClient, client.need),
           ReadWhole(client.got \o SubSeq(toClient, 1, client.need)),
           UNCHANGED <<toServer, reset, sent, server, session, found, served, split>>
    PROVE  Inv'
<1>1. PICK got, stream, bytes, rest : ClientCuts(client.need, got, stream, bytes, rest)
  BY ClientPieces
<1>2. PICK op, status : \E content \in Seq(Byte) :
          AnswerOf(op, status) /\ Suits(op, status, content) /\ Left(op, status, content)
  BY <1>1, AnswerComes DEF ClientCuts
<1>3. PICK content \in Seq(Byte) :
          AnswerOf(op, status) /\ Suits(op, status, content) /\ Left(op, status, content)
  BY <1>2
<1>4. /\ client.got = << >> /\ client.need = 1 /\ toClient = content
      /\ op = LOGIN /\ status = OK
  BY <1>3 DEF Left
<1>5. PICK s \in Seq(Byte) : s = <<session>> /\ Len(s) = 1 /\ s[1] = session
  <2>1. PICK level \in Byte : level = session
    BY DEF Inv, Typed
  <2>2. <<level>> \in Seq(Byte) /\ Len(<<level>>) = 1 /\ <<level>>[1] = level
    OBVIOUS
  <2>3. <<level>> = <<session>> /\ level = session
    BY <2>1
  <2> QED
    BY <2>2, <2>3
<1>6. content = s
  BY <1>3, <1>4, <1>5 DEF Suits
<1>7. /\ stream = s /\ got = << >> /\ bytes \in Seq(Byte) /\ rest \in Seq(Byte)
      /\ Len(bytes) = 1 /\ bytes \o rest = << >> \o s
  <2>1. Len(got) = 0
    BY <1>1, <1>4, EmptySeq DEF ClientCuts
  <2> QED
    BY <1>1, <1>4, <1>6, <2>1 DEF ClientCuts
<1>8. bytes = s /\ rest = << >>
  <2>1. << >> \o s = s /\ s \o << >> = s
    BY JoinIs
  <2>2. bytes \o rest = s \o << >> /\ << >> \in Seq(Byte)
    BY <1>7, <2>1, Statuses
  <2> QED
    BY <1>5, <1>7, <2>2, PartsOnce
<1>9. Returns(OK) /\ auth_level' = session
  <2>1. ReadWhole(bytes)
    BY <1>1 DEF ClientCuts
  <2>2. bytes[1] = session
    BY <1>5, <1>8
  <2> QED
    BY <2>1, <2>2 DEF ReadWhole
<1>10. toClient' = << >>
  BY <1>1, <1>8 DEF ClientCuts
<1> QED
  BY <1>3, <1>4, <1>9, <1>10, AnswerReturns

\* What follows the header of an answer.
LEMMA HeaderReadIs ==
    ASSUME NEW header, HeaderRead(header)
    PROVE  \/ /\ Last(sent).op = LOGIN /\ header[1] = OK /\ UNCHANGED results
              /\ client' = [client EXCEPT !.at = "level", !.got = << >>, !.status = header[1], !.need = 1]
           \/ /\ Last(sent).op = SEARCH /\ SizeIn(header) > 0 /\ UNCHANGED results
              /\ client' = [client EXCEPT !.at = "payload", !.got = << >>, !.status = header[1],
                                          !.need = SizeIn(header)]
           \/ /\ ~(Last(sent).op = LOGIN /\ header[1] = OK)
              /\ ~(Last(sent).op = SEARCH /\ SizeIn(header) > 0)
              /\ Returns(header[1])
<1>1. LOGIN # SEARCH
  BY DEF LOGIN, SEARCH
<1>2. CASE Last(sent).op = LOGIN /\ header[1] = OK
  BY <1>1, <1>2 DEF HeaderRead
<1>3. CASE Last(sent).op = SEARCH /\ SizeIn(header) > 0
  BY <1>1, <1>3 DEF HeaderRead
<1>4. CASE ~(Last(sent).op = LOGIN /\ header[1] = OK) /\ ~(Last(sent).op = SEARCH /\ SizeIn(header) > 0)
  BY <1>4 DEF HeaderRead
<1> QED
  BY <1>2, <1>3, <1>4

LEMMA AnswerHeaderRead ==
    ASSUME Inv, Waits, client.at = "header", client.need \in Pieces(toClient, client.need),
           toClient' = Drop(toClient, client.need),
           ReadWhole(client.got \o SubSeq(toClient, 1, client.need)),
           UNCHANGED <<toServer, reset, sent, server, session, found, served, split>>
    PROVE  Inv'
<1>1. client \in CallerType /\ client.need \in Nat
  BY ClientPieces
<1>2. PICK got, stream, bytes, rest : ClientCuts(client.need, got, stream, bytes, rest)
  BY ClientPieces
<1>3. PICK op, status : \E content \in Seq(Byte) :
          AnswerOf(op, status) /\ Suits(op, status, content) /\ Left(op, status, content)
  BY <1>2, AnswerComes DEF ClientCuts
<1>4. PICK content \in Seq(Byte) :
          AnswerOf(op, status) /\ Suits(op, status, content) /\ Left(op, status, content)
  BY <1>3
<1>5. Len(client.got) + client.need = 3 /\ client.got \o toClient = Tail(Packet(status, content))
  BY <1>4 DEF Left
<1>6. status \in Byte /\ Len(content) < 65536 /\ Len(content) \in Nat
  BY <1>4, AnswerFacts, LenProperties DEF Suits
<1>7. PICK h \in Seq(Byte) : /\ h = Header(status, content) /\ Len(h) = 3
                             /\ h[1] = status /\ SizeIn(h) = Len(content)
  BY <1>6, HeaderIs
<1>8. Tail(Packet(status, content)) = h \o content
  <2>1. IsPacket(Packet(status, content), status, content)
    BY <1>6, PacketIs
  <2> QED
    BY <1>7, <2>1 DEF IsPacket
<1>9. bytes = h /\ rest = content
  <2>1. /\ bytes \in Seq(Byte) /\ rest \in Seq(Byte) /\ Len(bytes) = 3
        /\ bytes \o rest = h \o content
    BY <1>2, <1>5, <1>8 DEF ClientCuts
  <2> QED
    BY <1>7, <2>1, PartsOnce
<1>10. toClient' = content /\ HeaderRead(h) /\ UNCHANGED auth_level
  <2>1. toClient' = rest /\ ReadWhole(bytes)
    BY <1>2 DEF ClientCuts
  <2>2. ReadWhole(h)
    BY <1>9, <2>1
  <2> QED
    BY <1>9, <2>1, <2>2 DEF ReadWhole
<1>11. (Refused /\ op = NoOpcode /\ status = SERVER_ERROR) \/ op = Last(sent).op
  BY <1>4 DEF AnswerOf
<1>12. Refused /\ op = NoOpcode /\ status = SERVER_ERROR => status # OK /\ Len(content) = 0
  BY <1>4, EmptySeq DEF Suits, NoOpcode, LOGIN, SEARCH, SERVER_ERROR, OK
<1>13. << >> \in Seq(Byte) /\ 1 \in Nat
  BY Statuses
<1>14. CASE /\ Last(sent).op = LOGIN /\ status = OK /\ UNCHANGED results
            /\ client' = [client EXCEPT !.at = "level", !.got = << >>, !.status = status, !.need = 1]
  <2>1. op = LOGIN
    BY <1>11, <1>12, <1>14
  <2>2. 1 \in Count
    BY CountIs
  <2>3. client' \in CallerType /\ client'.at = "level" /\ client'.got = << >> /\ client'.need = 1
    <3>1. client = [at |-> client.at, need |-> client.need, got |-> client.got,
                    status |-> client.status]
      BY <1>1 DEF CallerType
    <3>2. client' = [client EXCEPT !.at = "level", !.got = << >>, !.status = status,
                                   !.need = 1]
      BY <1>14
    <3>3. client' = [at |-> "level", need |-> 1, got |-> << >>, status |-> status]
      BY <3>1, <3>2
    <3> QED
      BY <1>6, <1>13, <2>2, <3>3 DEF CallerType, ClientAt
  <2>4. Left(op, status, content)' /\ Waits'
    BY <1>10, <1>14, <2>1, <2>3 DEF Left, Waits
  <2> QED
    BY <1>4, <1>10, <1>14, <2>3, <2>4, ClientReads
<1>15. CASE /\ Last(sent).op = SEARCH /\ SizeIn(h) > 0 /\ UNCHANGED results
            /\ client' = [client EXCEPT !.at = "payload", !.got = << >>, !.status = status,
                                        !.need = SizeIn(h)]
  <2>1. op = SEARCH
    BY <1>6, <1>7, <1>11, <1>12, <1>15
  <2>2. Len(content) \in Count
    BY <1>6, CountIs
  <2>3. /\ client' \in CallerType /\ client'.at = "payload" /\ client'.got = << >>
        /\ client'.need = Len(content) /\ client'.status = status
    <3>1. client = [at |-> client.at, need |-> client.need, got |-> client.got,
                    status |-> client.status]
      BY <1>1 DEF CallerType
    <3>2. client' = [client EXCEPT !.at = "payload", !.got = << >>, !.status = status,
                                   !.need = Len(content)]
      BY <1>7, <1>15
    <3>3. client' = [at |-> "payload", need |-> Len(content), got |-> << >>, status |-> status]
      BY <3>1, <3>2
    <3> QED
      BY <1>6, <1>13, <2>2, <3>3 DEF CallerType, ClientAt
  <2>4. /\ Len(<< >>) + Len(content) = Len(content) /\ Len(content) > 0
        /\ << >> \o content = content
    <3>1. Len(<< >>) = 0 /\ << >> \o content = content
      BY EmptySeq, JoinIs
    <3>2. Len(content) > 0
      BY <1>7, <1>15
    <3> QED
      BY <1>6, <3>1, <3>2
  <2>5. Left(op, status, content)' /\ Waits'
    BY <1>10, <2>1, <2>3, <2>4 DEF Left, Waits
  <2> QED
    BY <1>4, <1>10, <1>15, <2>3, <2>5, ClientReads
<1>16. CASE ~(Last(sent).op = LOGIN /\ status = OK) /\ ~(Last(sent).op = SEARCH /\ SizeIn(h) > 0)
            /\ Returns(status)
  <2>1. ~(op = LOGIN /\ status = OK) /\ ~(op = SEARCH /\ Len(content) > 0)
    BY <1>6, <1>7, <1>11, <1>12, <1>16
  <2>2. content = << >>
    <3>1. CASE Len(content) = 0
      BY <3>1, NoBytes
    <3>2. CASE Len(content) # 0
      BY <1>4, <1>6, <2>1, <3>2 DEF Suits
    <3> QED
      BY <3>1, <3>2
  <2> QED
    BY <1>4, <1>10, <1>16, <2>1, <2>2, AnswerReturns
<1> QED
  BY <1>7, <1>10, <1>14, <1>15, <1>16, HeaderReadIs

\* The payload of a search: one that the client cannot read ends it.
LEMMA AnswerPayloadRead ==
    ASSUME Inv, Waits, client.at = "payload", client.need \in Pieces(toClient, client.need),
           toClient' = Drop(toClient, client.need),
           ReadWhole(client.got \o SubSeq(toClient, 1, client.need)),
           UNCHANGED <<toServer, reset, sent, server, session, found, served, split>>
    PROVE  Inv'
<1>1. client \in CallerType /\ client.need \in Nat /\ client.need # 0
  BY ClientPieces
<1>2. PICK got, stream, bytes, rest : ClientCuts(client.need, got, stream, bytes, rest)
  BY ClientPieces
<1>3. PICK op, status : \E content \in Seq(Byte) :
          AnswerOf(op, status) /\ Suits(op, status, content) /\ Left(op, status, content)
  BY <1>2, AnswerComes DEF ClientCuts
<1>4. PICK content \in Seq(Byte) :
          AnswerOf(op, status) /\ Suits(op, status, content) /\ Left(op, status, content)
  BY <1>3
<1>5. /\ Len(client.got) + client.need = Len(content) /\ client.got \o toClient = content
      /\ op = SEARCH /\ client.status = status
  BY <1>4 DEF Left
<1>6. bytes = content /\ rest = << >> /\ Len(bytes) # 0
  <2>1. /\ bytes \in Seq(Byte) /\ rest \in Seq(Byte) /\ Len(bytes) = Len(content)
        /\ bytes \o rest = content /\ Len(got) \in Nat /\ Len(bytes) = Len(got) + client.need
    BY <1>2, <1>5 DEF ClientCuts
  <2>2. content \o << >> = content /\ << >> \in Seq(Byte)
    BY Statuses, JoinIs
  <2>3. bytes \o rest = content \o << >>
    BY <2>1, <2>2
  <2>4. bytes = content /\ rest = << >>
    BY <2>1, <2>2, <2>3, PartsOnce
  <2>5. Len(bytes) # 0
    BY <1>1, <2>1
  <2> QED
    BY <2>4, <2>5
<1>7. toClient' = << >> /\ ReadWhole(content)
  BY <1>2, <1>6 DEF ClientCuts
<1>8. Returns(IF Readable(content) THEN status ELSE SERVER_ERROR) /\ UNCHANGED auth_level
  BY <1>5, <1>7 DEF ReadWhole
<1>9. CASE Readable(content)
  <2>1. Returns(status)
    BY <1>8, <1>9
  <2>2. op # LOGIN
    BY <1>5 DEF LOGIN, SEARCH
  <2> QED
    BY <1>4, <1>7, <1>8, <2>1, <2>2, AnswerReturns
<1>10. CASE ~Readable(content)
  <2>1. content # << >>
    BY <1>6, EmptySeq
  <2>2. \E c \in Range(found) : ~is_printable(c[1] \o c[2])
    BY <1>4, <1>5, <1>10, <2>1 DEF Suits, LOGIN, SEARCH
  <2>3. op # NoOpcode
    BY <1>5 DEF NoOpcode, SEARCH
  <2>4. Len(served) = Len(sent) /\ Last(sent).op = SEARCH
    BY <1>4, <1>5, <2>3 DEF AnswerOf
  <2>5. LastResult(SERVER_ERROR)
    BY <2>2, <2>4 DEF LastResult
  <2>6. Returns(SERVER_ERROR) /\ << >> \in Seq(Byte)
    BY <1>8, <1>10, Statuses
  <2> QED
    BY <1>7, <1>8, <2>5, <2>6, CallFails
<1> QED
  BY <1>9, <1>10

LEMMA ClientStep ==
    ASSUME Inv, Client
    PROVE  Inv'
<1>1. CASE ClientRecv
  <2>1. /\ Waits /\ UNCHANGED <<toServer, reset, sent, server, session, found, served, split>>
    BY <1>1 DEF ClientRecv, serverVars
  <2>2. PICK n \in Pieces(toClient, client.need) :
            /\ toClient' = Drop(toClient, n)
            /\ IF n < client.need THEN ReadsPiece(n)
               ELSE ReadWhole(client.got \o SubSeq(toClient, 1, n))
    BY <1>1 DEF ClientRecv, ReadsPiece
  <2>3. n \in Nat /\ client.need \in Nat /\ n <= client.need
    BY <2>1, ClientPieces
  <2>4. CASE n < client.need
    BY <2>1, <2>2, <2>4, PieceRead
  <2>5. CASE n = client.need
    <3>1. /\ toClient' = Drop(toClient, client.need) /\ client.need \in Pieces(toClient, client.need)
          /\ ReadWhole(client.got \o SubSeq(toClient, 1, client.need))
      BY <2>2, <2>3, <2>5
    <3>2. client.at \in {"start", "header", "level", "payload"}
      BY <2>1 DEF Waits
    <3> QED
      BY <2>1, <3>1, <3>2, FirstRead, AnswerHeaderRead, LevelRead, AnswerPayloadRead
  <2> QED
    BY <2>3, <2>4, <2>5
<1>2. CASE ServerGone
  BY <1>2, ServerGoneStep
<1>3. CASE ServerReset
  BY <1>3, ServerResetStep
<1> QED
  BY <1>1, <1>2, <1>3 DEF Client

-----------------------------------------------------------------------------
(***************************************************************************)
(* The answer to a search, and the walk of the client through it.          *)
(***************************************************************************)

\* What the walk makes of a contact, and where the next one is.
NextAt(p, o) == o + 2 + p[o + 1] + p[o + 2]

ContactAt(p, o) ==
    /\ NextAt(p, o) <= Len(p)
    /\ p[o + 1] <= MAX_CONTACT_NAME_LEN /\ p[o + 2] <= MAX_PHONE_NUMBER_LENGTH
    /\ is_printable(SubSeq(p, o + 3, NextAt(p, o)))

\* The contacts that a walk meets from an offset on.
ReadableFrom(payload) ==
    LET from[o \in Nat] ==
            o + 2 > Len(payload) \/
            LET name_length  == payload[o + 1]
                phone_length == payload[o + 2]
                next         == o + 2 + name_length + phone_length
            IN  /\ next <= Len(payload)
                /\ name_length <= MAX_CONTACT_NAME_LEN
                /\ phone_length <= MAX_PHONE_NUMBER_LENGTH
                /\ is_printable(SubSeq(payload, o + 3, next))
                /\ from[next]
    IN  from

LEMMA ReadableIs == \A p : Readable(p) <=> ReadableFrom(p)[0]
  BY DEF Readable, ReadableFrom

LEMMA ReadableFromIs ==
    ASSUME NEW p \in Seq(Byte)
    PROVE  \A o \in Nat :
               ReadableFrom(p)[o] <=>
                   o + 2 > Len(p) \/ (ContactAt(p, o) /\ ReadableFrom(p)[NextAt(p, o)])
<1> DEFINE N == Len(p)
           V == BOOLEAN
           base == [o \in Nat |-> TRUE]
           next == [o \in Nat |-> IF o + 2 <= N THEN NextAt(p, o) ELSE o + 1]
           step == [o \in Nat |-> [v \in V |-> o + 2 > N \/ (ContactAt(p, o) /\ v)]]
<1>1. N \in Nat
  BY LenProperties
<1>2. \A o \in Nat : o + 2 <= N => NextAt(p, o) \in Nat /\ NextAt(p, o) > o
  <2> SUFFICES ASSUME NEW o \in Nat, o + 2 <= N PROVE NextAt(p, o) \in Nat /\ NextAt(p, o) > o
    OBVIOUS
  <2>1. o + 1 \in 1 .. N /\ o + 2 \in 1 .. N
    BY <1>1
  <2>2. p[o + 1] \in Byte /\ p[o + 2] \in Byte
    BY <2>1, ElementOfSeq
  <2> QED
    BY <2>2, ByteIs DEF NextAt
<1>3. \A o \in Nat : next[o] \in Nat /\ next[o] > o
  <2> HIDE DEF N
  <2> QED
    BY <1>1, <1>2
<1>4. next \in [Nat -> Nat] /\ Onward(next)
  BY <1>3 DEF Onward
<1>5. step \in [Nat -> [V -> V]] /\ base \in [Nat -> V]
  OBVIOUS
<1>6. PICK g \in [Nat -> V] : Computes(g, base, N, next, step)
  <2> HIDE DEF N, V, next, step, base
  <2> QED
    BY <1>1, <1>4, <1>5, WalkComputes
<1> DEFINE body(h, o) == o + 2 > Len(p) \/ (ContactAt(p, o) /\ h[NextAt(p, o)])
<1>7. \A o \in Nat : g[o] = body(g, o)
  <2> SUFFICES ASSUME NEW o \in Nat PROVE g[o] = body(g, o)
    OBVIOUS
  <2>1. CASE o >= N
    <3>1. g[o] = TRUE
      BY <1>6, <2>1 DEF Computes
    <3>2. o + 2 > Len(p)
      BY <1>1, <2>1
    <3> QED
      BY <3>1, <3>2
  <2>2. CASE ~(o >= N)
    <3>1. g[o] = step[o][g[next[o]]] /\ g[next[o]] \in V
      BY <1>3, <1>6, <2>2 DEF Computes
    <3>2. g[o] = (o + 2 > N \/ (ContactAt(p, o) /\ g[next[o]]))
      BY <3>1
    <3>3. CASE o + 2 > N
      BY <3>2, <3>3
    <3>4. CASE ~(o + 2 > N)
      <4>1. next[o] = NextAt(p, o)
        BY <1>1, <3>4
      <4> QED
        BY <3>2, <3>4, <4>1
    <3> QED
      BY <3>3, <3>4
  <2> QED
    BY <2>1, <2>2
<1>8. g = [o \in Nat |-> body(g, o)]
  <2> HIDE DEF body
  <2> QED
    BY <1>7
<1>9. \E h : h = [o \in Nat |->
            o + 2 > Len(p) \/
            LET name_length  == p[o + 1]
                phone_length == p[o + 2]
                after        == o + 2 + name_length + phone_length
            IN  /\ after <= Len(p)
                /\ name_length <= MAX_CONTACT_NAME_LEN
                /\ phone_length <= MAX_PHONE_NUMBER_LENGTH
                /\ is_printable(SubSeq(p, o + 3, after))
                /\ h[after]]
  <2>1. g = [o \in Nat |->
            o + 2 > Len(p) \/
            LET name_length  == p[o + 1]
                phone_length == p[o + 2]
                after        == o + 2 + name_length + phone_length
            IN  /\ after <= Len(p)
                /\ name_length <= MAX_CONTACT_NAME_LEN
                /\ phone_length <= MAX_PHONE_NUMBER_LENGTH
                /\ is_printable(SubSeq(p, o + 3, after))
                /\ g[after]]
    BY <1>8 DEF ContactAt, NextAt
  <2> QED
    BY <2>1
<1>10. ReadableFrom(p) = [o \in Nat |->
            o + 2 > Len(p) \/
            LET name_length  == p[o + 1]
                phone_length == p[o + 2]
                after        == o + 2 + name_length + phone_length
            IN  /\ after <= Len(p)
                /\ name_length <= MAX_CONTACT_NAME_LEN
                /\ phone_length <= MAX_PHONE_NUMBER_LENGTH
                /\ is_printable(SubSeq(p, o + 3, after))
                /\ ReadableFrom(p)[after]]
  BY <1>9 DEF ReadableFrom
<1> QED
  BY <1>10 DEF ContactAt, NextAt

\* A function that is computed from 1 upward.
ComputesUp(g, first, n, step) ==
    \A j \in 1 .. n : g[j] = IF j = 1 THEN first ELSE step[j][g[j - 1]]

LEMMA StepsUp ==
    ASSUME NEW V, NEW n \in Nat, NEW first \in V, NEW step \in [1 .. n -> [V -> V]]
    PROVE  \E g \in [1 .. n -> V] : ComputesUp(g, first, n, step)
<1> USE DEF ComputesUp
<1> DEFINE Up(g, i) == \A j \in 1 .. i : g[j] = IF j = 1 THEN first ELSE step[j][g[j - 1]]
           Good == { i \in Nat : i <= n => \E g \in [1 .. i -> V] : Up(g, i) }
<1>1. 0 \in Good
  <2>1. [j \in 1 .. 0 |-> first] \in [1 .. 0 -> V] /\ Up([j \in 1 .. 0 |-> first], 0)
    OBVIOUS
  <2> QED
    BY <2>1
<1>2. ASSUME NEW i \in Nat, i \in Good PROVE i + 1 \in Good
  <2> SUFFICES ASSUME i + 1 <= n PROVE \E g \in [1 .. i + 1 -> V] : Up(g, i + 1)
    OBVIOUS
  <2>1. PICK g \in [1 .. i -> V] : Up(g, i)
    BY <1>2
  <2> DEFINE next == IF i = 0 THEN first ELSE step[i + 1][g[i]]
             h == [j \in 1 .. i + 1 |-> IF j <= i THEN g[j] ELSE next]
  <2>2. next \in V
    <3>1. CASE i = 0
      BY <3>1
    <3>2. CASE i # 0
      <4>1. i \in 1 .. i /\ i + 1 \in 1 .. n
        BY <1>2, <3>2
      <4>2. g[i] \in V /\ step[i + 1] \in [V -> V]
        BY <2>1, <4>1
      <4> QED
        BY <3>2, <4>2
    <3> QED
      BY <3>1, <3>2
  <2>3. h \in [1 .. i + 1 -> V]
    <3> HIDE DEF next
    <3> QED
      BY <2>1, <2>2
  <2>4. Up(h, i + 1)
    <3> SUFFICES ASSUME NEW j \in 1 .. i + 1
                 PROVE  h[j] = IF j = 1 THEN first ELSE step[j][h[j - 1]]
      OBVIOUS
    <3>1. CASE j = 1
      BY <2>1, <3>1
    <3>2. CASE j # 1 /\ j <= i
      <4>1. j \in 1 .. i /\ j - 1 \in 1 .. i + 1 /\ j - 1 <= i
        BY <3>2
      <4>2. h[j] = g[j] /\ h[j - 1] = g[j - 1]
        BY <4>1
      <4>3. g[j] = step[j][g[j - 1]]
        BY <2>1, <3>2, <4>1
      <4> QED
        BY <3>2, <4>2, <4>3
    <3>3. CASE j # 1 /\ ~(j <= i)
      <4>1. j = i + 1 /\ i # 0 /\ i \in 1 .. i + 1
        BY <3>3
      <4>2. h[i + 1] = step[i + 1][g[i]] /\ h[i] = g[i]
        BY <4>1
      <4> QED
        BY <3>3, <4>1, <4>2
    <3> QED
      BY <3>1, <3>2, <3>3
  <2> QED
    BY <2>3, <2>4
<1>3. \A i \in Nat : i \in Good
  <2> HIDE DEF Good
  <2> QED
    BY <1>1, <1>2, Upward
<1> QED
  BY <1>3

\* Some sequences joined, one after the other.
Joins(g, f, n) ==
    /\ g \in [1 .. n -> Seq(Byte)]
    /\ g[1] = f[1]
    /\ \A i \in 2 .. n : g[i] = g[i - 1] \o f[i]

LEMMA FlattenJoins ==
    ASSUME NEW n \in Nat, n # 0, NEW f \in [1 .. n -> Seq(Byte)]
    PROVE  \E g : Joins(g, f, n) /\ FlattenSeq(f) = g[n]
<1> DEFINE step == [j \in 1 .. n |-> [v \in Seq(Byte) |-> v \o f[j]]]
<1>1. step \in [1 .. n -> [Seq(Byte) -> Seq(Byte)]]
  <2>1. ASSUME NEW j \in 1 .. n, NEW v \in Seq(Byte) PROVE v \o f[j] \in Seq(Byte)
    BY JoinIs
  <2> QED
    BY <2>1
<1>2. f[1] \in Seq(Byte)
  OBVIOUS
<1>3. PICK h \in [1 .. n -> Seq(Byte)] :
          \A j \in 1 .. n : h[j] = IF j = 1 THEN f[1] ELSE step[j][h[j - 1]]
  <2> DEFINE V == Seq(Byte)
             first == f[1]
  <2>1. step \in [1 .. n -> [V -> V]] /\ first \in V
    BY <1>1, <1>2
  <2> HIDE DEF step, V, first
  <2>2. \E h \in [1 .. n -> V] : ComputesUp(h, first, n, step)
    BY <2>1, StepsUp
  <2> QED
    BY <2>2 DEF V, first, ComputesUp
<1>4. \A j \in 1 .. n : h[j] = IF j = 1 THEN f[j] ELSE h[j - 1] \o f[j]
  <2> SUFFICES ASSUME NEW j \in 1 .. n
               PROVE  h[j] = IF j = 1 THEN f[j] ELSE h[j - 1] \o f[j]
    OBVIOUS
  <2>1. CASE j = 1
    BY <1>3, <2>1
  <2>2. CASE j # 1
    <3>1. h[j - 1] \in Seq(Byte)
      BY <1>3, <2>2
    <3>2. step[j][h[j - 1]] = h[j - 1] \o f[j]
      BY <3>1
    <3> QED
      BY <1>3, <2>2, <3>2
  <2> QED
    BY <2>1, <2>2
<1>5. h = [j \in 1 .. n |-> IF j = 1 THEN f[j] ELSE h[j - 1] \o f[j]]
  <2> HIDE DEF step
  <2> QED
    BY <1>3, <1>4
<1> DEFINE g == CHOOSE h1 : h1 = [i \in 1 .. n |-> IF i = 1 THEN f[i] ELSE h1[i - 1] \o f[i]]
<1>6. g = [i \in 1 .. n |-> IF i = 1 THEN f[i] ELSE g[i - 1] \o f[i]]
  BY <1>5
<1>7. FlattenSeq(f) = g[n]
  <2>1. Len(f) = n
    OBVIOUS
  <2> QED
    BY <2>1 DEF FlattenSeq
<1> HIDE DEF g, step
<1>8. g[1] = f[1] /\ \A i \in 2 .. n : g[i] = g[i - 1] \o f[i]
  <2>1. \A i \in 1 .. n : g[i] = IF i = 1 THEN f[i] ELSE g[i - 1] \o f[i]
    BY <1>6
  <2>2. 1 \in 1 .. n /\ \A i \in 2 .. n : i \in 1 .. n /\ i # 1
    OBVIOUS
  <2> QED
    BY <2>1, <2>2
<1> DEFINE Good == { i \in Nat : i \in 1 .. n => g[i] \in Seq(Byte) }
<1>9. 0 \in Good
  OBVIOUS
<1>10. ASSUME NEW i \in Nat, i \in Good PROVE i + 1 \in Good
  <2>1. CASE i = 0
    BY <1>2, <1>8, <2>1
  <2>2. CASE i # 0 /\ i + 1 \in 1 .. n
    <3>1. g[i] \in Seq(Byte) /\ f[i + 1] \in Seq(Byte) /\ g[i + 1] = g[i] \o f[i + 1]
      <4>1. i \in 1 .. n /\ i + 1 \in 1 .. n
        BY <2>2
      <4>2. PICK k \in 2 .. n : k = i + 1 /\ k - 1 = i
        BY <2>2
      <4>3. g[k] = g[k - 1] \o f[k]
        BY <1>8
      <4> QED
        BY <1>10, <4>1, <4>2, <4>3
    <3>2. g[i] \o f[i + 1] \in Seq(Byte)
      BY <3>1, JoinIs
    <3>3. g[i + 1] \in Seq(Byte)
      BY <3>1, <3>2
    <3> QED
      BY <3>3
  <2> QED
    BY <2>1, <2>2
<1>11. \A i \in Nat : i \in Good
  <2> HIDE DEF Good
  <2> QED
    BY <1>9, <1>10, Upward
<1>12. g \in [1 .. n -> Seq(Byte)]
  <2>1. \A i \in 1 .. n : g[i] \in Seq(Byte)
    BY <1>11
  <2>2. g = [i \in 1 .. n |-> g[i]]
    BY <1>6
  <2> QED
    BY <2>1, <2>2
<1>13. Joins(g, f, n)
  BY <1>8, <1>12 DEF Joins
<1> QED
  BY <1>7, <1>13

LEMMA ConcatAt ==
    ASSUME NEW S, NEW a \in Seq(S), NEW b \in Seq(S), NEW s, s = a \o b
    PROVE  /\ s \in Seq(S) /\ Len(s) = Len(a) + Len(b) /\ Len(a) \in Nat /\ Len(b) \in Nat
           /\ \A i \in 1 .. Len(a) : s[i] = a[i]
           /\ \A i \in 1 .. Len(b) : s[Len(a) + i] = b[i]
<1>1. Len(a) \in Nat /\ Len(b) \in Nat
  BY LenProperties
<1>2. /\ s \in Seq(S) /\ Len(s) = Len(a) + Len(b)
      /\ \A i \in 1 .. Len(a) + Len(b) : s[i] = IF i <= Len(a) THEN a[i] ELSE b[i - Len(a)]
  BY ConcatProperties
<1>3. PICK m \in Nat : m = Len(a)
  BY <1>1
<1>4. ASSUME NEW i \in 1 .. m PROVE s[i] = a[i]
  BY <1>1, <1>2, <1>3
<1>5. ASSUME NEW i \in 1 .. Len(b) PROVE s[m + i] = b[i]
  <2>1. m + i \in 1 .. m + Len(b) /\ ~(m + i <= m) /\ m + i - m = i
    BY <1>1, <1>3
  <2>2. PICK k \in 1 .. m + Len(b) : k = m + i
    BY <2>1
  <2>3. s[k] = b[k - m]
    BY <1>2, <1>3, <2>1, <2>2
  <2> QED
    BY <2>1, <2>2, <2>3
<1> QED
  BY <1>1, <1>2, <1>3, <1>4, <1>5

\* A contact as it is sent: its lengths, of n and m bytes, and its text.
EntryOf(c, e, t, n, m) ==
    /\ e \in Seq(Byte) /\ t \in Seq(Byte) /\ n \in Nat /\ m \in Nat
    /\ e = Entry(c) /\ t = c[1] \o c[2]
    /\ n <= MAX_CONTACT_NAME_LEN /\ m <= MAX_PHONE_NUMBER_LENGTH
    /\ Len(t) = n + m /\ Len(e) = n + m + 2
    /\ e[1] = n /\ e[2] = m /\ \A i \in 1 .. n + m : e[i + 2] = t[i]

LEMMA EntryIs ==
    ASSUME NEW c \in Contact
    PROVE  \E e, t, n, m : EntryOf(c, e, t, n, m)
<1>1. PICK a \in Seq(Byte), b \in Seq(Byte) :
          /\ a = c[1] /\ b = c[2] /\ Len(a) <= MAX_CONTACT_NAME_LEN /\ Len(b) <= MAX_PHONE_NUMBER_LENGTH
  <2>1. /\ c[1] \in Seq(Byte) /\ Len(c[1]) \in 1 .. MAX_CONTACT_NAME_LEN - 1
        /\ c[2] \in Seq(Byte) /\ Len(c[2]) \in 1 .. MAX_PHONE_NUMBER_LENGTH
    <3>1. /\ c[1] \in Seq(0 .. 255) /\ Len(c[1]) \in 1 .. MAX_CONTACT_NAME_LEN - 1
          /\ c[2] \in Seq(0 .. 255) /\ Len(c[2]) \in 1 .. MAX_PHONE_NUMBER_LENGTH
      BY Zenon, ContactAssumption
    <3> QED
      BY Zenon, <3>1 DEF Byte
  <2>2. PICK a \in Seq(Byte), b \in Seq(Byte) : a = c[1] /\ b = c[2]
    BY <2>1
  <2>3. Len(a) \in 1 .. 127 /\ Len(b) \in 1 .. 20
    BY <2>1, <2>2 DEF MAX_CONTACT_NAME_LEN, MAX_PHONE_NUMBER_LENGTH
  <2>4. PICK i \in 1 .. 127, j \in 1 .. 20 : i = Len(a) /\ j = Len(b)
    BY <2>3
  <2>5. i <= MAX_CONTACT_NAME_LEN /\ j <= MAX_PHONE_NUMBER_LENGTH
    BY DEF MAX_CONTACT_NAME_LEN, MAX_PHONE_NUMBER_LENGTH
  <2> QED
    BY <2>2, <2>4, <2>5
<1>2. PICK n \in Nat, m \in Nat : n = Len(a) /\ m = Len(b)
  BY LenProperties
<1>3. n \in Byte /\ m \in Byte
  <2>1. n < 256 /\ m < 256
    BY <1>1, <1>2 DEF MAX_CONTACT_NAME_LEN, MAX_PHONE_NUMBER_LENGTH
  <2> QED
    BY <2>1, ByteIs
<1>4. PICK h \in Seq(Byte) : h = <<n, m>> /\ Len(h) = 2 /\ h[1] = n /\ h[2] = m
  <2>1. <<n, m>> \in Seq(Byte) /\ Len(<<n, m>>) = 2 /\ <<n, m>>[1] = n /\ <<n, m>>[2] = m
    BY <1>3
  <2> QED
    BY <2>1
<1>5. PICK s : s = h \o a
  OBVIOUS
<1>6. /\ s \in Seq(Byte) /\ Len(s) = 2 + n
      /\ (\A i \in 1 .. 2 : s[i] = h[i]) /\ (\A i \in 1 .. n : s[2 + i] = a[i])
  BY <1>2, <1>4, <1>5, ConcatAt
<1>7. PICK e : e = s \o b
  OBVIOUS
<1>8. /\ e \in Seq(Byte) /\ Len(e) = 2 + n + m
      /\ (\A i \in 1 .. 2 + n : e[i] = s[i]) /\ (\A i \in 1 .. m : e[2 + n + i] = b[i])
  <2>1. s \in Seq(Byte) /\ Len(s) = 2 + n /\ Len(b) = m
    BY <1>2, <1>6
  <2>2. s \in Seq(Byte)
    BY <1>6
  <2>3. /\ e \in Seq(Byte) /\ Len(e) = Len(s) + Len(b)
        /\ (\A i \in 1 .. Len(s) : e[i] = s[i]) /\ (\A i \in 1 .. Len(b) : e[Len(s) + i] = b[i])
    BY <1>7, <2>2, ConcatAt
  <2> QED
    BY <2>1, <2>3
<1>9. PICK t : t = a \o b
  OBVIOUS
<1>10. /\ t \in Seq(Byte) /\ Len(t) = n + m
       /\ (\A i \in 1 .. n : t[i] = a[i]) /\ (\A i \in 1 .. m : t[n + i] = b[i])
  BY <1>2, <1>9, ConcatAt
<1>11. e = Entry(c) /\ t = c[1] \o c[2]
  BY <1>1, <1>2, <1>4, <1>5, <1>7, <1>9 DEF Entry
<1>12. e[1] = n /\ e[2] = m
  <2>1. 1 \in 1 .. 2 + n /\ 2 \in 1 .. 2 + n
    OBVIOUS
  <2> QED
    BY <1>4, <1>6, <1>8, <2>1
<1>13. ASSUME NEW i \in 1 .. n + m PROVE e[i + 2] = t[i]
  <2>1. CASE i <= n
    <3>1. i \in 1 .. n /\ 2 + i \in 1 .. 2 + n /\ i + 2 = 2 + i
      BY <2>1
    <3>2. e[2 + i] = s[2 + i] /\ s[2 + i] = a[i] /\ t[i] = a[i]
      BY <1>6, <1>8, <1>10, <3>1
    <3> QED
      BY <3>1, <3>2
  <2>2. CASE ~(i <= n)
    <3>1. PICK k \in 1 .. m : i = n + k
      BY <2>2
    <3>2. e[2 + n + k] = b[k] /\ t[n + k] = b[k] /\ i + 2 = 2 + n + k
      BY <1>8, <1>10, <3>1
    <3> QED
      BY <3>1, <3>2
  <2> QED
    BY <2>1, <2>2
<1>14. n <= MAX_CONTACT_NAME_LEN /\ m <= MAX_PHONE_NUMBER_LENGTH
  BY <1>1, <1>2
<1>15. Len(t) = n + m /\ Len(e) = n + m + 2
  BY <1>8, <1>10
<1>16. EntryOf(c, e, t, n, m)
  BY <1>8, <1>10, <1>11, <1>12, <1>13, <1>14, <1>15 DEF EntryOf
<1> QED
  BY <1>16

LEMMA CutPrintable ==
    ASSUME NEW p \in Seq(Byte), NEW t \in Seq(Byte), NEW o \in Nat, NEW k \in Nat, k = Len(t),
           o + 2 + k <= Len(p), \A i \in 1 .. k : p[o + 2 + i] = t[i], is_printable(t)
    PROVE  is_printable(SubSeq(p, o + 3, o + 2 + k))
<1>1. \A i \in 1 .. k : t[i] \in 32 .. 126
  <2>1. DOMAIN t = 1 .. k
    BY LenProperties
  <2> QED
    BY ZenonT(60), <2>1 DEF is_printable, Range
<1>2. PICK lo \in Int, hi \in Int : lo = o + 3 /\ hi = o + 2 + k
  OBVIOUS
<1>3. \A j \in lo .. hi : p[j] \in 32 .. 126
  <2> SUFFICES ASSUME NEW j \in lo .. hi PROVE p[j] \in 32 .. 126
    OBVIOUS
  <2>1. PICK i \in 1 .. k : j = o + 2 + i
    BY <1>2
  <2> QED
    BY <1>1, <2>1
<1>4. SubSeq(p, lo, hi) \in Seq(32 .. 126)
  BY <1>3, SubSeqProperties
<1>5. Range(SubSeq(p, lo, hi)) \subseteq 32 .. 126
  BY <1>4, RangeOfSeq
<1> QED
  BY <1>2, <1>5 DEF is_printable

Showable(c) == is_printable(c[1] \o c[2])

\* A payload p is a, an entry and u; up to the end of the entry, it is b.
Between(a, entry, u, b, p) == b = a \o entry /\ p = b \o u

\* A walk passes a contact that it can show.
LEMMA ContactPasses ==
    ASSUME NEW c \in Contact, Showable(c), NEW entry, entry = Entry(c),
           NEW a \in Seq(Byte), NEW u \in Seq(Byte), NEW b, NEW p, Between(a, entry, u, b, p)
    PROVE  /\ p \in Seq(Byte) /\ b \in Seq(Byte) /\ Len(b) \in Nat /\ Len(b) <= Len(a) + 150
           /\ Len(a) + 2 <= Len(p) /\ Len(a) \in Nat
           /\ ContactAt(p, Len(a)) /\ NextAt(p, Len(a)) = Len(b)
<1>1. PICK e, t, n, m : EntryOf(c, e, t, n, m)
  BY EntryIs
<1>2. /\ e \in Seq(Byte) /\ t \in Seq(Byte) /\ n \in Nat /\ m \in Nat
      /\ e = Entry(c) /\ t = c[1] \o c[2] /\ Len(t) = n + m /\ Len(e) = n + m + 2
  BY <1>1 DEF EntryOf
<1>3. n <= MAX_CONTACT_NAME_LEN /\ m <= MAX_PHONE_NUMBER_LENGTH
      /\ e[1] = n /\ e[2] = m /\ \A i \in 1 .. n + m : e[i + 2] = t[i]
  BY <1>1 DEF EntryOf
<1>4. e \in Seq(Byte) /\ b = a \o e
  BY <1>2 DEF Between
<1>5. /\ b \in Seq(Byte) /\ Len(b) = Len(a) + Len(e) /\ Len(a) \in Nat
      /\ \A i \in 1 .. Len(e) : b[Len(a) + i] = e[i]
  BY <1>4, ConcatAt
<1>6. b \in Seq(Byte)
  BY <1>5
<1>7. /\ p \in Seq(Byte) /\ Len(p) = Len(b) + Len(u) /\ Len(u) \in Nat /\ Len(b) \in Nat
      /\ \A i \in 1 .. Len(b) : p[i] = b[i]
  <2>1. p = b \o u
    BY DEF Between
  <2> QED
    BY <1>6, <2>1, ConcatAt
<1>8. PICK o \in Nat : o = Len(a)
  BY <1>5
<1>9. Len(b) = o + n + m + 2 /\ o + n + m + 2 <= Len(p) /\ Len(p) \in Nat
  BY <1>2, <1>5, <1>7, <1>8
<1>10. ASSUME NEW i \in 1 .. n + m + 2 PROVE p[o + i] = e[i]
  <2>1. o + i \in 1 .. Len(b) /\ i \in 1 .. Len(e)
    BY <1>2, <1>9
  <2> QED
    BY <1>5, <1>7, <1>8, <2>1
<1>11. p[o + 1] = n /\ p[o + 2] = m
  <2>1. 1 \in 1 .. n + m + 2 /\ 2 \in 1 .. n + m + 2
    BY <1>2
  <2> QED
    BY <1>3, <1>10, <2>1
<1>12. NextAt(p, o) = Len(b)
  BY <1>2, <1>9, <1>11 DEF NextAt
<1>13. is_printable(SubSeq(p, o + 3, NextAt(p, o)))
  <2>1. is_printable(t)
    BY <1>2 DEF Showable
  <2>2. PICK k \in Nat : k = n + m /\ k = Len(t)
    BY <1>2
  <2>3. ASSUME NEW i \in 1 .. k PROVE p[o + 2 + i] = t[i]
    <3>1. PICK j \in 1 .. n + m + 2 : j = i + 2
      BY <1>2, <2>2
    <3>2. p[o + j] = e[j] /\ e[i + 2] = t[i]
      BY <1>3, <1>10, <2>2
    <3>3. o + j = o + 2 + i
      BY <1>2, <3>1
    <3> QED
      BY <3>1, <3>2, <3>3
  <2>4. o + 2 + k <= Len(p) /\ NextAt(p, o) = o + 2 + k
    BY <1>2, <1>9, <1>12, <2>2
  <2>5. t \in Seq(Byte) /\ p \in Seq(Byte)
    BY <1>2, <1>7
  <2>6. is_printable(SubSeq(p, o + 3, o + 2 + k))
    BY <2>1, <2>2, <2>3, <2>4, <2>5, CutPrintable
  <2> QED
    BY <2>4, <2>6
<1>14. ContactAt(p, o)
  BY <1>3, <1>7, <1>9, <1>11, <1>12, <1>13 DEF ContactAt
<1>15. Len(b) <= o + 150
  BY <1>2, <1>3, <1>9 DEF MAX_CONTACT_NAME_LEN, MAX_PHONE_NUMBER_LENGTH
<1>16. o + 2 <= Len(p)
  BY <1>2, <1>9
<1> QED
  BY <1>5, <1>7, <1>8, <1>12, <1>14, <1>15, <1>16

\* What is found, as it is sent: contacts in some order, one after the other.
Listed(f, n) == n \in Nat /\ n # 0 /\ f \in [1 .. n -> Seq(Byte)] /\ \A i \in 1 .. n :
                   \E c \in Contact : f[i] = Entry(c)

Shown(f, n) == \A i \in 1 .. n : \E c \in Contact : f[i] = Entry(c) /\ Showable(c)

LEMMA FoundShort ==
    ASSUME NEW f, NEW n, Listed(f, n), NEW g, Joins(g, f, n)
    PROVE  g[n] \in Seq(Byte) /\ Len(g[n]) <= 150 * n /\ Len(g[n]) \in Nat
<1>1. /\ n \in Nat /\ n # 0 /\ g \in [1 .. n -> Seq(Byte)] /\ g[1] = f[1]
      /\ \A i \in 2 .. n : g[i] = g[i - 1] \o f[i]
  BY DEF Joins, Listed
<1>2. ASSUME NEW i \in 1 .. n PROVE f[i] \in Seq(Byte) /\ Len(f[i]) \in Nat /\ Len(f[i]) <= 150
  <2>1. PICK c \in Contact : f[i] = Entry(c)
    BY DEF Listed
  <2>2. PICK e, t, k, m : EntryOf(c, e, t, k, m)
    BY EntryIs
  <2>3. /\ f[i] = e /\ e \in Seq(Byte) /\ k \in Nat /\ m \in Nat
        /\ k <= MAX_CONTACT_NAME_LEN /\ m <= MAX_PHONE_NUMBER_LENGTH /\ Len(e) = k + m + 2
    BY <2>1, <2>2 DEF EntryOf
  <2> QED
    BY <2>3 DEF MAX_CONTACT_NAME_LEN, MAX_PHONE_NUMBER_LENGTH
<1> DEFINE Good == { i \in Nat : i \in 1 .. n => Len(g[i]) <= 150 * i }
<1>3. 0 \in Good
  OBVIOUS
<1>4. ASSUME NEW i \in Nat, i \in Good PROVE i + 1 \in Good
  <2>1. CASE i = 0
    <3>1. Len(g[1]) <= 150
      BY <1>1, <1>2
    <3> QED
      BY <2>1, <3>1
  <2>2. CASE i # 0 /\ i + 1 \in 1 .. n
    <3>1. PICK k \in 2 .. n : k = i + 1 /\ k - 1 = i
      BY <2>2
    <3>2. PICK a, b, s : a = g[k - 1] /\ b = f[k] /\ s = g[k] /\ s = a \o b
      <4>1. g[k] = g[k - 1] \o f[k]
        BY <1>1
      <4> QED
        BY <4>1
    <3>3. a \in Seq(Byte) /\ b \in Seq(Byte) /\ Len(b) <= 150 /\ Len(a) <= 150 * i
      <4>1. n \in Nat
        BY <1>1
      <4>2. k - 1 \in 1 .. n /\ k \in 1 .. n /\ i \in 1 .. n
        BY <2>2, <3>1, <4>1
      <4> QED
        BY <1>1, <1>2, <1>4, <3>1, <3>2, <4>2
    <3>4. a \in Seq(Byte) /\ b \in Seq(Byte)
      BY <3>3
    <3>5. Len(s) = Len(a) + Len(b) /\ Len(a) \in Nat /\ Len(b) \in Nat
      BY <3>2, <3>4, ConcatAt
    <3>6. Len(s) <= 150 * (i + 1)
      BY <3>3, <3>5
    <3>7. Len(g[i + 1]) <= 150 * (i + 1)
      BY <3>1, <3>2, <3>6
    <3> QED
      BY <3>7
  <2> QED
    BY <2>1, <2>2
<1>5. \A i \in Nat : i \in Good
  <2> HIDE DEF Good
  <2> QED
    BY <1>3, <1>4, Upward
<1>6. n \in 1 .. n
  BY <1>1
<1>7. g[n] \in Seq(Byte) /\ Len(g[n]) <= 150 * n
  BY <1>1, <1>5, <1>6
<1> QED
  BY <1>7, LenProperties

LEMMA ShownReadable ==
    ASSUME NEW f, NEW n, Listed(f, n), Shown(f, n), NEW g, Joins(g, f, n)
    PROVE  Readable(g[n])
<1>1. /\ n \in Nat /\ n # 0 /\ g \in [1 .. n -> Seq(Byte)] /\ g[1] = f[1]
      /\ \A i \in 2 .. n : g[i] = g[i - 1] \o f[i]
      /\ \A i \in 1 .. n : f[i] \in Seq(Byte)
  BY DEF Joins, Listed
<1>2. PICK p \in Seq(Byte) : p = g[n]
  BY <1>1
<1> DEFINE At(i) == IF i = 0 THEN << >> ELSE g[i]
           Passed(i) == ReadableFrom(p)[Len(At(i))] /\ \E u \in Seq(Byte) : At(i) \o u = p
<1>3. \A i \in 0 .. n : At(i) \in Seq(Byte)
  BY <1>1, Statuses
<1>4. ASSUME NEW i \in 1 .. n PROVE At(i) = At(i - 1) \o f[i]
  <2>1. CASE i = 1
    <3>1. f[i] \in Seq(Byte) /\ At(i) = f[i] /\ At(i - 1) = << >>
      BY <1>1, <2>1
    <3>2. << >> \o f[i] = f[i]
      BY <3>1, JoinIs
    <3> QED
      BY <3>1, <3>2
  <2>2. CASE i # 1
    <3>1. i \in 2 .. n /\ i # 0 /\ i - 1 # 0
      BY <2>2
    <3> QED
      BY <1>1, <3>1
  <2> QED
    BY <2>1, <2>2
<1>5. Passed(n)
  <2>1. At(n) = p /\ Len(p) \in Nat /\ Len(p) + 2 > Len(p)
    BY <1>1, <1>2, LenProperties
  <2>2. ReadableFrom(p)[Len(p)]
    BY <2>1, ReadableFromIs
  <2>3. p \o << >> = p /\ << >> \in Seq(Byte)
    BY JoinIs, Statuses
  <2> QED
    BY <2>1, <2>2, <2>3
<1>6. ASSUME NEW i \in 1 .. n, Passed(i) PROVE Passed(i - 1)
  <2>1. PICK a \in Seq(Byte) : a = At(i - 1)
    <3>1. i - 1 \in 0 .. n
      BY <1>1
    <3> QED
      BY <1>3, <3>1
  <2>2. PICK b \in Seq(Byte) : b = At(i)
    BY <1>1, <1>3
  <2>3. PICK u \in Seq(Byte) : p = b \o u
    BY <1>6, <2>2
  <2>4. PICK c \in Contact : f[i] = Entry(c) /\ Showable(c)
    BY DEF Shown
  <2>5. PICK e \in Seq(Byte) : e = f[i]
    BY <1>1
  <2>6. b = a \o e
    BY <1>4, <2>1, <2>2, <2>5
  <2> HIDE DEF At
  <2>7. e = Entry(c) /\ Showable(c)
    BY <2>4, <2>5
  <2>8. ContactAt(p, Len(a)) /\ NextAt(p, Len(a)) = Len(b) /\ Len(a) \in Nat
    <3>1. Between(a, e, u, b, p)
      BY <2>3, <2>6 DEF Between
    <3> QED
      BY <2>7, <3>1, ContactPasses
  <2>9. ReadableFrom(p)[Len(a)]
    BY <1>6, <2>2, <2>8, ReadableFromIs
  <2>10. a \o (e \o u) = p /\ e \o u \in Seq(Byte)
    <3>1. (a \o e) \o u = a \o (e \o u)
      <4>1. a \in Seq(Byte) /\ e \in Seq(Byte) /\ u \in Seq(Byte)
        OBVIOUS
      <4> QED
        BY <4>1
    <3>2. e \o u \in Seq(Byte)
      BY JoinIs
    <3> QED
      BY <2>3, <2>6, <3>1, <3>2
  <2> QED
    BY <2>1, <2>9, <2>10
<1> DEFINE Good == { i \in Nat : i <= n => Passed(n - i) }
<1>7. 0 \in Good
  <2> HIDE DEF Passed
  <2>1. n - 0 = n
    BY <1>1
  <2> QED
    BY <1>5, <2>1
<1>8. ASSUME NEW i \in Nat, i \in Good PROVE i + 1 \in Good
  <2> HIDE DEF Passed
  <2> SUFFICES ASSUME i + 1 <= n PROVE Passed(n - (i + 1))
    BY <1>8
  <2>1. PICK k \in 1 .. n : k = n - i /\ k - 1 = n - (i + 1)
    BY <1>1
  <2>2. Passed(k)
    <3>1. n \in Nat /\ i <= n
      BY <1>1
    <3> QED
      BY <1>8, <2>1, <3>1
  <2>3. Passed(k - 1)
    BY <1>6, <2>2
  <2> QED
    BY <2>1, <2>3
<1>9. \A i \in Nat : i \in Good
  <2> HIDE DEF Good
  <2> QED
    BY <1>7, <1>8, Upward
<1>10. Passed(0)
  <2> HIDE DEF Passed
  <2>1. n \in Good /\ n - n = 0
    BY <1>1, <1>9
  <2> QED
    BY <1>1, <2>1
<1>11. ReadableFrom(p)[0]
  <2>1. Len(At(0)) = 0
    BY EmptySeq
  <2> QED
    BY <1>10, <2>1
<1> QED
  BY <1>2, <1>11, ReadableIs

LEMMA SearchAnswer ==
    ASSUME NEW n \in Nat, n <= 127, NEW list \in [1 .. n -> Contact],
           NEW content, content = FlattenSeq([i \in DOMAIN list |-> Entry(list[i])])
    PROVE  /\ content \in Seq(Byte) /\ Len(content) < 65536
           /\ Readable(content) \/ \E c \in Range(list) : ~Showable(c)
<1>1. PICK f : f = [i \in DOMAIN list |-> Entry(list[i])]
  OBVIOUS
<1>2. content = FlattenSeq(f) /\ DOMAIN list = 1 .. n
  BY <1>1
<1>3. f = [i \in 1 .. n |-> Entry(list[i])]
  BY <1>1
<1>4. \A i \in 1 .. n : list[i] \in Contact /\ list[i] \in Range(list) /\ f[i] = Entry(list[i])
  BY <1>2, <1>3 DEF Range
<1>5. CASE n = 0
  <2>1. f = << >> /\ Len(f) = 0
    BY <1>3, <1>5
  <2>2. content = << >>
    BY <1>2, <2>1 DEF FlattenSeq
  <2>3. << >> \in Seq(Byte) /\ Len(<< >>) = 0
    BY Statuses, EmptySeq
  <2>4. Readable(<< >>)
    <3>1. 0 + 2 > Len(<< >>)
      BY <2>3
    <3>2. ReadableFrom(<< >>)[0]
      BY <2>3, <3>1, ReadableFromIs
    <3> QED
      BY <3>2, ReadableIs
  <2> QED
    BY <2>2, <2>3, <2>4
<1>6. CASE n # 0
  <2>1. ASSUME NEW i \in 1 .. n PROVE f[i] \in Seq(Byte)
    <3>1. PICK e, t, k, m : EntryOf(list[i], e, t, k, m)
      BY <1>4, EntryIs
    <3> QED
      BY <1>4, <3>1 DEF EntryOf
  <2>2. f \in [1 .. n -> Seq(Byte)]
    BY <1>3, <2>1
  <2>3. Listed(f, n)
    BY <1>4, <1>6, <2>2 DEF Listed
  <2>4. PICK g : Joins(g, f, n) /\ content = g[n]
    BY <1>2, <1>6, <2>2, FlattenJoins
  <2>5. content \in Seq(Byte) /\ Len(content) <= 150 * n /\ Len(content) \in Nat
    BY <2>3, <2>4, FoundShort
  <2>6. Len(content) < 65536
    BY <2>5
  <2>7. ASSUME \A c \in Range(list) : Showable(c) PROVE Readable(content)
    <3>1. Shown(f, n)
      BY <1>4, <2>7 DEF Shown
    <3> QED
      BY <2>3, <2>4, <3>1, ShownReadable
  <2> QED
    BY <2>5, <2>6, <2>7
<1> QED
  BY <1>5, <1>6

\* The limit of a search is a byte of its payload.
LEMMA LimitIs ==
    ASSUME NEW r \in Request, r.op = SEARCH, r.payload # << >>
    PROVE  r.payload[1] \in 1 .. 127
  BY RequestAssumption

LEMMA SearchStep ==
    ASSUME Inv, HandleSearch
    PROVE  Inv'
<1> USE Statuses
<1>1. PayloadRead(SEARCH) /\ UNCHANGED session
  BY DEF HandleSearch
<1>2. /\ Asked \in Request /\ Asked.op = SEARCH /\ (~Short => server.got = Asked.payload)
  BY <1>1, PayloadReadIs
<1>3. SEARCH # LOGIN /\ SEARCH # REGISTER
  BY DEF SEARCH, LOGIN, REGISTER
<1>4. CASE (Short \/ server.got = << >>) /\ Serves(MALFORMED_REQUEST, << >>, Start)
           /\ UNCHANGED found
  <2>1. WellFormed(Asked) => Short
    BY <1>2, <1>4, WellFormedIs
  <2>2. MALFORMED_REQUEST \notin {ALL_RETURNED, FEWER_RETURNED}
    BY DEF MALFORMED_REQUEST, ALL_RETURNED, FEWER_RETURNED
  <2> QED
    BY <1>1, <1>3, <1>4, <2>1, <2>2, HandlerOnlyAnswers
<1>5. CASE Serves(SERVER_ERROR, << >>, Closed) /\ UNCHANGED found
  <2>1. SERVER_ERROR \notin {ALL_RETURNED, FEWER_RETURNED} /\ SERVER_ERROR # MALFORMED_REQUEST
    BY DEF SERVER_ERROR, MALFORMED_REQUEST, ALL_RETURNED, FEWER_RETURNED
  <2> QED
    BY <1>1, <1>3, <1>5, <2>1, HandlerOnlyAnswers
<1>6. ASSUME ~Short, server.got # << >>,
             NEW n \in 0 .. server.got[1], found' \in [1 .. n -> Contact],
             NEW status \in {ALL_RETURNED, FEWER_RETURNED},
             Serves(status, FlattenSeq([i \in DOMAIN found' |-> Entry(found'[i])]), Start)
      PROVE  Inv'
  <2>1. session \in Byte
    BY DEF Inv, Typed
  <2>2. PICK limit \in 1 .. 127 : limit = server.got[1]
    BY <1>2, <1>6, LimitIs
  <2>3. n \in Nat /\ n <= 127
    BY <2>2
  <2>4. PICK list \in [1 .. n -> Contact] : list = found'
    BY <1>6
  <2>5. PICK content : content = FlattenSeq([i \in DOMAIN list |-> Entry(list[i])])
    OBVIOUS
  <2>6. /\ content \in Seq(Byte) /\ Len(content) < 65536
        /\ Readable(content) \/ \E c \in Range(list) : ~Showable(c)
    BY <2>3, <2>5, SearchAnswer
  <2>7. Readable(content) \/ \E c \in Range(found') : ~is_printable(c[1] \o c[2])
    BY <2>4, <2>6 DEF Showable
  <2>8. Suits(SEARCH, status, content)'
    BY <1>3, <2>6, <2>7 DEF Suits
  <2>9. status \in Byte /\ status # MALFORMED_REQUEST
    BY DEF ALL_RETURNED, FEWER_RETURNED, MALFORMED_REQUEST
  <2>10. Serves(status, content, Start)
    BY <1>6, <2>4, <2>5
  <2> QED
    BY <1>1, <2>1, <2>6, <2>8, <2>9, <2>10, HandlerAnswers
<1> QED
  BY <1>1, <1>4, <1>5, <1>6 DEF HandleSearch

-----------------------------------------------------------------------------
(***************************************************************************)
(* The theorems.                                                           *)
(***************************************************************************)

\* What a server that is full sends.
LEMMA RefusalIs == Packet(SERVER_ERROR, << >>) \in Seq(Byte)
<1>1. PICK kind \in Byte : kind = SERVER_ERROR
  BY Statuses
<1>2. PICK none \in Seq(Byte) : none = << >>
  BY Statuses
<1>3. Len(none) < 65536
  BY <1>2, EmptySeq
<1>4. IsPacket(Packet(kind, none), kind, none)
  BY <1>3, PacketIs
<1>5. Packet(kind, none) \in Seq(Byte)
  BY <1>4 DEF IsPacket
<1> QED
  BY <1>1, <1>2, <1>5

LEMMA InitInv ==
    ASSUME Init
    PROVE  Inv
<1> USE Statuses
<1>1. /\ toServer = << >> /\ reset = FALSE /\ split = FALSE
      /\ session = ANONYMOUS /\ auth_level = ANONYMOUS
      /\ sent = << >> /\ served = << >> /\ results = << >>
      /\ client = [at |-> "idle", need |-> 0, got |-> << >>, status |-> 0]
  BY DEF Init
<1>2. /\ Len(sent) = 0 /\ Len(served) = 0 /\ Len(results) = 0
      /\ DOMAIN served = {} /\ DOMAIN results = {}
  <2>1. Len(<< >>) = 0 /\ DOMAIN << >> = {}
    BY EmptySeq
  <2> QED
    BY <1>1, <2>1
<1>3. PICK p \in Seq(Byte) : p = Packet(SERVER_ERROR, << >>)
  BY RefusalIs
<1>4. 0 \in Byte /\ 0 \in Count /\ 1 \in Count /\ ANONYMOUS \in Byte
  <2>1. 0 \in Byte
    BY SMTT(40), ByteIs
  <2>2. 0 \in Count
    BY CountIs
  <2>3. 1 \in Count
    BY CountIs
  <2> QED
    BY <2>1, <2>2, <2>3 DEF ANONYMOUS
<1>5. NoAnswer \in AnswerType
  BY <1>4 DEF NoAnswer, AnswerType, Then
<1>6. client \in CallerType /\ ~ClientGone /\ ~Waits
  BY <1>1, <1>4 DEF CallerType, ClientAt, ClientGone, Waits
<1>7. \/ /\ server = [at |-> "start", need |-> 1, got |-> << >>, op |-> NoOpcode, answer |-> NoAnswer]
         /\ toClient = << >>
      \/ /\ server = [at |-> "closed", need |-> 0, got |-> << >>, op |-> NoOpcode, answer |-> NoAnswer]
         /\ toClient = Packet(SERVER_ERROR, << >>)
  BY DEF Init, Fresh, Start, Closed
<1>8. server \in ThreadType /\ server.at \in {"start", "closed"} /\ server.got = << >>
      /\ toClient \in Seq(Byte)
  <2>1. server.at \in ServerAt /\ server.need \in Count /\ server.op \in Int
        /\ server.got \in Seq(Byte) /\ server.answer \in AnswerType
        /\ server.at \in {"start", "closed"} /\ server.got = << >>
    <3>1. << >> \in Seq(Byte) /\ NoOpcode \in Int
      BY DEF NoOpcode
    <3>2. CASE server = [at |-> "start", need |-> 1, got |-> << >>, op |-> NoOpcode, answer |-> NoAnswer]
      BY <1>4, <1>5, <3>1, <3>2 DEF ServerAt
    <3>3. CASE server = [at |-> "closed", need |-> 0, got |-> << >>, op |-> NoOpcode, answer |-> NoAnswer]
      BY <1>4, <1>5, <3>1, <3>3 DEF ServerAt
    <3> QED
      BY <1>7, <3>2, <3>3
  <2>2. server = [at |-> server.at, need |-> server.need, got |-> server.got, op |-> server.op,
                  answer |-> server.answer]
    BY <1>7
  <2>3. server \in ThreadType
    BY <2>1, <2>2 DEF ThreadType
  <2>4. toClient \in Seq(Byte)
    BY <1>3, <1>7
  <2> QED
    BY <2>1, <2>3, <2>4
<1>9. Typed
  <2>1. << >> \in Seq(Request) /\ << >> \in Seq(ServedType)
    BY EmptySeq
  <2> QED
    BY <1>1, <1>4, <1>6, <1>8, <2>1 DEF Typed
<1>10. Counted
  BY <1>1, <1>2, <1>6, <1>8 DEF Counted
<1>11. Requested
  <2>1. Unserved = << >>
    <3>1. Len(sent) \in Nat /\ Len(served) \in Nat /\ Len(sent) = Len(served)
      BY <1>2
    <3> QED
      BY <3>1, UnservedIs DEF Unserved
  <2> QED
    BY <1>1, <1>6, <1>7, <2>1 DEF Requested, Arrives, Reaches
<1>12. Answered
  BY <1>1, <1>2, <1>6, <1>7 DEF Answered, Refused
<1>13. ServedWell /\ SplitOnly /\ LeftAlone /\ Returned /\ LevelKnown
  BY <1>1, <1>2, <1>6 DEF ServedWell, SplitOnly, LeftAlone, Returned, LevelKnown
<1> QED
  BY <1>9, <1>10, <1>11, <1>12, <1>13 DEF Inv

LEMMA NextInv ==
    ASSUME Inv, [Next]_vars
    PROVE  Inv'
<1>1. CASE Thread
  <2>1. CASE Handle
    BY <2>1, LoginStep, RegisterStep, InsertStep, DeleteStep, SearchStep DEF Handle
  <2>2. CASE RecvStart \/ RecvHeader \/ RecvPayload \/ Reply \/ Discard \/ ClientLost
    BY <2>2, ThreadStep
  <2> QED
    BY <1>1, <2>1, <2>2 DEF Thread
<1>2. CASE Client
  BY <1>2, ClientStep
<1>3. CASE ProcessEnds
  BY <1>3, ThreadStep
<1>4. CASE Leave
  BY <1>4, LeaveStep
<1>5. ASSUME NEW r \in Request, Call(r) PROVE Inv'
  BY <1>5, CallStep
<1>6. CASE UNCHANGED vars
  <2>1. UNCHANGED <<toServer, toClient, reset, server, session, client, auth_level, found,
                    sent, served, results, split>>
    BY <1>6 DEF vars
  <2>2. Typed' /\ Counted'
    BY <2>1 DEF Inv, Typed, Counted, Waits
  <2>3. Requested'
    BY <2>1 DEF Inv, Requested, Arrives, Reaches, ClientGone, Unserved, Asked
  <2>4. Answered'
    BY SMTT(40), <2>1 DEF Inv, Answered, Waits, Refused, Forgotten, Unanswered, OnItsWay, Suits, Left
  <2>5. ServedWell' /\ SplitOnly' /\ LeftAlone'
    BY <2>1 DEF Inv, ServedWell, SplitOnly, LeftAlone, Ending, ClientGone
  <2>6. Returned'
    BY <2>1 DEF Inv, Returned, ClientGone
  <2>7. LevelKnown'
    BY <2>1 DEF Inv, LevelKnown, LoggedIn, Done, ClientGone, Waits
  <2> QED
    BY <2>2, <2>3, <2>4, <2>5, <2>6, <2>7 DEF Inv
<1> QED
  BY <1>1, <1>2, <1>3, <1>4, <1>5, <1>6 DEF Next

LEMMA Invariance == Spec => []Inv
<1>1. Init => Inv
  BY InitInv
<1>2. Inv /\ [Next]_vars => Inv'
  BY NextInv
<1> QED
  BY <1>1, <1>2, PTL DEF Spec

\* Between its recvs, the client asks for something.
Asking == Waits => client.need > 0

LEMMA AskingStep ==
    ASSUME Inv, Asking, [Next]_vars
    PROVE  Asking'
<1>1. CASE UNCHANGED client
  BY <1>1 DEF Asking, Waits
<1>2. CASE ServerGone \/ ServerReset \/ Leave
  <2>1. client'.at \in {"gone", "idle"}
    <3>1. client \in CallerType
      BY DEF Inv, Typed
    <3> QED
      BY <1>2, <3>1 DEF ServerGone, ServerReset, Leave, Returns, Reads, CallerType
  <2> QED
    BY <2>1 DEF Asking, Waits
<1>3. ASSUME NEW r \in Request, Call(r) PROVE Asking'
  <2>1. client \in CallerType
    BY DEF Inv, Typed
  <2>2. client'.at = "gone" \/ client'.need = 1
    BY <1>3, <2>1 DEF Call, Reads, CallerType
  <2> QED
    BY <2>2 DEF Asking, Waits
<1>4. CASE ClientRecv
  <2>1. PICK n \in Pieces(toClient, client.need) :
            IF n < client.need THEN ReadsPiece(n) ELSE ReadWhole(client.got \o SubSeq(toClient, 1, n))
    BY <1>4 DEF ClientRecv, ReadsPiece
  <2>2. client \in CallerType /\ client.need \in Nat /\ n \in Nat /\ n <= client.need
    BY <1>4, ClientPieces DEF ClientRecv
  <2>3. CASE n < client.need
    <3>1. ReadsPiece(n)
      BY <2>1, <2>3
    <3>2. client'.need = client.need - n
      <4>1. PICK left, bytes : /\ left = client.need - n
                               /\ client' = [client EXCEPT !.need = left, !.got = bytes]
        BY <3>1 DEF ReadsPiece
      <4>2. client = [at |-> client.at, need |-> client.need, got |-> client.got,
                      status |-> client.status]
        BY <2>2 DEF CallerType
      <4> QED
        BY <4>1, <4>2
    <3> QED
      BY <2>2, <2>3, <3>2 DEF Asking
  <2>4. CASE ~(n < client.need)
    <3>1. PICK bytes : ReadWhole(bytes)
      BY <2>1, <2>4
    <3>2. client.at \in {"start", "header", "level", "payload"}
      BY <1>4 DEF ClientRecv, Waits
    <3>3. \A status : Returns(status) => client'.at \in {"gone", "idle"}
      BY <2>2 DEF Returns, CallerType
    <3>4. Reads("header", 3) => client'.need = 3
      BY SMTT(60), <2>2 DEF Reads, CallerType
    <3>5. CASE client.at = "header"
      <4>1. HeaderRead(bytes)
        BY <3>1, <3>5 DEF ReadWhole
      <4>2. CASE client' = [client EXCEPT !.at = "level", !.got = << >>, !.status = bytes[1], !.need = 1]
        BY <2>2, <4>2 DEF CallerType, Asking
      <4>3. CASE /\ SizeIn(bytes) > 0
                 /\ client' = [client EXCEPT !.at = "payload", !.got = << >>, !.status = bytes[1],
                                             !.need = SizeIn(bytes)]
        <5>1. client'.need = SizeIn(bytes)
          BY <2>2, <4>3 DEF CallerType
        <5> QED
          BY <4>3, <5>1 DEF Asking
      <4>4. CASE Returns(bytes[1])
        BY <3>3, <4>4 DEF Asking, Waits
      <4> QED
        BY <4>1, <4>2, <4>3, <4>4, HeaderReadIs
    <3>6. CASE client.at = "start"
      <4>1. Reads("header", 3) \/ Returns(SERVER_ERROR)
        BY <3>1, <3>6 DEF ReadWhole
      <4> QED
        BY <3>3, <3>4, <4>1 DEF Asking, Waits
    <3>7. CASE client.at \in {"level", "payload"}
      <4>1. \E status : Returns(status)
        BY <3>1, <3>7 DEF ReadWhole
      <4> QED
        BY <3>3, <4>1 DEF Asking, Waits
    <3> QED
      BY <3>2, <3>5, <3>6, <3>7
  <2> QED
    BY <2>3, <2>4
<1>5. Thread \/ ProcessEnds => UNCHANGED client
  BY DEF Thread, ProcessEnds, RecvStart, RecvHeader, RecvPayload, Handle, Reply, Discard, ClientLost,
     HandleLogin, HandleRegister, HandleInsert, HandleDelete, HandleSearch, Serves, LoginUnanswered, Closes, clientVars
<1>6. UNCHANGED vars => UNCHANGED client
  BY DEF vars
<1> QED
  BY <1>1, <1>2, <1>3, <1>4, <1>5, <1>6 DEF Next, Client

LEMMA AskingAlways == Spec => []Asking
<1>1. Init => Asking
  BY DEF Init, Asking, Waits
<1>2. Inv /\ Asking /\ [Next]_vars => Asking'
  BY AskingStep
<1> QED
  BY <1>1, <1>2, Invariance, PTL DEF Spec

LEMMA InvTypeOK ==
    ASSUME Inv, Asking
    PROVE  TypeOK
<1>1. /\ server.at \in ServerAt /\ client.at \in ClientAt
      /\ server.need \in Nat /\ server.need < 65536 /\ client.need \in Nat /\ client.need < 65536
  BY CountIs DEF Inv, Typed, ThreadType, CallerType
<1>2. server.at \in {"start", "header", "discard"} => server.need > 0
  BY <1>1 DEF Inv, Requested
<1>3. toServer \in Seq(0 .. 255) /\ toClient \in Seq(0 .. 255)
  BY DEF Inv, Typed, Byte
<1>4. Len(results) = Len(sent) - (IF Waits THEN 1 ELSE 0)
  BY DEF Inv, Counted
<1>5. Waits => client.need > 0
  BY DEF Asking
<1> QED
  BY <1>1, <1>2, <1>3, <1>4, <1>5 DEF TypeOK

\* Neither side asks a recv for a negative number of bytes, for nothing or for more
\* than 65535, whatever the requests and however their bytes are cut: recv_exact and
\* discard_bytes end with what they were called for, and a call has one result.
THEOREM TypeCorrect == Spec => []TypeOK
  BY Invariance, AskingAlways, InvTypeOK, PTL

LEMMA InvFramed ==
    ASSUME Inv
    PROVE  Framed
<1>1. server.at = "start" =>
          IF ClientGone THEN IsPrefix(toServer, Unserved) ELSE toServer = Unserved
  BY DEF Inv, Requested, Arrives, Reaches
<1> QED
  BY <1>1 DEF Inv, Counted, ServedWell, Framed

\* connection_handler looks for the starting sequence only where a request begins,
\* after any requests, refused, discarded or served, and it serves each with its own
\* opcode and payload, once, in the order in which they were sent.
THEOREM FramedAlways == Spec => []Framed
  BY Invariance, InvFramed, PTL

LEMMA InvAnswersMatch ==
    ASSUME Inv
    PROVE  AnswersMatch
<1>1. \A k \in DOMAIN results :
          \/ k \in DOMAIN served /\ results[k] = served[k].status
          \/ results[k] = Exited
          \/ /\ results[k] = SERVER_ERROR
             /\ \/ server.at = "closed"
                \/ sent[k].op = SEARCH /\ \E c \in Range(found) : ~is_printable(c[1] \o c[2])
  BY DEF Inv, Returned
<1>2. ASSUME NEW k \in DOMAIN served, served[k].status = OK
      PROVE  k = Len(sent) \/ results[k] = OK
  <2>1. /\ Len(sent) \in Nat /\ Len(served) \in Nat /\ DOMAIN served = 1 .. Len(served)
        /\ Len(served) <= Len(sent)
    BY Lengths DEF Inv, Counted
  <2>2. k = Len(sent) \/ k < Len(sent)
    BY <2>1
  <2>3. k < Len(sent) => results[k] = served[k].status
    BY DEF Inv, ServedWell
  <2> QED
    BY SMTT(60), <1>2, <2>2, <2>3
<1> QED
  BY <1>1, <1>2 DEF AnswersMatch

\* A function of requests.c returns the status that the server gave to its own
\* request, and an error of its own only when the server has closed or has sent, of
\* the contacts that any connection may have stored and of any number of copies of
\* each, one that search_contact cannot show; what the server has carried out, the
\* client knows, but for the last request.  The limit of a SEARCH is 1 to 127.
THEOREM AnswersMatchAlways == Spec => []AnswersMatch
  BY Invariance, InvAnswersMatch, PTL

LEMMA InvMalformed ==
    ASSUME Inv
    PROVE  MalformedOnlyIfSplit
<1> SUFFICES ASSUME NEW k \in DOMAIN results,
                    results[k] = MALFORMED_REQUEST, WellFormed(sent[k])
             PROVE  split /\ k = Len(served) /\ server.at \notin {"start", "header", "payload"}
  BY DEF MalformedOnlyIfSplit
<1>1. MALFORMED_REQUEST # Exited /\ MALFORMED_REQUEST # SERVER_ERROR
  BY DEF MALFORMED_REQUEST, Exited, SERVER_ERROR
<1>2. k \in DOMAIN served /\ results[k] = served[k].status
  BY <1>1 DEF Inv, Returned
<1>3. split /\ k = Len(served) /\ Ending
  BY <1>1, <1>2 DEF Inv, SplitOnly
<1> QED
  BY <1>3 DEF Ending

\* A well-formed request is refused as malformed only by the recv of its header that
\* returned a part of it, and then the connection ends: a payload may come in any
\* pieces.
THEOREM MalformedOnlyIfSplitAlways == Spec => []MalformedOnlyIfSplit
  BY Invariance, InvMalformed, PTL

LEMMA InvLevelsAgree ==
    ASSUME Inv
    PROVE  LevelsAgree
<1> SUFFICES ASSUME client.at = "idle", LoggedIn
             PROVE  auth_level = session
  BY DEF LevelsAgree, LoggedIn
<1>1. ~Waits /\ ~ClientGone
  BY DEF Waits, ClientGone
<1> QED
  BY <1>1 DEF Inv, LevelKnown

\* Between two calls, the auth_level by which the menu of the client is chosen is the
\* one that the thread authorises by, from a login on and until a registration, which
\* sets the thread's back and not the client's.
THEOREM LevelsAgreeAlways == Spec => []LevelsAgree
  BY Invariance, InvLevelsAgree, PTL
=============================================================================
