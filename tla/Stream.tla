-------------------------------- MODULE Stream --------------------------------
(***************************************************************************)
(* One connection as a stream of bytes in each direction, between a client *)
(* that calls the functions of src/client/requests.c and a thread that     *)
(* runs connection_handler of src/server/main.c.                           *)
(*                                                                         *)
(*    0xA5 | opcode or status | payload_size, 2 bytes | payload            *)
(*                                                                         *)
(* TCP keeps the order of the bytes and nothing else: a recv returns any   *)
(* part of what is on its way.  Either side may be gone at any time; what  *)
(* is closed with bytes still unread resets the connection, and the other  *)
(* side may then lose what it had not read yet.                            *)
(*                                                                         *)
(* The databases are here as far as their answers go, which depend on      *)
(* other connections and on earlier runs too: they are left open, up to    *)
(* the contacts that there may be.                                         *)
(***************************************************************************)
EXTENDS Integers, Sequences, SequencesExt, FiniteSets, UserDB

CONSTANTS Request,           \* what the client's user may ask for
          DIGEST_LEN,        \* 32: the length of a SHA-256 digest
          MIN_USERNAME_LEN, MAX_USERNAME_LEN,
          Level,             \* the levels that logins may find
          Contact,           \* what may be stored, by any connection: <<name, phone>>
          MaxCalls           \* bound on the requests of one connection

STARTING_SEQ == 165

LOGIN == 0
REGISTER == 1
INSERT == 2
DELETE == 3
SEARCH == 4

OK == 128
SERVER_ERROR == 129
MALFORMED_REQUEST == 130
NOT_FOUND == 131
UNAUTHORIZED == 132
INVALID_CREDENTIALS == 133
USERNAME_TAKEN == 134
ALL_RETURNED == 135
FEWER_RETURNED == 136

MAX_CONTACT_NAME_LEN == 128
MAX_PHONE_NUMBER_LENGTH == 20

\* A request is its opcode and the bytes of its payload, as many as 16 bits count.
\* The client asks for 12 contacts at a time; a limit of more than 127 would be none,
\* and one of 0 goes beyond a buffer of the server (ContactDB).
ASSUME RequestAssumption ==
    \A r \in Request :
        /\ r.op \in LOGIN .. SEARCH
        /\ r.payload \in Seq(0 .. 255) /\ Len(r.payload) < 65536
        /\ r.op = SEARCH /\ r.payload # << >> => r.payload[1] \in 1 .. 127

ASSUME LengthAssumption ==
    /\ DIGEST_LEN \in Nat \ {0}
    /\ MAX_USERNAME_LEN \in Nat /\ MIN_USERNAME_LEN \in 1 .. MAX_USERNAME_LEN

\* A level is a byte of the user file.
ASSUME LevelAssumption == Level \subseteq 0 .. 255

\* The contacts that an INSERT can have stored; those of Request are among them.
ASSUME ContactAssumption ==
    \A c \in Contact :
        /\ c[1] \in Seq(0 .. 255) /\ Len(c[1]) \in 1 .. MAX_CONTACT_NAME_LEN - 1
        /\ c[2] \in Seq(0 .. 255) /\ Len(c[2]) \in 1 .. MAX_PHONE_NUMBER_LENGTH

Drop(s, n) == SubSeq(s, n + 1, Len(s))

\* The payload_size is sent high byte first, by the client with shifts and by
\* send_packet with htons.
Packet(kind, payload) ==
    <<STARTING_SEQ, kind, Len(payload) \div 256, Len(payload) % 256>> \o payload

VARIABLES toServer, toClient,  \* the bytes on their way
          reset,     \* the server has closed the connection with bytes unread
          server,    \* the thread: where it is, what it still reads, what it has read
          session,   \* user.auth_level of the thread
          client,    \* the client: the same
          auth_level, \* of the client
          found,     \* the contacts in the last answer to a SEARCH
          sent,      \* the requests that were sent
          served,    \* what the server has made of each
          results,   \* what each call has returned to the prompts
          split      \* a recv has returned less than a whole header

vars == <<toServer, toClient, reset, server, session, client, auth_level, found,
          sent, served, results, split>>

clientVars == <<client, auth_level, sent, results>>

\* After an answer: the next request, the payload to discard, or the end.
Start == [at |-> "start", need |-> 1]
Discarding(size) == IF size = 0 THEN Start ELSE [at |-> "discard", need |-> size]
Closed == [at |-> "closed", need |-> 0]

NoOpcode == -1
NotRead == << -1 >>
NotSent == 0  \* a request that is served and has no answer
NoAnswer == [status |-> 0, payload |-> << >>, then |-> Start]

Fresh(then) ==
    [at |-> then.at, need |-> then.need, got |-> << >>, op |-> NoOpcode, answer |-> NoAnswer]

\* The server has accepted the connection, or has refused it: it is full.
Init ==
    /\ \/ server = Fresh(Start) /\ toClient = << >>
       \/ server = Fresh(Closed) /\ toClient = Packet(SERVER_ERROR, << >>)
    /\ toServer = << >> /\ reset = FALSE
    /\ session = ANONYMOUS
    /\ client = [at |-> "idle", need |-> 0, got |-> << >>, status |-> 0]
    /\ auth_level = ANONYMOUS
    /\ found = << >>
    /\ sent = << >> /\ served = << >> /\ results = << >>
    /\ split = FALSE
-----------------------------------------------------------------------------

SizeIn(header) == header[2] * 256 + header[3]

is_printable(bytes) == Range(bytes) \subseteq 32 .. 126

\* How many bytes one recv may return when it asks for some.
Pieces(pipe, asked) == { n \in 1 .. asked : n <= Len(pipe) }

-----------------------------------------------------------------------------
(***************************************************************************)
(* The server.                                                             *)
(***************************************************************************)

ClientGone == client.at = "gone"

\* The thread closes its end.  With bytes unread, those that it has sent and the
\* client has not read may be lost.
Closes(unread, sending) ==
    /\ server' = [server EXCEPT !.at = "closed", !.need = 0, !.got = << >>, !.answer = NoAnswer]
    /\ toServer' = << >>
    /\ reset' = (unread # << >>)
    /\ \/ toClient' = IF ClientGone THEN << >> ELSE toClient \o sending
       \/ unread # << >> /\ toClient' = << >>
    /\ UNCHANGED <<session, found, split, clientVars>>

\* The thread has decided what it answers, and where it goes on then.
Answers(op, payload, status, content, then) ==
    /\ server' = [server EXCEPT !.at = "answer", !.op = op, !.need = 0, !.got = << >>,
                                !.answer = [status |-> status, payload |-> content, then |-> then]]
    /\ served' = Append(served, [op |-> op, payload |-> payload, status |-> status])

\* recv of the starting sequence.
RecvStart ==
    /\ server.at = "start" /\ toServer # << >>
    /\ IF Head(toServer) = STARTING_SEQ
       THEN /\ server' = [server EXCEPT !.at = "header", !.need = 3]
            /\ toServer' = Tail(toServer)
            /\ UNCHANGED <<toClient, reset, session, found, split, clientVars>>
       ELSE Closes(Tail(toServer), << >>)
    /\ UNCHANGED served

\* The client is gone: recv returns 0 once everything is read, or fails before.
ClientLost ==
    /\ ClientGone
    /\ server.at \in {"start", "header", "payload", "discard"} /\ server.need > 0
    /\ Closes(<< >>, << >>)
    /\ UNCHANGED served

BadSize(op, size) ==
    /\ op \in {LOGIN, REGISTER}
    /\ size < DIGEST_LEN + MIN_USERNAME_LEN \/ size - DIGEST_LEN > MAX_USERNAME_LEN

Allowed(op) == IF op = SEARCH THEN {USER, ADMIN} ELSE {ADMIN}

Unauthorized(op) == op \in {INSERT, DELETE, SEARCH} /\ session \notin Allowed(op)

\* Mutant: discard_bytes is called with the size of the payload less the first byte.
DispatchDiscardLess(op, size) ==
    CASE op \notin LOGIN .. SEARCH \/ BadSize(op, size) ->
            Answers(op, NotRead, MALFORMED_REQUEST, << >>, Closed)
      [] Unauthorized(op) ->
            Answers(op, NotRead, UNAUTHORIZED, << >>,
                    Discarding(IF size = 0 THEN 0 ELSE size - 1))
      [] OTHER ->
            /\ server' = [server EXCEPT !.at = "payload", !.op = op, !.need = size]
            /\ UNCHANGED served

\* The header is whole: refused at once, or its payload comes next.  The payload
\* of a request that is not authorised is discarded after the answer.
Dispatch(op, size) ==
    CASE op \notin LOGIN .. SEARCH \/ BadSize(op, size) ->
            Answers(op, NotRead, MALFORMED_REQUEST, << >>, Closed)
      [] Unauthorized(op) ->
            Answers(op, NotRead, UNAUTHORIZED, << >>, Discarding(size))
      [] OTHER ->
            /\ server' = [server EXCEPT !.at = "payload", !.op = op, !.need = size]
            /\ UNCHANGED served

\* recv of the header: once, whatever it returns.
RecvHeader ==
    /\ server.at = "header"
    /\ \E n \in Pieces(toServer, 3) :
          LET header == SubSeq(toServer, 1, n)
          IN  /\ toServer' = Drop(toServer, n)
              /\ split' = (split \/ n < 3)
              /\ IF n < 3
                 THEN Answers(NoOpcode, NotRead, MALFORMED_REQUEST, << >>, Closed)
                 ELSE Dispatch(header[1], SizeIn(header))
    /\ UNCHANGED <<toClient, reset, session, found, clientVars>>

\* Mutant: recv, and not recv_exact, of the payload.
RecvPayloadOnce ==
    /\ server.at = "payload" /\ server.need > 0
    /\ \E n \in Pieces(toServer, server.need) :
          /\ IF n = server.need
             THEN /\ server' = [server EXCEPT !.need = 0, !.got = SubSeq(toServer, 1, n)]
                  /\ UNCHANGED served
             ELSE Answers(server.op, NotRead, MALFORMED_REQUEST, << >>, Closed)
          /\ toServer' = Drop(toServer, n)
    /\ UNCHANGED <<toClient, reset, session, found, split, clientVars>>

\* recv_exact of the payload, one recv at a time.
RecvPayload ==
    /\ server.at = "payload"
    /\ \E n \in Pieces(toServer, server.need) :
          /\ server' = [server EXCEPT !.need = @ - n, !.got = @ \o SubSeq(toServer, 1, n)]
          /\ toServer' = Drop(toServer, n)
    /\ UNCHANGED <<toClient, reset, session, found, served, split, clientVars>>

\* recv_exact returns fewer bytes than asked for at the end of the stream only.
Short == server.need > 0
PayloadRead(op) ==
    /\ server.at = "payload" /\ server.op = op
    /\ ~Short \/ (ClientGone /\ toServer = << >>)

Serves(status, content, then) ==
    /\ Answers(server.op, IF Short THEN NotRead ELSE server.got, status, content, then)
    /\ UNCHANGED <<toServer, toClient, reset, split, clientVars>>

Username == SubSeq(server.got, 1, Len(server.got) - DIGEST_LEN)

\* check_credentials returns -2, for a torn user file: the switch has no case for it.
LoginUnanswered ==
    /\ server' = [server EXCEPT !.at = "start", !.need = 1, !.got = << >>]
    /\ served' = Append(served, [op |-> LOGIN, payload |-> server.got, status |-> NotSent])
    /\ UNCHANGED <<toServer, toClient, reset, split, clientVars>>

\* Mutant: the level is sent to the client and not stored in the session.
HandleLoginForgets ==
    /\ PayloadRead(LOGIN)
    /\ IF Short \/ ~is_printable(Username)
       THEN Serves(MALFORMED_REQUEST, << >>, Closed)
       ELSE \/ Serves(INVALID_CREDENTIALS, << >>, Start)
            \/ Serves(SERVER_ERROR, << >>, Closed)
            \/ LoginUnanswered
            \/ \E level \in Level : Serves(OK, <<level>>, Start)
    /\ UNCHANGED <<session, found>>

\* handle_login.  What check_credentials finds is left open.
HandleLogin ==
    /\ PayloadRead(LOGIN)
    /\ \/ /\ IF Short \/ ~is_printable(Username)
             THEN Serves(MALFORMED_REQUEST, << >>, Closed)
             ELSE \/ Serves(INVALID_CREDENTIALS, << >>, Start)
                  \/ Serves(SERVER_ERROR, << >>, Closed)
                  \/ LoginUnanswered
          /\ UNCHANGED session
       \/ /\ ~Short /\ is_printable(Username)
          /\ \E level \in Level : session' = level /\ Serves(OK, <<level>>, Start)
    /\ UNCHANGED found


\* handle_register: an unprintable username does not close the connection.
HandleRegister ==
    /\ PayloadRead(REGISTER)
    /\ \/ /\ IF Short THEN Serves(MALFORMED_REQUEST, << >>, Closed)
             ELSE IF ~is_printable(Username) THEN Serves(MALFORMED_REQUEST, << >>, Start)
             ELSE \E status \in {USERNAME_TAKEN, SERVER_ERROR} : Serves(status, << >>, Start)
          /\ UNCHANGED session
       \/ /\ ~Short /\ is_printable(Username)
          /\ session' = ANONYMOUS
          /\ Serves(OK, << >>, Start)
    /\ UNCHANGED found

\* The name and the phone number of an INSERT.
ContactIn(payload) ==
    <<SubSeq(payload, 2, 1 + payload[1]), Drop(payload, 1 + payload[1])>>

\* The length of the name is read as a signed char, in which 128 is negative.
WellFormedInsert(payload) ==
    /\ Len(payload) >= 3
    /\ payload[1] \in 1 .. MAX_CONTACT_NAME_LEN /\ payload[1] < 128
    /\ Len(payload) - 1 - payload[1] \in 1 .. MAX_PHONE_NUMBER_LENGTH

ASSUME StoredAssumption ==
    \A r \in Request :
        r.op = INSERT /\ WellFormedInsert(r.payload) => ContactIn(r.payload) \in Contact

\* handle_insert; an error of the database ends the process.
HandleInsert ==
    /\ PayloadRead(INSERT)
    /\ IF Short \/ ~WellFormedInsert(server.got)
       THEN Serves(MALFORMED_REQUEST, << >>, Start)
       ELSE Serves(OK, << >>, Start) \/ Serves(SERVER_ERROR, << >>, Closed)
    /\ UNCHANGED <<session, found>>

\* handle_delete.  Which contact delete_contact finds, if it finds one, is left open.
HandleDelete ==
    /\ PayloadRead(DELETE)
    /\ IF Short THEN Serves(MALFORMED_REQUEST, << >>, Start)
       ELSE \/ \E status \in {OK, NOT_FOUND} : Serves(status, << >>, Start)
            \/ Serves(SERVER_ERROR, << >>, Closed)
    /\ UNCHANGED <<session, found>>

Entry(c) == <<Len(c[1]), Len(c[2])>> \o c[1] \o c[2]

\* handle_search: some contacts, no more than the limit, some of them copies.
HandleSearch ==
    /\ PayloadRead(SEARCH)
    /\ \/ /\ IF Short \/ server.got = << >> THEN Serves(MALFORMED_REQUEST, << >>, Start)
                                          ELSE Serves(SERVER_ERROR, << >>, Closed)
          /\ UNCHANGED found
       \/ /\ ~Short /\ server.got # << >>
          /\ \E n \in 0 .. server.got[1] : found' \in [1 .. n -> Contact]
          /\ Serves(IF Len(found') < server.got[1] THEN ALL_RETURNED ELSE FEWER_RETURNED,
                    FlattenSeq([i \in DOMAIN found' |-> Entry(found'[i])]), Start)
    /\ UNCHANGED session

\* send_packet; to a client that is gone it is lost, or fails.
Reply ==
    /\ server.at = "answer"
    /\ LET packet == Packet(server.answer.status, server.answer.payload)
           then   == server.answer.then
       IN  IF then = Closed THEN Closes(toServer, packet)
           ELSE /\ server' = [server EXCEPT !.at = then.at, !.need = then.need, !.answer = NoAnswer]
                /\ toClient' = IF ClientGone THEN << >> ELSE toClient \o packet
                /\ UNCHANGED <<toServer, reset, session, found, split, clientVars>>
    /\ UNCHANGED served

\* Mutant: each recv asks for a whole buffer, and not for what is left.
DiscardBuffer ==
    /\ server.at = "discard"
    /\ \/ \E n \in Pieces(toServer, 3) :
             /\ toServer' = Drop(toServer, n)
             /\ server' = IF n = server.need THEN [server EXCEPT !.at = "start", !.need = 1]
                                             ELSE [server EXCEPT !.need = @ - n]
       \/ /\ ClientGone /\ toServer = << >>
          /\ server' = [server EXCEPT !.at = "start", !.need = 1]
          /\ UNCHANGED toServer
    /\ UNCHANGED <<toClient, reset, session, found, served, split, clientVars>>

\* discard_bytes, one recv at a time, up to the last byte or the end.
Discard ==
    /\ server.at = "discard"
    /\ \/ \E n \in Pieces(toServer, server.need) :
             /\ toServer' = Drop(toServer, n)
             /\ server' = IF n = server.need THEN [server EXCEPT !.at = "start", !.need = 1]
                                             ELSE [server EXCEPT !.need = @ - n]
       \/ /\ ClientGone /\ toServer = << >>
          /\ server' = [server EXCEPT !.at = "start", !.need = 1]
          /\ UNCHANGED toServer
    /\ UNCHANGED <<toClient, reset, session, found, served, split, clientVars>>

\* The process ends, as another thread makes it when the database fails.
ProcessEnds ==
    /\ server.at # "closed"
    /\ Closes(toServer, << >>)
    /\ UNCHANGED served

-----------------------------------------------------------------------------
(***************************************************************************)
(* The client.                                                             *)
(***************************************************************************)

serverVars == <<server, session, found, served, split>>

Reads(at, need) == client' = [client EXCEPT !.at = at, !.need = need, !.got = << >>]

Waits == client.at \in {"start", "header", "level", "payload"}

\* The call returns; on SERVER_ERROR every prompt ends the program.
Returns(status) ==
    /\ client' = [client EXCEPT !.at = IF status = SERVER_ERROR THEN "gone" ELSE "idle",
                                !.need = 0, !.got = << >>]
    /\ results' = Append(results, status)

\* The end of the program, in the middle of a call or between two.
Exited == 0

\* What the functions of requests.c are asked to send.
login(username, password) == [op |-> LOGIN, payload |-> username \o password]

register_user(username, password) == [op |-> REGISTER, payload |-> username \o password]

search_contact(max, query) == [op |-> SEARCH, payload |-> <<max>> \o query]

add_contact(name, phone_number) ==
    [op |-> INSERT, payload |-> <<Len(name)>> \o name \o phone_number]

delete_contact(query) == [op |-> DELETE, payload |-> query]

\* send_exact of a whole packet.  The server may have closed already: then the
\* first packet provokes a reset, and another one, sent after the reset is known,
\* ends the program with SIGPIPE.
Call(r) ==
    /\ client.at = "idle" /\ Len(sent) < MaxCalls
    /\ sent' = Append(sent, r)
    /\ \/ /\ Reads("start", 1)
          /\ IF server.at = "closed"
             THEN /\ reset' = TRUE /\ UNCHANGED toServer
                  /\ toClient' \in {toClient, << >>}
             ELSE toServer' = toServer \o Packet(r.op, r.payload) /\ UNCHANGED <<toClient, reset>>
          /\ UNCHANGED results
       \/ /\ reset
          /\ Reads("gone", 0)
          /\ results' = Append(results, Exited)
          /\ UNCHANGED <<toServer, toClient, reset>>
    /\ UNCHANGED <<auth_level, serverVars>>

\* Does the client's search_contact make sense of a payload?
Readable(payload) ==
    LET from[o \in Nat] ==
            o + 2 > Len(payload) \/
            LET name_length  == payload[o + 1]
                phone_length == payload[o + 2]
                next         == o + 2 + name_length + phone_length
            IN  /\ next <= Len(payload)
                /\ name_length <= MAX_CONTACT_NAME_LEN
                /\ phone_length <= MAX_PHONE_NUMBER_LENGTH
                /\ is_printable(SubSeq(payload, o + 3, next))
                /\ from[next]
    IN  from[0]

\* Mutant: the level that follows the header of a login is not read.
HeaderReadNoLevel(header) ==
    LET op   == Last(sent).op
        size == SizeIn(header)
    IN  IF op = SEARCH /\ size > 0
        THEN client' = [client EXCEPT !.at = "payload", !.need = size, !.got = << >>,
                                      !.status = header[1]]
             /\ UNCHANGED results
        ELSE Returns(header[1])

\* Only login and search_contact read more than the header.
HeaderRead(header) ==
    LET op   == Last(sent).op
        size == SizeIn(header)
        more == CASE op = LOGIN /\ header[1] = OK -> "level"
                  [] op = SEARCH /\ size > 0      -> "payload"
                  [] OTHER                        -> "nothing"
    IN  IF more = "nothing" THEN Returns(header[1])
        ELSE /\ client' = [client EXCEPT !.at = more, !.got = << >>, !.status = header[1],
                                         !.need = IF more = "level" THEN 1 ELSE size]
             /\ UNCHANGED results

\* recv_exact has all that it was called for.
ReadWhole(bytes) ==
    CASE client.at = "start" ->
            /\ IF bytes[1] = STARTING_SEQ THEN Reads("header", 3) /\ UNCHANGED results
                                          ELSE Returns(SERVER_ERROR)
            /\ UNCHANGED auth_level
      [] client.at = "header" -> HeaderRead(bytes) /\ UNCHANGED auth_level
      [] client.at = "level" -> Returns(OK) /\ auth_level' = bytes[1]
      [] client.at = "payload" ->
            /\ Returns(IF Readable(bytes) THEN client.status ELSE SERVER_ERROR)
            /\ UNCHANGED auth_level

\* recv_exact, one recv at a time.
ClientRecv ==
    /\ Waits
    /\ \E n \in Pieces(toClient, client.need) :
          LET bytes == client.got \o SubSeq(toClient, 1, n)
          IN  /\ toClient' = Drop(toClient, n)
              /\ IF n < client.need
                 THEN /\ client' = [client EXCEPT !.need = @ - n, !.got = bytes]
                      /\ UNCHANGED <<auth_level, results>>
                 ELSE ReadWhole(bytes)
    /\ UNCHANGED <<toServer, reset, sent, serverVars>>

\* recv returns 0: recv_exact returns less than asked for.
ServerGone ==
    /\ Waits /\ server.at = "closed" /\ toClient = << >>
    /\ Returns(SERVER_ERROR)
    /\ UNCHANGED <<toServer, toClient, reset, auth_level, sent, serverVars>>

\* recv fails: the program ends.
ServerReset ==
    /\ Waits /\ reset /\ toClient = << >>
    /\ Reads("gone", 0)
    /\ results' = Append(results, Exited)
    /\ UNCHANGED <<toServer, toClient, reset, auth_level, sent, serverVars>>

\* The user ends the program, between two calls or in the middle of one, with
\* bytes sent or not: they arrive as far as they were.
Leave ==
    /\ client.at # "gone"
    /\ Reads("gone", 0)
    /\ toClient' = << >>
    /\ \E n \in 0 .. Len(toServer) : toServer' = SubSeq(toServer, 1, n)
    /\ results' = IF Waits THEN Append(results, Exited) ELSE results
    /\ UNCHANGED <<reset, auth_level, sent, serverVars>>

-----------------------------------------------------------------------------

Handle == HandleLogin \/ HandleRegister \/ HandleInsert \/ HandleDelete \/ HandleSearch

Thread ==
    \/ RecvStart \/ RecvHeader \/ RecvPayload \/ Handle \/ Reply \/ Discard \/ ClientLost

Client == ClientRecv \/ ServerGone \/ ServerReset

Next ==
    \/ Thread \/ Client
    \/ ProcessEnds \/ Leave
    \/ \E r \in Request : Call(r)

Spec == Init /\ [][Next]_vars

\* The thread is about to look up an account: it needs the lock of the user database.
NeedsUserLock ==
    /\ server.at = "payload" /\ ~Short
    /\ server.op \in {LOGIN, REGISTER} /\ is_printable(Username)

\* The thread and the client are scheduled, and what was sent arrives.  Whether the
\* lock of the user database comes is not up to this connection: it does not once a
\* writer of another one was interrupted (RWLock, Server).
FairSpec == Spec /\ WF_vars(~NeedsUserLock /\ Thread) /\ WF_vars(Client)

-----------------------------------------------------------------------------
(***************************************************************************)
(* Properties.                                                             *)
(***************************************************************************)

ServerAt == {"start", "header", "payload", "discard", "answer", "closed"}
ClientAt == {"idle", "start", "header", "level", "payload", "gone"}

\* Neither side ever asks for a negative number of bytes, nor waits in a recv for
\* nothing; a call has at most one result.
TypeOK ==
    /\ server.at \in ServerAt /\ client.at \in ClientAt
    /\ server.need \in Nat /\ server.need < 65536 /\ client.need \in Nat /\ client.need < 65536
    /\ server.at \in {"start", "header", "discard"} => server.need > 0
    /\ Waits => client.need > 0
    /\ toServer \in Seq(0 .. 255) /\ toClient \in Seq(0 .. 255)
    /\ Len(results) = Len(sent) - (IF Waits THEN 1 ELSE 0)

\* The packets of the requests that the thread has not come to.
Unserved ==
    FlattenSeq([i \in 1 .. Len(sent) - Len(served) |->
                   Packet(sent[Len(served) + i].op, sent[Len(served) + i].payload)])

\* The thread takes a byte for the start of a packet only where a packet starts,
\* and serves the requests that were sent, each once and in their order, with
\* their own payloads: nothing of a request, refused or not, is left behind.
Framed ==
    /\ server.at = "start" =>
          IF ClientGone THEN IsPrefix(toServer, Unserved) ELSE toServer = Unserved
    /\ Len(served) <= Len(sent)
    /\ \A k \in DOMAIN served :
          /\ served[k].op \in {sent[k].op, NoOpcode}
          /\ served[k].payload \in {sent[k].payload, NotRead}

\* A call returns the status of its own request.  It returns an error of its own
\* only if the server has closed, or if it has been sent a contact that it cannot
\* show: handle_insert stores what search_contact refuses.  And only the last
\* request may have been carried out without the client knowing.
AnswersMatch ==
    /\ \A k \in DOMAIN results :
          \/ k \in DOMAIN served /\ results[k] = served[k].status
          \/ results[k] = Exited
          \/ /\ results[k] = SERVER_ERROR
             /\ \/ server.at = "closed"
                \/ sent[k].op = SEARCH /\ \E c \in Range(found) : ~is_printable(c[1] \o c[2])
    /\ \A k \in DOMAIN served : served[k].status = OK => k = Len(sent) \/ results[k] = OK

\* The requests that the handlers do not refuse as malformed.
WellFormed(r) ==
    CASE r.op \in {LOGIN, REGISTER} ->
            /\ ~BadSize(r.op, Len(r.payload))
            /\ is_printable(SubSeq(r.payload, 1, Len(r.payload) - DIGEST_LEN))
      [] r.op = INSERT -> WellFormedInsert(r.payload)
      [] r.op = SEARCH -> r.payload # << >>
      [] OTHER -> TRUE

\* A well-formed request is answered MALFORMED_REQUEST only if its header came in
\* two pieces, which ends the connection: no payload, however it is cut, does it.
MalformedOnlyIfSplit ==
    \A k \in DOMAIN results :
        results[k] = MALFORMED_REQUEST /\ WellFormed(sent[k]) =>
            split /\ k = Len(served) /\ server.at \notin {"start", "header", "payload"}

Done(k, op) == served[k].op = op /\ served[k].status = OK

\* Between two calls, a client that has logged in knows the level that the server
\* holds it to, so that its menu offers what will be allowed, until it registers.
LevelsAgree ==
    client.at = "idle" =>
        \A k \in DOMAIN served :
            Done(k, LOGIN) /\ (\A j \in k .. Len(served) : ~Done(j, REGISTER)) =>
                auth_level = session

Unanswered ==
    served # << >> /\ Len(served) = Len(sent) /\ Last(served).status = NotSent

=============================================================================
