----------------------------- MODULE Server_proofs -----------------------------
(***************************************************************************)
(* Proofs about the sessions of the server, for every set of connections,  *)
(* of requests and of changes made at the console: the contacts are served *)
(* only to a level that the user file has given to the credentials of the  *)
(* session.                                                                *)
(*                                                                         *)
(* An answer is sent one step after its handler has looked at the level of *)
(* the session, and the level was read from the user file at the login.    *)
(* IInv relates the three: the answer to the session (AnswersAllowed), the *)
(* session to the history of the file (SessionsGranted), and the file to   *)
(* that history (in TypeOK).                                               *)
(*                                                                         *)
(* An account is written one step after its handler has found that there   *)
(* is none.  CopiesBounded counts the copies that are written together     *)
(* with those that still may be.                                           *)
(***************************************************************************)
EXTENDS Server, Database_proofs

Credentialed == { r \in Request : r.op \in {"LOGIN", "REGISTER"} }

Account == [username : { r.username : r \in Credentialed },
            password : { r.password : r \in Credentialed },
            level : 0 .. 255]

Types ==
    /\ users \in Seq(Account)
    /\ DOMAIN request = Conn /\ DOMAIN session = Conn /\ DOMAIN answer = Conn
    /\ \A c \in Conn : request[c] \in Request \cup {NoRequest}

Holds(c) == <<session[c].id[1], session[c].id[2], session[c].level>>

SessionsGranted ==
    \A c \in Conn : session[c].level # ANONYMOUS => Holds(c) \in granted

AnswersAllowed ==
    \A c \in Conn :
        answer[c].status \in ContactOp => session[c].level \in Allowed(answer[c].status)

IInv == Types /\ TypeOK /\ SessionsGranted /\ AnswersAllowed

-----------------------------------------------------------------------------
(***************************************************************************)
(* The accounts that the handlers and the console write.                   *)
(***************************************************************************)

LEMMA AccountForm ==
    Account = AccountOf({ r.username : r \in Credentialed },
                        { r.password : r \in Credentialed }, 0 .. 255)
  BY DEF Account, AccountOf

LEMMA AddTyped ==
    ASSUME NEW us \in Seq(Account), NEW r \in Credentialed, NEW level \in 0 .. 255
    PROVE  /\ [username |-> r.username, password |-> r.password, level |-> level] \in Account
           /\ add_user(us, r.username, r.password, level) \in Seq(Account)
<1>1. [username |-> r.username, password |-> r.password, level |-> level] \in Account
  BY DEF Account
<1> QED
  BY <1>1 DEF add_user

LEMMA ChangeTyped ==
    ASSUME NEW us \in Seq(Account), NEW u, NEW level \in 0 .. 255
    PROVE  change_permissions(us, u, level) \in Seq(Account)
  BY AccountForm, ChangeSets, ZenonT(60)

\* A change of level leaves each account with its credentials, and the accounts
\* with other usernames as they are.
LEMMA ChangeSame ==
    ASSUME NEW us \in Seq(Account), NEW v, NEW level \in Byte
    PROVE  /\ \A u, p : WithCredentials(change_permissions(us, v, level), u, p)
                          = WithCredentials(us, u, p)
           /\ \A i \in DOMAIN us : us[i].username # v =>
                  change_permissions(us, v, level)[i] = us[i]
<1> DEFINE Names   == { r.username : r \in Credentialed }
           Digests == { r.password : r \in Credentialed }
<1>1. us \in Seq(AccountOf(Names, Digests, Byte))
  BY AccountForm DEF Byte
<1> HIDE DEF Names, Digests
<1>2. ASSUME NEW u, NEW p
      PROVE  WithCredentials(change_permissions(us, v, level), u, p) = WithCredentials(us, u, p)
  BY <1>1, ChangeKeeps
<1>3. \A i \in DOMAIN us : us[i].username # v => change_permissions(us, v, level)[i] = us[i]
  BY <1>1, ChangeSets
<1> QED
  BY <1>2, <1>3

-----------------------------------------------------------------------------
(***************************************************************************)
(* IInv is an inductive invariant.                                         *)
(***************************************************************************)

LEMMA InitIInv == Init => IInv
<1> SUFFICES ASSUME Init PROVE IInv
  OBVIOUS
<1> USE DEF Init, Off, NoAnswer
<1>1. Types
  BY DEF Types
<1>2. TypeOK
  <2>1. Grants(users) = {}
    BY DEF Grants
  <2>2. /\ phase \in [Conn -> Phase]
        /\ gone \subseteq Conn /\ raised \in BOOLEAN
    BY DEF Phase
  <2>3. \A c \in Conn : /\ session[c].level \in 0 .. 255
                       /\ session[c] = Off /\ phase[c] = "off" /\ c \notin gone
    BY DEF ANONYMOUS
  <2> QED
    BY <2>1, <2>2, <2>3 DEF TypeOK
<1>3. SessionsGranted /\ AnswersAllowed
  BY DEF SessionsGranted, AnswersAllowed, ContactOp
<1> QED
  BY <1>1, <1>2, <1>3 DEF IInv

\* A handler that changes neither the file nor its session, and answers that it
\* serves the contacts only if the session has the level.
LEMMA AnswerIInv ==
    ASSUME IInv, NEW c \in Conn, NEW status, NEW closes,
           phase[c] # "off", Answers(c, status, closes),
           UNCHANGED <<users, session, granted>>, raised' \in BOOLEAN,
           status \in ContactOp => session[c].level \in Allowed(status)
    PROVE  IInv'
<1> USE DEF Answers, IInv
<1>1. Types'
  BY DEF Types
<1>2. TypeOK'
  BY DEF TypeOK, Phase, Grants
<1>3. SessionsGranted'
  BY DEF SessionsGranted, Holds
<1>4. AnswersAllowed'
  BY DEF AnswersAllowed, Types
<1> QED
  BY <1>1, <1>2, <1>3, <1>4

\* A handler that gives its session the credentials of the request, with a level
\* that the file has for them, and answers OK.
LEMMA LogInIInv ==
    ASSUME IInv, NEW c \in Conn, NEW level \in 0 .. 255,
           phase[c] # "off", LogIn(c, level), Answers(c, "OK", FALSE), raised' = raised,
           users' \in Seq(Account), granted \subseteq granted', Grants(users') \subseteq granted',
           level # ANONYMOUS => <<Username(c), Password(c), level>> \in granted
    PROVE  IInv'
<1> USE DEF Answers, IInv, LogIn
<1>1. Types'
  BY DEF Types
<1>2. TypeOK'
  <2>1. Grants(users)' = Grants(users')
    BY DEF Grants
  <2>2. \A d \in Conn : session'[d].level \in 0 .. 255
    BY DEF Types, TypeOK
  <2>3. \A d \in Conn : phase'[d] = "off" => session'[d] = Off /\ d \notin gone'
    BY DEF Types, TypeOK
  <2>4. \A d \in Conn : phase'[d] = "checked" => request'[d].op = "REGISTER"
    BY DEF Types, TypeOK
  <2>5. phase' \in [Conn -> Phase]
    BY DEF TypeOK, Phase
  <2> QED
    BY <2>1, <2>2, <2>3, <2>4, <2>5 DEF TypeOK
<1>3. SessionsGranted'
  <2>1. ASSUME NEW d \in Conn, session'[d].level # ANONYMOUS PROVE Holds(d)' \in granted'
    <3>1. CASE d = c
      <4>1. session'[c] = [id |-> Id(c), level |-> level]
        BY DEF Types
      <4>2. Holds(c)' = <<Username(c), Password(c), level>>
        BY <4>1 DEF Holds, Id
      <4> QED
        BY <2>1, <3>1, <4>1, <4>2
    <3>2. CASE d # c
      BY <2>1, <3>2 DEF SessionsGranted, Holds, Types
    <3> QED
      BY <3>1, <3>2
  <2> QED
    BY <2>1 DEF SessionsGranted
<1>4. AnswersAllowed'
  <2>1. answer'[c].status = "OK" /\ "OK" \notin ContactOp
    BY DEF Types, ContactOp
  <2>2. ASSUME NEW d \in Conn, d # c
        PROVE  answer'[d] = answer[d] /\ session'[d] = session[d]
    BY <2>2 DEF Types
  <2> QED
    BY <2>1, <2>2 DEF AnswersAllowed
<1> QED
  BY <1>1, <1>2, <1>3, <1>4

\* The thread ends, and its session with it.
LEMMA CloseIInv ==
    ASSUME IInv, NEW c \in Conn, Close(c)
    PROVE  IInv'
<1> USE DEF Close, IInv
<1>1. Types'
  BY DEF Types
<1>2. TypeOK'
  BY DEF TypeOK, Types, Phase, Grants, Off, ANONYMOUS
<1>3. SessionsGranted'
  BY DEF SessionsGranted, Holds, Types, Off
<1>4. AnswersAllowed'
  BY DEF AnswersAllowed, Types, NoAnswer, ContactOp
<1> QED
  BY <1>1, <1>2, <1>3, <1>4

\* A step that moves a connection from one handler's phase to the next, and
\* changes neither file, session nor answer.
LEMMA MoveIInv ==
    ASSUME IInv, NEW c \in Conn, NEW to \in Phase, to # "off",
           phase' = [phase EXCEPT ![c] = to],
           c \notin gone \/ phase[c] # "off",
           to = "checked" => request'[c].op = "REGISTER",
           DOMAIN request' = Conn,
           request'[c] \in Request \cup {NoRequest},
           \A d \in Conn : d # c => request'[d] = request[d],
           UNCHANGED <<users, session, answer, gone, granted, raised>>
    PROVE  IInv'
<1> USE DEF IInv
<1>1. Types'
  BY DEF Types
<1>2. TypeOK'
  BY DEF TypeOK, Grants
<1>3. SessionsGranted' /\ AnswersAllowed'
  BY DEF SessionsGranted, Holds, AnswersAllowed
<1> QED
  BY <1>1, <1>2, <1>3

\* The credentials of a LOGIN or REGISTER that is being served are of a request.
LEMMA RequestTyped ==
    ASSUME IInv, NEW c \in Conn, request[c].op \in {"LOGIN", "REGISTER"}
    PROVE  request[c] \in Credentialed
<1>1. NoRequest.op \notin {"LOGIN", "REGISTER"}
  BY DEF NoRequest
<1> QED
  BY <1>1 DEF IInv, Types, Credentialed

LEMMA ClientIInv ==
    ASSUME IInv, NEW c \in Conn, Client(c)
    PROVE  IInv'
<1>1. CASE Connect(c)
  <2>1. c \notin gone /\ DOMAIN request = Conn /\ request[c] \in Request \cup {NoRequest}
    BY <1>1 DEF Connect, IInv, TypeOK, Types
  <2> QED
    BY <1>1, <2>1, MoveIInv DEF Connect, Phase
<1>2. ASSUME NEW r \in Request, Send(c, r)
      PROVE  IInv'
  <2>1. /\ DOMAIN request' = Conn
        /\ request'[c] \in Request \cup {NoRequest}
        /\ \A d \in Conn : d # c => request'[d] = request[d]
    BY <1>2 DEF Send, IInv, Types
  <2> QED
    BY <1>2, <2>1, MoveIInv DEF Send, Phase
<1>3. CASE Leave(c)
  BY <1>3 DEF Leave, IInv, Types, TypeOK, Grants, SessionsGranted, Holds, AnswersAllowed
<1> QED
  BY <1>1, <1>2, <1>3 DEF Client

LEMMA LoginIInv ==
    ASSUME IInv, NEW c \in Conn, Login(c)
    PROVE  IInv'
<1>1. CASE LoginRefused(c)
  BY <1>1, AnswerIInv, ZenonT(60) DEF LoginRefused, Serves, ContactOp, IInv, TypeOK
<1>2. CASE LoginAccepted(c)
  <2> DEFINE i == Found(c)
  <2>1. users \in Seq(Account)
    BY DEF IInv, Types
  <2>2. i \in DOMAIN users /\ users[i].username = Username(c) /\ users[i].password = Password(c)
    BY <1>2, <2>1, LoginFinds DEF LoginAccepted, Found
  <2>3. users[i].level \in 0 .. 255
    <3>1. users[i] \in Account
      BY <2>1, <2>2
    <3> QED
      BY <3>1 DEF Account
  <2>4. users[i].level # ANONYMOUS
          => <<Username(c), Password(c), users[i].level>> \in granted
    BY <2>2 DEF IInv, TypeOK, Grants
  <2>5. granted \subseteq granted' /\ Grants(users') \subseteq granted' /\ users' = users
    BY <1>2 DEF LoginAccepted, IInv, TypeOK, Grants
  <2> QED
    BY <1>2, <2>1, <2>3, <2>4, <2>5, LogInIInv, ZenonT(60) DEF LoginAccepted, Serves
<1> QED
  BY <1>1, <1>2 DEF Login

LEMMA RegisterIInv ==
    ASSUME IInv, NEW c \in Conn, Register(c)
    PROVE  IInv'
<1>1. CASE RegisterTaken(c)
  BY <1>1, AnswerIInv DEF RegisterTaken, Serves, ContactOp, IInv, TypeOK
<1>2. CASE RegisterChecked(c)
  <2>1. /\ DOMAIN request' = Conn
        /\ request'[c] \in Request \cup {NoRequest}
        /\ request'[c].op = "REGISTER"
    BY <1>2, SMTT(60) DEF RegisterChecked, Serves, IInv, Types
  <2> QED
    BY <1>2, <2>1, MoveIInv DEF RegisterChecked, Serves, Phase
<1>3. CASE RegisterAdded(c)
  <2>1. request[c] \in Credentialed
    BY <1>3, RequestTyped DEF RegisterAdded, IInv, TypeOK
  <2>2. PICK level \in RegisteredLevel :
            WriteUsers(add_user(users, Username(c), Password(c), level))
    BY <1>3, SMTT(60) DEF RegisterAdded
  <2>3. users' \in Seq(Account)
    BY <2>1, <2>2, AddTyped, LevelAssumption, ZenonT(60)
    DEF WriteUsers, Username, Password, IInv, Types
  <2>4. granted \subseteq granted' /\ Grants(users') \subseteq granted'
    BY <2>2 DEF WriteUsers
  <2>5. ANONYMOUS \in 0 .. 255
    BY DEF ANONYMOUS
  <2>6. /\ phase[c] # "off" /\ raised' = raised
        /\ LogIn(c, ANONYMOUS) /\ Answers(c, "OK", FALSE)
    BY <1>3 DEF RegisterAdded
  <2> QED
    BY <2>3, <2>4, <2>5, <2>6, LogInIInv, ZenonT(60)
<1> QED
  BY <1>1, <1>2, <1>3 DEF Register

LEMMA HandlerIInv ==
    ASSUME IInv, NEW c \in Conn, Handler(c)
    PROVE  IInv'
<1>1. CASE CredentialsMalformed(c)
  BY <1>1, AnswerIInv DEF CredentialsMalformed, Serves, ContactOp, IInv, TypeOK
<1>2. CASE Unauthorized(c)
  BY <1>2, AnswerIInv DEF Unauthorized, ContactOp, IInv, TypeOK
<1>3. CASE ServeContacts(c)
  BY <1>3, AnswerIInv DEF ServeContacts, IInv, TypeOK
<1>4. CASE UnknownOpcode(c)
  BY <1>4, AnswerIInv DEF UnknownOpcode, ContactOp, IInv, TypeOK
<1>5. CASE ReplyAndClose(c) \/ Disconnected(c)
  BY <1>5, CloseIInv DEF ReplyAndClose, Disconnected
<1>6. CASE Reply(c)
  <2>1. Types'
    BY <1>6 DEF Reply, IInv, Types
  <2>2. TypeOK'
    BY <1>6 DEF Reply, IInv, TypeOK, Phase, Grants
  <2>3. SessionsGranted'
    BY <1>6 DEF Reply, IInv, SessionsGranted, Holds
  <2>4. AnswersAllowed'
    BY <1>6 DEF Reply, IInv, Types, AnswersAllowed, NoAnswer, ContactOp
  <2> QED
    BY <2>1, <2>2, <2>3, <2>4 DEF IInv
<1> QED
  BY <1>1, <1>2, <1>3, <1>4, <1>5, <1>6, LoginIInv, RegisterIInv
  DEF Handler, Contacts, Finish

LEMMA InterruptedIInv ==
    ASSUME IInv, NEW c \in Conn, Interrupted(c)
    PROVE  IInv'
<1>1. CASE LoginInterrupted(c)
  BY <1>1, AnswerIInv DEF LoginInterrupted, Serves, ContactOp, IInv, TypeOK
<1>2. CASE RegisterInterrupted(c)
  BY <1>2, AnswerIInv DEF RegisterInterrupted, Serves, ContactOp, IInv, TypeOK
<1>3. CASE AddInterrupted(c)
  BY <1>3, AnswerIInv DEF AddInterrupted, ContactOp, IInv, TypeOK
<1> QED
  BY <1>1, <1>2, <1>3 DEF Interrupted

LEMMA PermIInv ==
    ASSUME IInv, NEW change \in ConsoleChange, Perm(change[1], change[2])
    PROVE  IInv'
<1>1. change[2] \in 0 .. 255
  BY ConsoleAssumption DEF ANONYMOUS, USER, ADMIN
<1>2. users' \in Seq(Account)
  BY <1>1, ChangeTyped DEF Perm, WriteUsers, IInv, Types
<1>3. granted \subseteq granted' /\ Grants(users)' \subseteq granted'
  BY DEF Perm, WriteUsers, Grants
<1>4. Types' /\ TypeOK'
  BY <1>2, <1>3 DEF Perm, IInv, Types, TypeOK
<1>5. SessionsGranted' /\ AnswersAllowed'
  BY <1>3 DEF Perm, IInv, SessionsGranted, Holds, AnswersAllowed
<1> QED
  BY <1>4, <1>5 DEF IInv

LEMMA ConsoleIInv ==
    ASSUME IInv, Console
    PROVE  IInv'
<1>1. CASE PermInterrupted
  BY <1>1 DEF PermInterrupted, IInv, Types, TypeOK, Grants, SessionsGranted, Holds, AnswersAllowed
<1> QED
  BY <1>1, PermIInv DEF Console

LEMMA NextIInv == IInv /\ [Next]_vars => IInv'
<1> SUFFICES ASSUME IInv, [Next]_vars PROVE IInv'
  OBVIOUS
<1>1. CASE UNCHANGED vars
  BY <1>1
  DEF vars, IInv, Types, TypeOK, Grants, SessionsGranted, Holds, AnswersAllowed
<1> QED
  BY <1>1, ClientIInv, HandlerIInv, InterruptedIInv, ConsoleIInv DEF Next

\* Every reachable state satisfies the inductive invariant.
LEMMA Invariance == Spec => []IInv
  BY InitIInv, NextIInv, PTL DEF Spec

-----------------------------------------------------------------------------
(***************************************************************************)
(* The results.                                                            *)
(***************************************************************************)

\* Type correctness: no session outlives its connection, and everything that the
\* user file grants has been recorded.
THEOREM TypeCorrect == Spec => []TypeOK
<1>1. IInv => TypeOK
  BY DEF IInv
<1> QED
  BY <1>1, Invariance, PTL

LEMMA IInvGuards == IInv => ContactsGuarded
<1> SUFFICES ASSUME IInv, NEW c \in Conn, answer[c].status \in ContactOp
             PROVE  \E level \in Allowed(answer[c].status) :
                        <<session[c].id[1], session[c].id[2], level>> \in granted
  BY DEF ContactsGuarded
<1>1. session[c].level \in Allowed(answer[c].status)
  BY DEF IInv, AnswersAllowed
<1>2. session[c].level # ANONYMOUS
  BY <1>1 DEF Allowed, ANONYMOUS, USER, ADMIN
<1> QED
  BY <1>1, <1>2 DEF IInv, SessionsGranted, Holds

\* The contacts are searched only for credentials that the user file has given
\* the level USER or ADMIN, and changed only for those given ADMIN, whatever the
\* number of connections, the order of their requests and the changes made at
\* the console.
THEOREM Guarded == Spec => []ContactsGuarded
  BY IInvGuards, Invariance, PTL

-----------------------------------------------------------------------------
(***************************************************************************)
(* The copies of an account.                                               *)
(***************************************************************************)

\* The threads that have found no account with these credentials, and add one.
Adding(u, p) == { c \in Conn : phase[c] = "checked" /\ Username(c) = u /\ Password(c) = p }

Copies(u, p) == Cardinality(WithCredentials(users, u, p))

CopiesBounded ==
    \A u \in { r.username : r \in Credentialed }, p \in { r.password : r \in Credentialed } :
        Copies(u, p) + Cardinality(Adding(u, p)) <= Cardinality(Conn)

LEMMA AddingFinite ==
    ASSUME NEW u, NEW p
    PROVE  /\ IsFiniteSet(Conn) /\ Cardinality(Conn) \in Nat
           /\ IsFiniteSet(Adding(u, p)) /\ Cardinality(Adding(u, p)) \in Nat
           /\ Cardinality(Adding(u, p)) <= Cardinality(Conn)
<1>1. Adding(u, p) \in SUBSET Conn
  BY DEF Adding
<1> QED
  BY <1>1, ConnAssumption, FS_Subset, FS_CardinalityType

LEMMA CopiesNatural ==
    ASSUME IInv, NEW u, NEW p
    PROVE  IsFiniteSet(WithCredentials(users, u, p)) /\ Copies(u, p) \in Nat
<1>1. IsFiniteSet(WithCredentials(users, u, p))
  BY FoundInFile DEF IInv, Types
<1> QED
  BY <1>1, FS_CardinalityType DEF Copies

\* A step after which no more threads add such an account, and no more copies of
\* it are there.
LEMMA NoMoreCopies ==
    ASSUME IInv, IInv', NEW u, NEW p,
           Copies(u, p) + Cardinality(Adding(u, p)) <= Cardinality(Conn),
           Adding(u, p)' \subseteq Adding(u, p),
           WithCredentials(users', u, p) = WithCredentials(users, u, p)
    PROVE  Copies(u, p)' + Cardinality(Adding(u, p)') <= Cardinality(Conn)
<1>1. Adding(u, p)' \in SUBSET Adding(u, p)
  OBVIOUS
<1>2. Cardinality(Adding(u, p)') <= Cardinality(Adding(u, p))
  BY <1>1, AddingFinite, FS_Subset
<1>3. Cardinality(Adding(u, p)') \in Nat
  BY <1>1, AddingFinite, FS_Subset, FS_CardinalityType
<1>4. Copies(u, p)' = Copies(u, p)
  BY DEF Copies
<1> QED
  BY <1>2, <1>3, <1>4, AddingFinite, CopiesNatural

\* The steps of a connection other than the two of a registration that succeeds.
LEMMA OtherSteps ==
    ASSUME IInv, NEW c \in Conn, Client(c) \/ Handler(c) \/ Interrupted(c),
           ~RegisterChecked(c), ~RegisterAdded(c), NEW u, NEW p
    PROVE  users' = users /\ Adding(u, p)' \subseteq Adding(u, p)
<1> USE DEF IInv, Types, TypeOK
<1>1. CASE Client(c)
  <2>1. users' = users /\ \A d \in Conn : phase'[d] = "checked" =>
                             phase[d] = "checked" /\ request'[d] = request[d]
    BY <1>1 DEF Client, Connect, Leave, Send
  <2> QED
    BY <2>1 DEF Adding, Username, Password
<1>2. CASE Handler(c)
  <2>1. users' = users /\ \A d \in Conn : phase'[d] = "checked" =>
                             phase[d] = "checked" /\ request'[d] = request[d]
    <3>1. CASE Login(c)
      BY <3>1 DEF Login, LoginRefused, LoginAccepted, Answers
    <3>2. CASE Register(c) \/ CredentialsMalformed(c)
      BY <3>2 DEF Register, RegisterTaken, CredentialsMalformed, Answers
    <3>3. CASE Contacts(c) \/ UnknownOpcode(c)
      BY <3>3 DEF Contacts, Unauthorized, ServeContacts, UnknownOpcode, Answers
    <3>4. CASE Finish(c)
      BY <3>4 DEF Finish, Reply, ReplyAndClose, Disconnected, Close
    <3> QED
      BY <1>2, <3>1, <3>2, <3>3, <3>4 DEF Handler
  <2> QED
    BY <2>1 DEF Adding, Username, Password
<1>3. CASE Interrupted(c)
  <2>1. users' = users /\ \A d \in Conn : phase'[d] = "checked" =>
                             phase[d] = "checked" /\ request'[d] = request[d]
    BY <1>3 DEF Interrupted, LoginInterrupted, RegisterInterrupted, AddInterrupted, Answers
  <2> QED
    BY <2>1 DEF Adding, Username, Password
<1> QED
  BY <1>1, <1>2, <1>3

LEMMA NextCopies ==
    ASSUME IInv, IInv', CopiesBounded, [Next]_vars
    PROVE  CopiesBounded'
<1> SUFFICES ASSUME NEW u \in { r.username : r \in Credentialed },
                    NEW p \in { r.password : r \in Credentialed }
             PROVE  Copies(u, p)' + Cardinality(Adding(u, p)') <= Cardinality(Conn)
  BY DEF CopiesBounded
<1>0. Copies(u, p) + Cardinality(Adding(u, p)) <= Cardinality(Conn)
  BY DEF CopiesBounded
<1>1. CASE UNCHANGED vars
  <2>1. users' = users /\ Adding(u, p)' = Adding(u, p)
    BY <1>1 DEF vars, Adding, Username, Password
  <2> QED
    BY <1>0, <2>1, NoMoreCopies
<1>2. ASSUME NEW c \in Conn, RegisterChecked(c)
      PROVE  Copies(u, p)' + Cardinality(Adding(u, p)') <= Cardinality(Conn)
  <2>1. users' = users
    BY <1>2 DEF RegisterChecked
  <2>2. CASE Username(c) = u /\ Password(c) = p
    <3>1. WithCredentials(users, u, p) = {}
      BY <1>2, <2>2, LoginFinds DEF RegisterChecked, Found, IInv, Types
    <3>2. Copies(u, p)' = 0
      BY <2>1, <3>1, FS_EmptySet DEF Copies
    <3>3. Adding(u, p)' \in SUBSET Conn
      BY DEF Adding
    <3>4. Cardinality(Adding(u, p)') \in Nat /\ Cardinality(Adding(u, p)') <= Cardinality(Conn)
      BY <3>3, ConnAssumption, FS_Subset, FS_CardinalityType
    <3> QED
      BY <3>2, <3>4, AddingFinite
  <2>3. CASE ~(Username(c) = u /\ Password(c) = p)
    <3>1. Adding(u, p)' \subseteq Adding(u, p)
      BY <1>2, <2>3 DEF RegisterChecked, Adding, Username, Password, IInv, TypeOK
    <3> QED
      BY <1>0, <2>1, <3>1, NoMoreCopies
  <2> QED
    BY <2>2, <2>3
<1>3. ASSUME NEW c \in Conn, RegisterAdded(c)
      PROVE  Copies(u, p)' + Cardinality(Adding(u, p)') <= Cardinality(Conn)
  <2>1. PICK level \in RegisteredLevel :
            users' = add_user(users, Username(c), Password(c), level)
    BY <1>3 DEF RegisterAdded, WriteUsers
  <2>2. request[c] \in Credentialed
    BY <1>3, RequestTyped, SMTT(60) DEF RegisterAdded, IInv, TypeOK
  <2>3. [username |-> Username(c), password |-> Password(c), level |-> level] \in Account
    BY <2>2, AddTyped, LevelAssumption, ZenonT(60) DEF Username, Password, IInv, Types
  <2>4. users \in Seq(Account)
    BY DEF IInv, Types
  <2>5. WithCredentials(users', u, p) = WithCredentials(users, u, p)
           \cup (IF Username(c) = u /\ Password(c) = p THEN {Len(users) + 1} ELSE {})
    BY <2>1, <2>3, <2>4, AddFinds
  <2>6. Adding(u, p)' = Adding(u, p) \ {c}
    BY <1>3 DEF RegisterAdded, Answers, Adding, Username, Password, IInv, Types, TypeOK
  <2>7. CASE Username(c) = u /\ Password(c) = p
    <3>1. c \in Adding(u, p)
      BY <1>3, <2>7 DEF RegisterAdded, Adding
    <3>2. Cardinality(Adding(u, p) \ {c}) = Cardinality(Adding(u, p)) - 1
      BY <3>1, AddingFinite, FS_RemoveElement
    <3>3. Len(users) + 1 \notin WithCredentials(users, u, p)
      BY <2>4, FoundInFile
    <3>4. Cardinality(WithCredentials(users, u, p) \cup {Len(users) + 1}) = Copies(u, p) + 1
      BY <3>3, CopiesNatural, FS_AddElement DEF Copies
    <3>5. WithCredentials(users', u, p) = WithCredentials(users, u, p) \cup {Len(users) + 1}
      BY <2>5, <2>7
    <3>6. Copies(u, p)' = Copies(u, p) + 1
      BY <3>4, <3>5 DEF Copies
    <3>7. Cardinality(Adding(u, p)') = Cardinality(Adding(u, p)) - 1
      BY <2>6, <3>2
    <3> QED
      BY <1>0, <3>6, <3>7, CopiesNatural, AddingFinite
  <2>8. CASE ~(Username(c) = u /\ Password(c) = p)
    <3>1. WithCredentials(users', u, p) = WithCredentials(users, u, p)
      BY <2>5, <2>8
    <3> QED
      BY <1>0, <2>6, <3>1, NoMoreCopies
  <2> QED
    BY <2>7, <2>8
<1>4. ASSUME NEW c \in Conn, Client(c) \/ Handler(c) \/ Interrupted(c),
             ~RegisterChecked(c), ~RegisterAdded(c)
      PROVE  Copies(u, p)' + Cardinality(Adding(u, p)') <= Cardinality(Conn)
  BY <1>0, <1>4, OtherSteps, NoMoreCopies
<1>5. ASSUME NEW change \in ConsoleChange, Perm(change[1], change[2])
      PROVE  Copies(u, p)' + Cardinality(Adding(u, p)') <= Cardinality(Conn)
  <2>1. change[2] \in Byte
    BY ConsoleAssumption DEF ANONYMOUS, USER, ADMIN, Byte
  <2>2. users' = change_permissions(users, change[1], change[2])
    BY <1>5 DEF Perm, WriteUsers
  <2>4. WithCredentials(users', u, p) = WithCredentials(users, u, p)
    <3>1. users \in Seq(Account)
      BY DEF IInv, Types
    <3>2. WithCredentials(change_permissions(users, change[1], change[2]), u, p)
            = WithCredentials(users, u, p)
      BY <2>1, <3>1, ChangeSame
    <3> QED
      BY <2>2, <3>2
  <2>3. Adding(u, p)' = Adding(u, p)
    BY <1>5 DEF Perm, Adding, Username, Password
  <2> QED
    BY <1>0, <2>3, <2>4, NoMoreCopies
<1>6. CASE PermInterrupted
  <2>1. users' = users /\ Adding(u, p)' = Adding(u, p)
    BY <1>6 DEF PermInterrupted, Adding, Username, Password
  <2> QED
    BY <1>0, <2>1, NoMoreCopies
<1> QED
  BY <1>1, <1>2, <1>3, <1>4, <1>5, <1>6 DEF Next, Console

LEMMA InitCopies == Init => CopiesBounded
<1> SUFFICES ASSUME Init,
                    NEW u \in { r.username : r \in Credentialed },
                    NEW p \in { r.password : r \in Credentialed }
             PROVE  Copies(u, p) + Cardinality(Adding(u, p)) <= Cardinality(Conn)
  BY DEF CopiesBounded
<1>1. WithCredentials(users, u, p) = {} /\ Adding(u, p) = {}
  BY DEF Init, WithCredentials, WithName, Adding
<1> QED
  BY <1>1, AddingFinite, FS_EmptySet DEF Copies

LEMMA BoundedDuplicates == IInv /\ CopiesBounded => DuplicatesBounded
<1> SUFFICES ASSUME IInv, CopiesBounded, NEW i \in DOMAIN users
             PROVE  Copies(users[i].username, users[i].password) <= Cardinality(Conn)
  BY DEF DuplicatesBounded, Copies
<1> DEFINE u == users[i].username
           p == users[i].password
<1>1. users[i] \in Account
  BY DEF IInv, Types
<1>2. /\ u \in { r.username : r \in Credentialed }
      /\ p \in { r.password : r \in Credentialed }
  BY <1>1 DEF Account
<1> HIDE DEF u, p
<1>3. Copies(u, p) + Cardinality(Adding(u, p)) <= Cardinality(Conn)
  BY <1>2 DEF CopiesBounded
<1>4. Copies(u, p) <= Cardinality(Conn)
  BY <1>3, AddingFinite, CopiesNatural
<1> QED
  BY <1>4 DEF u, p

\* However many clients register the same credentials at once, and however their
\* checks and their additions interleave, the user file never has more copies of
\* an account than there are connections.
THEOREM CopiesOfAccount == Spec => []DuplicatesBounded
<1>1. IInv /\ IInv' /\ CopiesBounded /\ [Next]_vars => CopiesBounded'
  BY NextCopies
<1> QED
  BY <1>1, InitCopies, BoundedDuplicates, Invariance, PTL DEF Spec

-----------------------------------------------------------------------------
(***************************************************************************)
(* The level of an account.                                                *)
(***************************************************************************)

\* An account is found by its own credentials.
LEMMA AccountFound ==
    ASSUME IInv, NEW i \in DOMAIN users
    PROVE  i \in WithCredentials(users, users[i].username, users[i].password)
  BY DEF WithCredentials, WithName

LEMMA AddedStable ==
    ASSUME IInv, NEW c \in Conn, RegisterAdded(c), NEW i \in DOMAIN users
    PROVE  LET u == users[i].username
               p == users[i].password
           IN  /\ check_credentials(users', u, p) # NotFound
               /\ LevelOf(users', u, p) = LevelOf(users, u, p)
<1> DEFINE u == users[i].username
           p == users[i].password
<1>1. PICK level \in RegisteredLevel :
          users' = add_user(users, Username(c), Password(c), level)
  BY DEF RegisterAdded, WriteUsers
<1>2. request[c] \in Credentialed
  BY RequestTyped, SMTT(60) DEF RegisterAdded, IInv, TypeOK
<1>3. [username |-> Username(c), password |-> Password(c), level |-> level] \in Account
  BY <1>2, AddTyped, LevelAssumption, ZenonT(60) DEF Username, Password, IInv, Types
<1>4. users \in Seq(Account)
  BY DEF IInv, Types
<1>5. WithCredentials(users, u, p) # {}
  BY AccountFound
<1> HIDE DEF u, p
<1>6. check_credentials(users, u, p) # NotFound
  BY <1>4, <1>5, LoginFinds
<1>7. /\ check_credentials(users', u, p) = check_credentials(users, u, p)
      /\ users'[check_credentials(users, u, p)] = users[check_credentials(users, u, p)]
  BY <1>1, <1>3, <1>4, <1>5, AddKeeps
<1> QED
  BY <1>6, <1>7 DEF u, p, LevelOf

LEMMA ChangedStable ==
    ASSUME IInv, NEW change \in ConsoleChange, Perm(change[1], change[2]),
           NEW i \in DOMAIN users, users[i].username # change[1]
    PROVE  LET u == users[i].username
               p == users[i].password
           IN  /\ check_credentials(users', u, p) # NotFound
               /\ LevelOf(users', u, p) = LevelOf(users, u, p)
<1> DEFINE u == users[i].username
           p == users[i].password
           k == check_credentials(users, u, p)
<1>1. change[2] \in Byte
  BY ConsoleAssumption DEF ANONYMOUS, USER, ADMIN, Byte
<1>2. users' = change_permissions(users, change[1], change[2])
  BY DEF Perm, WriteUsers
<1>3. users \in Seq(Account)
  BY DEF IInv, Types
<1>4. WithCredentials(users, u, p) # {} /\ u # change[1]
  BY AccountFound
<1> HIDE DEF u, p
<1>5. k # NotFound /\ k \in DOMAIN users /\ users[k].username = u
  BY <1>3, <1>4, LoginFinds
<1>6. users'[k] = users[k]
  BY <1>1, <1>2, <1>3, <1>4, <1>5, ChangeSame
<1>7. check_credentials(users', u, p) = k
  <2>1. WithCredentials(change_permissions(users, change[1], change[2]), u, p)
          = WithCredentials(users, u, p)
    BY <1>1, <1>3, ChangeSame
  <2> QED
    BY <1>2, <2>1 DEF check_credentials
<1> QED
  BY <1>5, <1>6, <1>7 DEF u, p, LevelOf

\* What a login is granted changes only when the console names its username: no
\* registration, of the same credentials or of others, hides an account or
\* changes its level, and no account is ever lost.
THEOREM Stable == Spec => AccountsStable
<1> DEFINE Kept(i) ==
        LET u == users[i].username
            p == users[i].password
        IN  \/ /\ check_credentials(users', u, p) # NotFound
               /\ LevelOf(users', u, p) = LevelOf(users, u, p)
            \/ \E change \in ConsoleChange : change[1] = u /\ Perm(change[1], change[2])
<1>1. ASSUME IInv, [Next]_vars, NEW i \in DOMAIN users PROVE vars' = vars \/ Kept(i)
  <2>1. ASSUME users' = users PROVE Kept(i)
    <3>1. users \in Seq(Account)
      BY <1>1 DEF IInv, Types
    <3>2. check_credentials(users, users[i].username, users[i].password) # NotFound
      BY <1>1, <3>1, AccountFound, LoginFinds
    <3> QED
      BY <2>1, <3>2 DEF LevelOf
  <2>2. ASSUME NEW c \in Conn, Client(c) \/ Handler(c) \/ Interrupted(c) PROVE Kept(i)
    <3>1. CASE RegisterChecked(c)
      BY <2>1, <3>1 DEF RegisterChecked
    <3>2. CASE RegisterAdded(c)
      BY <1>1, <3>2, AddedStable
    <3>3. CASE ~RegisterChecked(c) /\ ~RegisterAdded(c)
      BY <1>1, <2>1, <2>2, <3>3, OtherSteps
    <3> QED
      BY <3>1, <3>2, <3>3
  <2>3. ASSUME NEW change \in ConsoleChange, Perm(change[1], change[2]) PROVE Kept(i)
    <3>1. CASE users[i].username = change[1]
      BY <2>3, <3>1
    <3>2. CASE users[i].username # change[1]
      BY <1>1, <2>3, <3>2, ChangedStable
    <3> QED
      BY <3>1, <3>2
  <2>4. CASE PermInterrupted
    BY <2>1, <2>4 DEF PermInterrupted
  <2> QED
    BY <1>1, <2>2, <2>3, <2>4 DEF Next, Console
<1>2. IInv /\ [Next]_vars => [\A i \in DOMAIN users : Kept(i)]_vars
  BY <1>1
<1> QED
  BY <1>2, Invariance, PTL DEF Spec, AccountsStable
=============================================================================
