---------------------------- MODULE Terminal_proofs ----------------------------
(***************************************************************************)
(* What a request says, and where the reads of the prompts and the menus   *)
(* are in the input, whatever the user types.                              *)
(***************************************************************************)
EXTENDS Terminal, SequenceTheorems, TLAPS

\* At most one line is there to be read, up to its end.
EndsLine(s) ==
    s = << >> \/ (s[Len(s)] = NL /\ \A i \in 1 .. Len(s) - 1 : s[i] # NL)

Typed == Character \cup {NL}
Shown == Typed \cup {EOF}

Types ==
    /\ prompt \in Prompt \cup {"done"}
    /\ op # None => prompt \in Menu
    /\ stdin \in Seq(Typed) /\ EndsLine(stdin)
    /\ typed \in [Prompt -> Seq(Shown)]
    /\ in_step \in BOOLEAN
    /\ prompt \in {"name", "phone", "target"} => level = ADMIN

\* The prompt before each one that asks for the second field of a request.
Before == [ password     |-> "username",
            new_password |-> "new_username",
            phone        |-> "name",
            perm_level   |-> "perm_username" ]

\* The field read before: in step, it is the line typed at that prompt.
IsField(f, p) ==
    /\ f \in Seq(Typed) /\ Len(f) < Buffer[p]
    /\ p = "username" => Len(f) >= MIN_USERNAME_LEN
    /\ in_step => f = typed[p]

Gathered ==
    /\ prompt \in DOMAIN Before => got = <<got[1]>> /\ IsField(got[1], Before[prompt])
    /\ prompt \in Prompt \ DOMAIN Before => got = << >>

\* As long as the program and the user are in step, what is there to be read was
\* typed at the prompt that waits for it.
Synced ==
    in_step /\ stdin # << >> /\ prompt # "done" =>
        IF op = None THEN stdin = typed[prompt] \o <<NL>> /\ Fits(typed[prompt])
        ELSE stdin = <<NL>>

Inv == Types /\ Gathered /\ Synced /\ TypeOK /\ InStep

-----------------------------------------------------------------------------
(***************************************************************************)
(* What fgets takes.                                                       *)
(***************************************************************************)

LEMMA BufferSizes ==
    /\ \A p \in Field : Buffer[p] \in Nat /\ Buffer[p] >= 21
    /\ Field = {"username", "password", "new_username", "new_password", "name", "phone",
                "target", "query", "command", "perm_username", "perm_level"}
  BY DEF Buffer, Field, MAX_USERNAME_LEN, MAX_PASSWORD_LEN, MAX_CONTACT_NAME_LEN,
     MAX_PHONE_NUMBER_LENGTH

\* The end of the line, or as much as there is room for.
LEMMA FgetsTakes ==
    ASSUME stdin \in Seq(Typed), EndsLine(stdin), stdin # << >>, NEW n \in Nat, n > 1
    PROVE  Fgets(n) = IF n - 1 < Len(stdin) THEN n - 1 ELSE Len(stdin)
<1>1. Len(stdin) \in Nat /\ DOMAIN stdin = 1 .. Len(stdin) /\ Len(stdin) >= 1
  OBVIOUS
<1>2. { i \in DOMAIN stdin : stdin[i] = NL } = {Len(stdin)}
  BY <1>1 DEF EndsLine
<1>3. \A x : Min({x}) = x
  BY DEF Min
<1>4. \A a, b \in Nat : Min({a, b}) = IF a < b THEN a ELSE b
  BY DEF Min
<1>5. Min({ i \in DOMAIN stdin : stdin[i] = NL }) = Len(stdin)
  BY <1>2, <1>3
<1>6. Fgets(n) = Min({n - 1, Len(stdin)})
  BY <1>5 DEF Fgets
<1> QED
  BY <1>1, <1>4, <1>6

\* What fgets leaves, and what it returns: in step, the line and nothing.
LEMMA LineTaken ==
    ASSUME Inv, prompt \in Field, stdin # << >>
    PROVE  LET left == Drop(Fgets(Buffer[prompt]))
           IN  /\ Line \in Seq(Typed) /\ Len(Line) < Buffer[prompt]
               /\ left \in Seq(Typed) /\ EndsLine(left)
               /\ in_step => Line = typed[prompt] /\ left = << >>
<1> DEFINE b == Buffer[prompt]
           n == Fgets(b)
           left == Drop(n)
<1>1. stdin \in Seq(Typed) /\ EndsLine(stdin) /\ typed \in [Prompt -> Seq(Shown)]
  BY DEF Inv, Types
<1>2. b \in Nat /\ b >= 21
  BY BufferSizes
<1> HIDE DEF b
<1>3. n = IF b - 1 < Len(stdin) THEN b - 1 ELSE Len(stdin)
  BY <1>1, <1>2, FgetsTakes
<1>4. n \in 1 .. Len(stdin) /\ n <= b - 1 /\ Len(stdin) \in Nat
  BY <1>1, <1>2, <1>3
<1> HIDE DEF n
<1>5. Line \in Seq(Typed) /\ Len(Line) <= n
  <2>1. Line = SubSeq(stdin, 1, IF stdin[n] = NL THEN n - 1 ELSE n)
    BY DEF Line, n, b
  <2> QED
    BY <1>1, <1>4, <2>1
<1>6. left \in Seq(Typed) /\ EndsLine(left)
  <2>1. /\ left \in Seq(Typed) /\ Len(left) = Len(stdin) - n
        /\ \A i \in 1 .. Len(stdin) - n : left[i] = stdin[n + i]
    BY <1>1, <1>4 DEF Drop
  <2> HIDE DEF left
  <2>2. CASE n = Len(stdin)
    BY <1>4, <2>1, <2>2 DEF EndsLine
  <2>3. CASE n < Len(stdin)
    <3>1. left[Len(left)] = stdin[Len(stdin)]
      BY <1>4, <2>1, <2>3
    <3>2. \A i \in 1 .. Len(left) - 1 : left[i] = stdin[n + i] /\ n + i \in 1 .. Len(stdin) - 1
      BY <1>4, <2>1
    <3>3. stdin[Len(stdin)] = NL /\ \A j \in 1 .. Len(stdin) - 1 : stdin[j] # NL
      BY <1>1 DEF EndsLine
    <3>4. left[Len(left)] = NL /\ \A i \in 1 .. Len(left) - 1 : left[i] # NL
      BY <3>1, <3>2, <3>3
    <3> QED
      BY <2>1, <3>4 DEF EndsLine
  <2> QED
    BY <1>4, <2>2, <2>3
<1>7. ASSUME in_step PROVE Line = typed[prompt] /\ left = << >>
  <2>1. stdin = typed[prompt] \o <<NL>> /\ Fits(typed[prompt])
    BY <1>7, BufferSizes DEF Inv, Types, Synced, Menu
  <2> DEFINE line == typed[prompt]
  <2>2. line \in Seq(Shown) /\ Len(line) < b - 1
    BY <1>1, <2>1, BufferSizes DEF Fits, Menu, Prompt, b
  <2> HIDE DEF line
  <2>3. stdin = line \o <<NL>> /\ Len(stdin) = Len(line) + 1 /\ stdin[Len(line) + 1] = NL
    BY <2>1, <2>2 DEF line
  <2>4. n = Len(line) + 1
    BY <1>2, <1>3, <2>2, <2>3
  <2>5. Line = SubSeq(stdin, 1, Len(line))
    BY <2>2, <2>3, <2>4 DEF Line, n, b
  <2>6. SubSeq(stdin, 1, Len(line)) = line
    BY <2>2, <2>3
  <2>7. left = << >>
    BY <1>1, <2>3, <2>4, <2>2 DEF Drop
  <2> QED
    BY <2>5, <2>6, <2>7 DEF line
<1>8. Len(Line) < b
  BY <1>2, <1>4, <1>5
<1> QED
  BY <1>5, <1>6, <1>7, <1>8 DEF b, n

LEMMA Pair ==
    ASSUME NEW a, NEW b
    PROVE  <<a>> \o <<b>> = <<a, b>> /\ Append(<<a>>, b) = <<a, b>>
<1> DEFINE S == {a, b}
<1>1. a \in S /\ b \in S /\ <<a>> \in Seq(S) /\ <<b>> \in Seq(S)
  OBVIOUS
<1> HIDE DEF S
<1>2. /\ Append(<<a>>, b) \in Seq(S) /\ Len(Append(<<a>>, b)) = 2
      /\ Append(<<a>>, b)[1] = a /\ Append(<<a>>, b)[2] = b
  BY <1>1
<1>3. <<a, b>> \in Seq(S) /\ Len(<<a, b>>) = 2 /\ <<a, b>>[1] = a /\ <<a, b>>[2] = b
  BY <1>1
<1>4. Append(<<a>>, b) = <<a, b>>
  <2>1. \A i \in 1 .. Len(Append(<<a>>, b)) : Append(<<a>>, b)[i] = <<a, b>>[i]
    BY <1>2, <1>3
  <2> QED
    BY <1>2, <1>3, <2>1, SeqEqual
<1>5. <<a>> \o <<b>> = Append(<<a>>, b)
  BY <1>1, AppendIsConcat
<1> QED
  BY <1>4, <1>5

-----------------------------------------------------------------------------
(***************************************************************************)
(* The steps that read a field.                                            *)
(***************************************************************************)

LEMMA RequestStays ==
    ASSUME Inv, UNCHANGED <<request, typed, in_step, level>>,
           prompt' \in Prompt \cup {"done"}
    PROVE  TypeOK' /\ InStep'
<1>1. TypeOK /\ InStep
  BY DEF Inv
<1>2. TypeOK'
  BY <1>1 DEF TypeOK
<1>3. AsTyped => AsTyped'
  BY DEF AsTyped
<1> QED
  BY <1>1, <1>2, <1>3 DEF InStep

\* A read leaves the end of a line, or nothing if it was in step.
LEMMA ReadsLine ==
    ASSUME Inv, NEW p \in Field, Reads(p), prompt' \in Prompt \cup {"done"},
           prompt' \in {"name", "phone", "target"} => level' = ADMIN
    PROVE  /\ Line \in Seq(Typed) /\ Len(Line) < Buffer[p]
           /\ in_step => Line = typed[p]
           /\ Types' /\ Synced'
<1>1. prompt = p /\ stdin # << >> /\ stdin' = Drop(Fgets(Buffer[p]))
      /\ UNCHANGED <<op, eof, typed, in_step>>
  BY DEF Reads
<1>2. /\ Line \in Seq(Typed) /\ Len(Line) < Buffer[p]
      /\ stdin' \in Seq(Typed) /\ EndsLine(stdin')
      /\ in_step => Line = typed[p] /\ stdin' = << >>
  BY <1>1, LineTaken
<1>3. op = None
  BY <1>1, BufferSizes DEF Inv, Types, Menu
<1>4. Types'
  BY <1>1, <1>2, <1>3 DEF Inv, Types
<1>5. Synced'
  BY <1>1, <1>2 DEF Synced
<1> QED
  BY <1>2, <1>4, <1>5

\* The first of two fields is read.
LEMMA LeadsOn ==
    ASSUME Inv, NEW q \in DOMAIN Before, Reads(Before[q]), Leads(q, <<Line>>),
           q = "password" => Len(Line) >= MIN_USERNAME_LEN
    PROVE  Inv'
<1>1. Before[q] \in Field /\ q \in Prompt
  BY BufferSizes DEF Before, Prompt
<1>2. prompt = Before[q] /\ prompt' = q /\ got' = <<Line>>
      /\ UNCHANGED <<level, request, typed, in_step>>
  BY DEF Reads, Leads
<1>3. prompt' \in {"name", "phone", "target"} => level' = ADMIN
  BY <1>2 DEF Inv, Types, Before
<1>4. /\ Line \in Seq(Typed) /\ Len(Line) < Buffer[Before[q]]
      /\ in_step => Line = typed[Before[q]]
      /\ Types' /\ Synced'
  BY <1>1, <1>2, <1>3, ReadsLine
<1>5. Before[q] = "username" => q = "password"
  BY DEF Before
<1>6. got' = <<got'[1]>> /\ IsField(got[1], Before[q])'
  BY <1>2, <1>4, <1>5 DEF IsField
<1>7. Gathered'
  BY <1>2, <1>6 DEF Gathered
<1>8. TypeOK' /\ InStep'
  BY <1>1, <1>2, RequestStays
<1> QED
  BY <1>4, <1>7, <1>8 DEF Inv

\* A field is read that leads to no other one.
LEMMA LeadsBack ==
    ASSUME Inv, NEW p \in Field, Reads(p), NEW q \in {"username", "command", "perm_username", "done"},
           Leads(q, << >>)
    PROVE  Inv'
<1>1. q \in Prompt \cup {"done"} /\ q \notin DOMAIN Before
  BY BufferSizes DEF Before, Prompt
<1>2. prompt' = q /\ got' = << >> /\ UNCHANGED <<level, request, typed, in_step>>
  BY DEF Reads, Leads
<1>3. Types' /\ Synced'
  BY <1>1, <1>2, ReadsLine
<1>4. Gathered'
  BY <1>1, <1>2 DEF Gathered
<1>5. TypeOK' /\ InStep'
  BY <1>1, <1>2, RequestStays
<1> QED
  BY <1>3, <1>4, <1>5 DEF Inv

\* Where the answers to the requests lead.
Outset == {"username", "new_username", "menu", "command", "done"}

\* A request of two fields is made.
LEMMA AsksTwo ==
    ASSUME Inv, NEW p \in DOMAIN Before, Reads(p), NEW what \in DOMAIN PromptsOf,
           PromptsOf[what] = <<Before[p], p>>, what # "PERM",
           NEW next \in SUBSET Outset, Asks(what, got \o <<Line>>, next),
           what = "INSERT" => level' = ADMIN
    PROVE  Inv'
<1>1. p \in Field /\ Before[p] \in Field /\ Outset \subseteq Prompt \cup {"done"}
  BY BufferSizes DEF Before, Prompt, Menu, Outset
<1>2. /\ prompt = p /\ prompt' \in Outset /\ got' = << >>
      /\ request' = [op |-> what, fields |-> got \o <<Line>>]
      /\ UNCHANGED <<typed, in_step>>
  BY DEF Reads, Asks
<1>3. /\ Line \in Seq(Typed) /\ Len(Line) < Buffer[p]
      /\ in_step => Line = typed[p]
      /\ Types' /\ Synced'
  BY <1>1, <1>2, ReadsLine DEF Outset
<1>4. got = <<got[1]>> /\ IsField(got[1], Before[p])
  BY <1>2 DEF Inv, Gathered
<1>5. request'.op = what /\ request'.fields = <<got[1], Line>>
  <2>1. got \o <<Line>> = <<got[1], Line>>
    BY <1>4, Pair
  <2> QED
    BY <1>2, <2>1
<1>6. Gathered'
  BY <1>2 DEF Gathered, Outset, Before
<1>7. TypeOK'
  <2>1. /\ what = "LOGIN" => Before[p] = "username" /\ p = "password"
        /\ what = "REGISTER" => Before[p] = "new_username" /\ p = "new_password"
        /\ what = "INSERT" => Before[p] = "name" /\ p = "phone"
        /\ what \notin {"DELETE", "SEARCH"}
    BY DEF PromptsOf
  <2>2. Len(got[1]) < Buffer[Before[p]] /\ Len(got[1]) \in Nat /\ Len(Line) \in Nat
    BY <1>3, <1>4 DEF IsField
  <2>3. /\ Buffer["username"] = MAX_USERNAME_LEN + 1
        /\ Buffer["password"] = MAX_PASSWORD_LEN + 1
        /\ Buffer["new_username"] = MAX_USERNAME_LEN + 1
        /\ Buffer["new_password"] = MAX_PASSWORD_LEN + 1
        /\ Buffer["name"] = MAX_CONTACT_NAME_LEN + 1
        /\ Buffer["phone"] = MAX_PHONE_NUMBER_LENGTH + 1
        /\ {MAX_USERNAME_LEN, MAX_PASSWORD_LEN, MAX_CONTACT_NAME_LEN, MAX_PHONE_NUMBER_LENGTH}
             \subseteq Nat
    BY DEF Buffer, MAX_USERNAME_LEN, MAX_PASSWORD_LEN, MAX_CONTACT_NAME_LEN,
       MAX_PHONE_NUMBER_LENGTH
  <2>4. request'.fields[1] = got[1] /\ request'.fields[2] = Line
    BY <1>5
  <2>5. prompt' \in Prompt \cup {"done"}
    BY <1>1, <1>2
  <2>6. what = "LOGIN" => Len(got[1]) >= MIN_USERNAME_LEN
    BY <1>4, <2>1 DEF IsField
  <2>7. CASE what = "LOGIN"
    BY <1>3, <1>5, <2>1, <2>2, <2>3, <2>4, <2>5, <2>6, <2>7 DEF TypeOK
  <2>8. CASE what = "REGISTER"
    BY <1>3, <1>5, <2>1, <2>2, <2>3, <2>4, <2>5, <2>8 DEF TypeOK
  <2>9. CASE what = "INSERT"
    BY <1>3, <1>5, <2>1, <2>2, <2>3, <2>4, <2>5, <2>9 DEF TypeOK
  <2>10. CASE what \notin {"LOGIN", "REGISTER", "INSERT"}
    BY <1>5, <2>1, <2>5, <2>10 DEF TypeOK
  <2> QED
    BY <2>7, <2>8, <2>9, <2>10
<1>8. in_step => AsTyped'
  <2>1. ASSUME in_step
        PROVE  request'.fields[1] = typed'[Before[p]] /\ request'.fields[2] = typed'[p]
    BY <1>2, <1>3, <1>4, <1>5, <2>1 DEF IsField
  <2>2. PromptsOf[request'.op] = <<Before[p], p>> /\ request'.op # "PERM"
    BY <1>5
  <2>3. DOMAIN request'.fields = {1, 2}
    BY <1>5
  <2> QED
    BY <2>1, <2>2, <2>3 DEF AsTyped
<1>9. InStep'
  BY <1>2, <1>8 DEF InStep
<1> QED
  BY <1>3, <1>6, <1>7, <1>9 DEF Inv

\* A request of one field is made.
LEMMA AsksOne ==
    ASSUME Inv, NEW p \in {"target", "query"}, Reads(p), NEW what \in {"DELETE", "SEARCH"},
           PromptsOf[what] = <<p>>,
           NEW next \in SUBSET Outset, Asks(what, <<Line>>, next),
           what = "DELETE" => level' = ADMIN
    PROVE  Inv'
<1>1. p \in Field /\ Outset \subseteq Prompt \cup {"done"}
  BY BufferSizes DEF Prompt, Menu, Outset
<1>2. /\ prompt = p /\ prompt' \in Outset /\ got' = << >>
      /\ request' = [op |-> what, fields |-> <<Line>>]
      /\ UNCHANGED <<typed, in_step>>
  BY DEF Reads, Asks
<1>3. /\ in_step => Line = typed[p]
      /\ Types' /\ Synced'
  BY <1>1, <1>2, ReadsLine DEF Outset
<1>4. Gathered'
  BY <1>2 DEF Gathered, Outset, Before
<1>5. TypeOK'
  <2>1. Len(Line) \in Nat /\ Len(Line) < Buffer[p] /\ Buffer[p] = MAX_CONTACT_NAME_LEN + 1
    BY <1>1, <1>2, LineTaken DEF Reads, Buffer
  <2>2. Len(Line) <= MAX_CONTACT_NAME_LEN
    BY <2>1 DEF MAX_CONTACT_NAME_LEN
  <2>3. request'.op = what /\ request'.fields[1] = Line
    BY <1>2
  <2> QED
    BY <1>1, <1>2, <2>2, <2>3 DEF TypeOK
<1>6. in_step => AsTyped'
  <2>1. request'.fields = <<Line>> /\ request'.op = what
    BY <1>2
  <2>2. in_step => request'.fields[1] = typed'[p]
    BY <1>2, <1>3, <2>1
  <2>3. PromptsOf[request'.op][1] = p /\ request'.op # "PERM"
    BY <2>1
  <2> QED
    BY <2>1, <2>2, <2>3 DEF AsTyped
<1>7. InStep'
  BY <1>2, <1>6 DEF InStep
<1> QED
  BY <1>3, <1>4, <1>5, <1>7 DEF Inv

\* The console changes a level: the first character of the second line.
LEMMA AsksPerm ==
    ASSUME Inv, Reads("perm_level"), Asks("PERM", Append(got, <<Head(Line)>>), {"command"})
    PROVE  Inv'
<1>1. /\ prompt = "perm_level" /\ prompt' = "command" /\ got' = << >>
      /\ request' = [op |-> "PERM", fields |-> Append(got, <<Head(Line)>>)]
      /\ UNCHANGED <<typed, in_step>>
  BY DEF Reads, Asks
<1>2. {"perm_level", "command"} \subseteq Field
  BY BufferSizes
<1>3. in_step => Line = typed["perm_level"]
  BY <1>1, <1>2, ReadsLine DEF Prompt
<1>4. Types' /\ Synced'
  BY <1>1, <1>2, ReadsLine DEF Prompt
<1>5. /\ got = <<got[1]>> /\ (in_step => got[1] = typed["perm_username"])
      /\ got[1] \in Seq(Typed) /\ Len(got[1]) < Buffer["perm_username"]
  BY <1>1 DEF Inv, Gathered, IsField, Before
<1>6. request'.op = "PERM" /\ request'.fields = <<got[1], <<Head(Line)>>>>
  <2>1. Append(got, <<Head(Line)>>) = <<got[1], <<Head(Line)>>>>
    BY <1>5, Pair
  <2> QED
    BY <1>1, <2>1
<1>7. Gathered'
  BY <1>1 DEF Gathered, Before
<1>8. TypeOK'
  <2>1. Len(got[1]) < MAX_USERNAME_LEN
    BY <1>5 DEF Buffer
  <2> QED
    BY <1>1, <1>2, <1>6, <2>1 DEF TypeOK, Prompt
<1>9. in_step => AsTyped'
  <2>1. DOMAIN request'.fields = {1, 2}
    BY <1>6
  <2>2. /\ PromptsOf["PERM"][1] = "perm_username"
        /\ PromptsOf["PERM"][2] = "perm_level"
    BY DEF PromptsOf
  <2> QED
    BY <1>1, <1>3, <1>5, <1>6, <2>1, <2>2 DEF AsTyped
<1>10. InStep'
  BY <1>1, <1>9 DEF InStep
<1> QED
  BY <1>4, <1>7, <1>8, <1>10 DEF Inv

LEMMA FieldInv ==
    ASSUME Inv,
           \/ ReadUsername \/ ReadPassword \/ ReadNewUsername \/ ReadNewPassword
           \/ ReadName \/ ReadPhone \/ ReadTarget \/ ReadQuery
           \/ ReadCommand \/ ReadPermUsername \/ ReadPermLevel
    PROVE  Inv'
<1>1. CASE ReadUsername
  <2>1. CASE Len(Line) < MIN_USERNAME_LEN
    BY <1>1, <2>1, LeadsBack, BufferSizes DEF ReadUsername
  <2>2. CASE ~(Len(Line) < MIN_USERNAME_LEN)
    <3>1. Reads("username") /\ Leads("password", <<Line>>)
      BY <1>1, <2>2 DEF ReadUsername
    <3>2. Len(Line) \in Nat
      BY <3>1, LineTaken, BufferSizes DEF Reads
    <3>3. Len(Line) >= MIN_USERNAME_LEN
      BY <2>2, <3>2 DEF MIN_USERNAME_LEN
    <3> QED
      BY <3>1, <3>3, LeadsOn DEF Before
  <2> QED
    BY <2>1, <2>2
<1>2. CASE ReadNewUsername
  BY <1>2, LeadsOn DEF ReadNewUsername, Before
<1>3. CASE ReadName
  BY <1>3, LeadsOn DEF ReadName, Before
<1>4. CASE ReadPermUsername
  BY <1>4, LeadsOn DEF ReadPermUsername, Before
<1>5. CASE ReadCommand
  BY <1>5, LeadsBack, BufferSizes DEF ReadCommand
<1>6. CASE ReadPassword
  <2>1. PICK next \in SUBSET Outset : Asks("LOGIN", got \o <<Line>>, next)
    BY <1>6 DEF ReadPassword, AfterLogin, Outset
  <2> QED
    BY <1>6, <2>1, AsksTwo DEF ReadPassword, Before, PromptsOf
<1>7. CASE ReadNewPassword
  <2>1. Asks("REGISTER", got \o <<Line>>, {"done", "new_username"})
    BY <1>7 DEF ReadNewPassword
  <2> QED
    BY <1>7, <2>1, AsksTwo DEF ReadNewPassword, Before, PromptsOf, Outset
<1>8. CASE ReadPhone
  <2>1. Asks("INSERT", got \o <<Line>>, {"done", "menu"}) /\ Reads("phone")
    BY <1>8 DEF ReadPhone
  <2>2. level' = ADMIN
    BY <1>8 DEF ReadPhone, Reads, Inv, Types
  <2> QED
    BY <2>1, <2>2, AsksTwo DEF Before, PromptsOf, Outset
<1>9. CASE ReadTarget
  <2>1. level' = ADMIN
    BY <1>9 DEF ReadTarget, Reads, Inv, Types
  <2> QED
    BY <1>9, <2>1, AsksOne DEF ReadTarget, PromptsOf, Outset
<1>10. CASE ReadQuery
  BY <1>10, AsksOne DEF ReadQuery, PromptsOf, Outset
<1>11. CASE ReadPermLevel
  <2>1. CASE Line # << >> /\ Head(Line) \in {"0", "1", "2"}
    BY <1>11, <2>1, AsksPerm DEF ReadPermLevel
  <2>2. CASE ~(Line # << >> /\ Head(Line) \in {"0", "1", "2"})
    BY <1>11, <2>2, LeadsBack, BufferSizes DEF ReadPermLevel
  <2> QED
    BY <2>1, <2>2
<1> QED
  BY <1>1, <1>2, <1>3, <1>4, <1>5, <1>6, <1>7, <1>8, <1>9, <1>10, <1>11

-----------------------------------------------------------------------------
(***************************************************************************)
(* The steps of the menus and of the user.                                 *)
(***************************************************************************)

\* One character less.
LEMMA DropOne ==
    ASSUME NEW S, NEW s \in Seq(S), EndsLine(s)
    PROVE  /\ SubSeq(s, 2, Len(s)) \in Seq(S) /\ EndsLine(SubSeq(s, 2, Len(s)))
           /\ s = << >> => SubSeq(s, 2, Len(s)) = << >>
<1> DEFINE left == SubSeq(s, 2, Len(s))
<1>1. CASE s = << >>
  BY <1>1 DEF EndsLine
<1>2. CASE s # << >>
  <2>1. Len(s) \in Nat /\ Len(s) >= 1
    BY <1>2
  <2>2. /\ left \in Seq(S) /\ Len(left) = Len(s) - 1
        /\ \A i \in 1 .. Len(s) - 1 : left[i] = s[i + 1]
    BY <1>2, TailIsSubSeq, HeadTailProperties
  <2> HIDE DEF left
  <2>3. s[Len(s)] = NL /\ \A j \in 1 .. Len(s) - 1 : s[j] # NL
    BY <1>2 DEF EndsLine
  <2>4. EndsLine(left)
    <3>1. CASE Len(s) = 1
      BY <2>2, <3>1 DEF EndsLine
    <3>2. CASE Len(s) > 1
      <4>1. left[Len(left)] = s[Len(s)]
        BY <2>1, <2>2, <3>2
      <4>2. \A i \in 1 .. Len(left) - 1 : left[i] = s[i + 1] /\ i + 1 \in 1 .. Len(s) - 1
        BY <2>1, <2>2
      <4>3. left[Len(left)] = NL /\ \A i \in 1 .. Len(left) - 1 : left[i] # NL
        BY <2>3, <4>1, <4>2
      <4> QED
        BY <2>2, <4>3 DEF EndsLine
    <3>3. \A k \in Nat : k >= 1 => k = 1 \/ k > 1
      OBVIOUS
    <3> QED
      BY <2>1, <3>1, <3>2, <3>3
  <2> QED
    BY <1>2, <2>2, <2>4 DEF left
<1> QED
  BY <1>1, <1>2

\* What is left of a choice of one character is the end of its line.
LEMMA LastOfTwo ==
    ASSUME NEW s \in Seq(Typed), Len(s) = 2, s[2] = NL
    PROVE  SubSeq(s, 2, Len(s)) = <<NL>>
<1>1. s # << >>
  OBVIOUS
<1>2. SubSeq(s, 2, Len(s)) = Tail(s)
  BY <1>1, TailIsSubSeq
<1>3. Tail(s) \in Seq(Typed) /\ Len(Tail(s)) = 1 /\ Tail(s)[1] = NL
  <2>1. /\ Tail(s) \in Seq(Typed) /\ Len(Tail(s)) = Len(s) - 1
        /\ \A i \in 1 .. Len(Tail(s)) : Tail(s)[i] = s[i + 1]
    BY <1>1, HeadTailProperties
  <2>2. Len(Tail(s)) = 1 /\ Tail(s)[1] = s[1 + 1]
    BY <2>1
  <2> QED
    BY <2>1, <2>2
<1>4. <<NL>> \in Seq(Typed) /\ Len(<<NL>>) = 1 /\ <<NL>>[1] = NL
  BY DEF Typed
<1>5. ASSUME NEW i \in 1 .. 1 PROVE Tail(s)[i] = <<NL>>[i]
  BY <1>3, <1>4
<1> QED
  BY <1>2, <1>3, <1>4, <1>5, SeqEqual

LEMMA MenuReadsInv ==
    ASSUME Inv, MenuReads
    PROVE  Inv'
<1> USE DEF MenuReads
<1>1. stdin \in Seq(Typed) /\ EndsLine(stdin) /\ prompt \in Prompt
  BY DEF Inv, Types, Prompt
<1>2. /\ stdin' \in Seq(Typed) /\ EndsLine(stdin')
      /\ stdin = << >> => stdin' = << >>
  BY <1>1, DropOne DEF Drop
<1>3. Types'
  BY <1>2 DEF Inv, Types
<1>4. Gathered'
  BY DEF Inv, Gathered, IsField
<1>5. Synced'
  <2>1. SUFFICES ASSUME in_step, stdin # << >>
                 PROVE  op' # None /\ stdin' = <<NL>>
    BY <1>2 DEF Synced
  <2>2. stdin = typed[prompt] \o <<NL>> /\ Len(typed[prompt]) = 1
    BY <1>1, <2>1 DEF Inv, Synced, Fits, Prompt, Menu
  <2>3. typed[prompt] \in Seq(Shown)
    BY <1>1 DEF Inv, Types
  <2>4. Len(stdin) = 2 /\ stdin[2] = NL
    BY <2>2, <2>3
  <2>5. Head(stdin) \in Typed
    BY <1>1, <2>1
  <2>6. None \notin Typed
    BY DEF Typed, Character, None, NL
  <2>7. Drop(1) = <<NL>>
    <3>1. Drop(1) = SubSeq(stdin, 2, Len(stdin))
      BY DEF Drop
    <3> QED
      BY <1>1, <2>4, <3>1, LastOfTwo
  <2> QED
    BY <2>1, <2>4, <2>5, <2>6, <2>7
<1>6. TypeOK' /\ InStep'
  BY <1>1, RequestStays
<1> QED
  BY <1>3, <1>4, <1>5, <1>6 DEF Inv

LEMMA MenuSwallowsInv ==
    ASSUME Inv, MenuSwallows
    PROVE  Inv'
<1> USE DEF MenuSwallows
<1>1. stdin \in Seq(Typed) /\ EndsLine(stdin) /\ prompt \in Prompt \ DOMAIN Before
  BY BufferSizes DEF Inv, Types, Prompt, Menu, Before
<1>2. /\ stdin' \in Seq(Typed) /\ EndsLine(stdin')
      /\ stdin = << >> => stdin' = << >>
  BY <1>1, DropOne DEF Drop
<1>3. prompt' \in Prompt \cup {"done"} /\ prompt' \notin DOMAIN Before
  BY BufferSizes DEF Choice, AuthChoice, OperationChoice, Prompt, Menu, Before
<1>4. prompt' \in {"name", "phone", "target"} => level' = ADMIN
  BY DEF Choice, AuthChoice, OperationChoice
<1>5. Types'
  BY <1>2, <1>3, <1>4 DEF Inv, Types
<1>6. Gathered'
  BY <1>1, <1>3 DEF Inv, Gathered
<1>7. Synced'
  <2>1. SUFFICES ASSUME in_step, stdin # << >>
                 PROVE  stdin' = << >>
    BY <1>2 DEF Synced
  <2>2. stdin = <<NL>>
    BY <1>1, <2>1 DEF Inv, Synced, Prompt, Menu
  <2> QED
    BY <1>1, <2>2, TailIsSubSeq DEF Drop
<1>8. TypeOK' /\ InStep'
  BY <1>3, RequestStays
<1> QED
  BY <1>5, <1>6, <1>7, <1>8 DEF Inv

LEMMA EndInv ==
    ASSUME Inv, CloseInput \/ ReadNothing
    PROVE  Inv'
<1>1. /\ prompt' \in {prompt, "done"}
      /\ UNCHANGED <<op, stdin, got, level, request, typed, in_step>>
      /\ prompt' = "done" => stdin = << >> /\ (prompt = "done" \/ prompt \in Field)
  BY DEF CloseInput, ReadNothing, AtEnd, Waiting
<1>2. Types'
  BY <1>1, BufferSizes DEF Inv, Types, Menu
<1>3. Gathered'
  <2>1. "done" \notin Prompt /\ "done" \notin DOMAIN Before
    BY BufferSizes DEF Prompt, Menu, Before
  <2>2. \A f, p : IsField(f, p)' <=> IsField(f, p)
    BY <1>1 DEF IsField
  <2>3. Gathered
    BY DEF Inv
  <2>4. got' = got /\ (prompt' = prompt \/ prompt' = "done")
    BY <1>1
  <2> QED
    BY <2>1, <2>2, <2>3, <2>4 DEF Gathered
<1>4. Synced'
  BY <1>1 DEF Inv, Synced, Fits
<1>5. TypeOK' /\ InStep'
  BY <1>1, RequestStays DEF Inv, Types
<1> QED
  BY <1>2, <1>3, <1>4, <1>5 DEF Inv

LEMMA UntypedSet == Untyped \in [Prompt -> Seq(Shown)]
<1>1. EOF \in Shown
  BY DEF Shown
<1>2. <<EOF>> \in Seq(Shown)
  BY <1>1
<1> QED
  BY <1>2 DEF Untyped

LEMMA TypeInv ==
    ASSUME Inv, prompt # "done", NEW line \in Lines[prompt], Type(line)
    PROVE  Inv'
<1> USE DEF Type, Waiting
<1>1. prompt \in Prompt /\ line \in Seq(Character) /\ typed \in [Prompt -> Seq(Shown)]
  BY LinesAssumption DEF Inv, Types
<1>2. stdin' = line \o <<NL>> /\ stdin' \in Seq(Typed) /\ EndsLine(stdin')
  <2>1. line \in Seq(Typed) /\ <<NL>> \in Seq(Typed)
    BY <1>1, SeqMonotonic DEF Typed
  <2>2. \A i \in 1 .. Len(line) : line[i] # NL
    BY <1>1 DEF Character
  <2>3. /\ stdin' \in Seq(Typed) /\ Len(stdin') = Len(line) + 1 /\ Len(line) \in Nat
        /\ stdin'[Len(line) + 1] = NL
        /\ \A i \in 1 .. Len(line) : stdin'[i] = line[i]
    BY <2>1
  <2>4. stdin'[Len(stdin')] = NL /\ \A i \in 1 .. Len(stdin') - 1 : stdin'[i] # NL
    BY <2>2, <2>3
  <2> QED
    BY <2>3, <2>4 DEF EndsLine
<1>3. /\ typed' \in [Prompt -> Seq(Shown)] /\ typed'[prompt] = line
      /\ got # << >> => \A q \in Prompt \ {prompt} : typed'[q] = typed[q]
  <2>1. line \in Seq(Shown)
    BY <1>1, SeqMonotonic DEF Shown, Typed
  <2> QED
    BY <1>1, <2>1, UntypedSet
<1>4. in_step' \in BOOLEAN /\ (in_step' => Fits(line) /\ op = None /\ (got = << >> \/ in_step))
  BY DEF Fits
<1>5. Types'
  BY <1>2, <1>3, <1>4 DEF Inv, Types
<1>6. Gathered'
  <2>1. CASE prompt \in DOMAIN Before
    <3>1. got = <<got[1]>> /\ IsField(got[1], Before[prompt])
      BY <2>1 DEF Inv, Gathered
    <3>2. got # << >>
      <4>1. \A x : <<x>> # << >>
        OBVIOUS
      <4> QED
        BY <3>1, <4>1
    <3>3. Before[prompt] \in Prompt \ {prompt}
      BY <2>1, BufferSizes DEF Before, Prompt
    <3>4. IsField(got[1], Before[prompt])'
      BY <1>3, <1>4, <3>1, <3>2, <3>3 DEF IsField
    <3> QED
      BY <2>1, <3>1, <3>4 DEF Gathered
  <2>2. CASE prompt \notin DOMAIN Before
    BY <1>1, <2>2 DEF Inv, Gathered
  <2> QED
    BY <2>1, <2>2
<1>7. Synced'
  BY <1>2, <1>3, <1>4 DEF Synced, Fits
<1>8. TypeOK'
  BY <1>1 DEF TypeOK, NoRequest, None
<1>9. InStep'
  BY DEF InStep
<1> QED
  BY <1>5, <1>6, <1>7, <1>8, <1>9 DEF Inv

LEMMA InitInv == Init => Inv
<1> SUFFICES ASSUME Init PROVE Inv
  OBVIOUS
<1> USE DEF Init
<1>1. prompt \in {"auth", "command"}
  OBVIOUS
<1>2. prompt \in Prompt /\ prompt \notin DOMAIN Before
  BY <1>1, BufferSizes DEF Prompt, Menu, Before
<1>3. Untyped \in [Prompt -> Seq(Shown)]
  BY UntypedSet
<1>4. Types
  BY <1>1, <1>2, <1>3 DEF Types, EndsLine
<1>5. Gathered /\ Synced /\ InStep
  BY <1>2 DEF Gathered, Synced, InStep
<1>6. TypeOK
  BY <1>2 DEF TypeOK, NoRequest, None
<1> QED
  BY <1>4, <1>5, <1>6 DEF Inv

LEMMA NextInv == Inv /\ [Next]_vars => Inv'
<1> SUFFICES ASSUME Inv, [Next]_vars PROVE Inv'
  OBVIOUS
<1>1. CASE UNCHANGED vars
  BY <1>1 DEF vars, Inv, Types, Gathered, IsField, Synced, Fits, TypeOK, InStep, AsTyped
<1>2. CASE Read
  BY <1>2, MenuReadsInv, MenuSwallowsInv, FieldInv, EndInv DEF Read
<1>3. CASE User
  BY <1>3, EndInv, TypeInv DEF User
<1> QED
  BY <1>1, <1>2, <1>3 DEF Next

LEMMA Invariance == Spec => []Inv
  BY InitInv, NextInv, PTL DEF Spec

-----------------------------------------------------------------------------
(***************************************************************************)
(* The theorems.                                                           *)
(***************************************************************************)

\* No field of a request is longer than its buffer holds, no username is too short to
\* log in, and only an administrator's program asks for a change of the contacts,
\* whatever is typed, at whichever prompt.
THEOREM TypeCorrect == Spec => []TypeOK
  BY Invariance, PTL DEF Inv

\* A request says what was typed at its prompts, if every line fitted its buffer and
\* every choice was one character.
THEOREM SaysWhatWasTyped == Spec => []InStep
  BY Invariance, PTL DEF Inv

\* One character less: two of them are the choice and the end, or the other way round.
LEMMA OneLess ==
    ASSUME Inv
    PROVE  /\ Len(stdin) \in Nat
           /\ stdin # << >> => Len(Drop(1)) = Len(stdin) - 1 /\ Len(stdin) > 0
<1>1. stdin \in Seq(Typed)
  BY DEF Inv, Types
<1>2. ASSUME stdin # << >> PROVE Len(Drop(1)) = Len(stdin) - 1 /\ Len(stdin) > 0
  <2>1. Drop(1) = Tail(stdin)
    BY <1>1, <1>2, TailIsSubSeq DEF Drop
  <2> QED
    BY <1>1, <1>2, <2>1, HeadTailProperties
<1> QED
  BY <1>1, <1>2

LEMMA StepPhase ==
    ASSUME Inv, [Next]_vars, MenuStays
    PROVE  Slipped' = (IF EvenLineComes THEN ~Slipped ELSE Slipped)
<1> DEFINE n == Len(stdin)
           m == Len(stdin')
<1>1. /\ prompt \in Menu /\ prompt \notin Field /\ prompt # "done"
      /\ prompt' \in Menu /\ ~eof' /\ None # EOF
  BY BufferSizes DEF MenuStays, Menu, None, EOF
<1>2. n \in Nat
  BY OneLess
<1>3. CASE UNCHANGED vars
  <2>1. n = m /\ op' = op /\ (stdin = << >> => m = 0)
    BY <1>3 DEF vars
  <2>2. ~EvenLineComes
    BY <2>1 DEF EvenLineComes
  <2> QED
    BY <1>1, <2>1, <2>2 DEF Slipped
<1>4. CASE MenuReads
  <2>1. stdin # << >> /\ op = None /\ op' = Head(stdin) /\ stdin' = Drop(1)
    BY <1>1, <1>4 DEF MenuReads
  <2>2. op' # None
    <3>1. stdin \in Seq(Typed) /\ Head(stdin) \in Typed
      BY <2>1, HeadTailProperties DEF Inv, Types
    <3> QED
      BY <2>1, <3>1 DEF Typed, Character, NL, None
  <2>3. m = n - 1 /\ n > 0
    BY <2>1, OneLess
  <2>4. m + 1 = n + 0
    BY <1>2, <2>3
  <2> QED
    BY <1>1, <2>1, <2>2, <2>4 DEF Slipped, EvenLineComes
<1>5. CASE MenuSwallows
  <2>1. stdin # << >> /\ op # None /\ op' = None /\ stdin' = Drop(1)
    BY <1>1, <1>5 DEF MenuSwallows
  <2>2. m = n - 1 /\ n > 0
    BY <2>1, OneLess
  <2>3. (m + 0) % 2 = 1 <=> (n + 1) % 2 = 1
    BY <1>2, <2>2
  <2> QED
    BY <1>1, <2>1, <2>3 DEF Slipped, EvenLineComes
<1>6. CASE User
  <2>1. PICK line \in Lines[prompt] : Type(line)
    BY <1>1, <1>6 DEF User, CloseInput
  <2>2. stdin = << >> /\ op' = op /\ stdin' = line \o <<NL>>
    BY <2>1 DEF Type, Waiting
  <2>3. m \in Nat /\ n = 0
    <3>1. line \in Seq(Character) /\ <<NL>> \in Seq(Typed) /\ Character \subseteq Typed
      BY <1>1, LinesAssumption DEF Prompt, Typed
    <3>2. line \in Seq(Typed)
      BY <3>1
    <3>3. stdin' \in Seq(Typed)
      BY <2>2, <3>1, <3>2, ConcatProperties
    <3> QED
      BY <2>2, <3>3
  <2>4. m % 2 = 1 <=> (m + 1) % 2 # 1
    BY <2>3
  <2>5. (n + 0) % 2 = 0 /\ (n + 1) % 2 = 1 /\ m + 0 = m
    BY <2>3
  <2> QED
    BY <1>1, <2>2, <2>4, <2>5 DEF Slipped, EvenLineComes
<1>7. CASE Read /\ ~MenuReads /\ ~MenuSwallows
  BY <1>1, <1>7, BufferSizes DEF Read, ReadUsername, ReadPassword, ReadNewUsername,
     ReadNewPassword, ReadName, ReadPhone, ReadTarget, ReadQuery, ReadCommand,
     ReadPermUsername, ReadPermLevel, ReadNothing, Reads
<1> QED
  BY <1>3, <1>4, <1>5, <1>6, <1>7 DEF Next, Read

\* Whatever lines are typed, a menu changes its phase with those of an even number
\* of characters and no others.
THEOREM MenuPhaseAlways == Spec => MenuPhase
<1>1. Inv /\ [Next]_vars =>
        [MenuStays => Slipped' = (IF EvenLineComes THEN ~Slipped ELSE Slipped)]_vars
  BY StepPhase
<1> QED
  BY <1>1, Invariance, PTL DEF Spec, MenuPhase
=============================================================================
