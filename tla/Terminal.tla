------------------------------- MODULE Terminal -------------------------------
(***************************************************************************)
(* What the two programs read from their terminals: the menus and prompts  *)
(* of src/client/main.c and src/client/prompts/, and the console of the    *)
(* server, input_handler of src/server/main.c.                             *)
(*                                                                         *)
(* The user looks at the screen and types a line when the program waits.   *)
(* The program reads with fgetc, one character, and with fgets, up to the  *)
(* end of the line or to the size of its buffer: what a read leaves is     *)
(* there for the next one, whichever prompt that is.                       *)
(***************************************************************************)
EXTENDS Integers, Sequences, SequencesExt

CONSTANTS Program,   \* "client", "console" or both
          Lines,     \* per prompt, the lines that the user types
          Level      \* the levels that a login may find

MAX_USERNAME_LEN == 32
MIN_USERNAME_LEN == 4
MAX_PASSWORD_LEN == 32
MAX_CONTACT_NAME_LEN == 128
MAX_PHONE_NUMBER_LENGTH == 20

ANONYMOUS == 0
USER == 1
ADMIN == 2

NL == "\n"
EOF == "EOF"
None == "none"

\* The characters of a line, which are none of these.
Character == STRING \ {NL, EOF, None}

Menu == {"auth", "menu"}

\* The size of the buffer of each fgets.
Buffer == [ username      |-> MAX_USERNAME_LEN + 1,
            password      |-> MAX_PASSWORD_LEN + 1,
            new_username  |-> MAX_USERNAME_LEN + 1,
            new_password  |-> MAX_PASSWORD_LEN + 1,
            name          |-> MAX_CONTACT_NAME_LEN + 1,
            phone         |-> MAX_PHONE_NUMBER_LENGTH + 1,
            target        |-> MAX_CONTACT_NAME_LEN + 1,
            query         |-> MAX_CONTACT_NAME_LEN + 1,
            command       |-> 32,
            perm_username |-> MAX_USERNAME_LEN,
            perm_level    |-> 32 ]

Field == DOMAIN Buffer
Prompt == Menu \cup Field

ASSUME LinesAssumption ==
    \A p \in Prompt : Lines[p] \subseteq Seq(Character)

VARIABLES prompt,    \* the one on the screen, or "done"
          op,        \* what a menu has read, until it has swallowed another character
          stdin,     \* typed, or left, and not read yet
          eof,       \* the input has ended
          got,       \* the fields read for the next request
          level,     \* auth_level of the client
          request,   \* what was just asked for: of the server, or of change_permissions
          typed,     \* for this request, the last line typed at each prompt
          in_step    \* every line of this request was typed at its prompt, and fitted

vars == <<prompt, op, stdin, eof, got, level, request, typed, in_step>>

NoRequest == [op |-> None, fields |-> << >>]

Untyped == [p \in Prompt |-> <<EOF>>]

Init ==
    /\ prompt \in { IF p = "client" THEN "auth" ELSE "command" : p \in Program }
    /\ op = None
    /\ stdin = << >> /\ eof = FALSE
    /\ got = << >>
    /\ level = ANONYMOUS
    /\ request = NoRequest
    /\ typed = Untyped
    /\ in_step = TRUE

-----------------------------------------------------------------------------
(***************************************************************************)
(* The user.                                                               *)
(***************************************************************************)

\* A line that its prompt reads to the end, with the end.
Fits(line) ==
    IF prompt \in Menu THEN Len(line) = 1 ELSE Len(line) < Buffer[prompt] - 1

Waiting == prompt # "done" /\ stdin = << >> /\ ~eof

Type(line) ==
    /\ Waiting
    /\ stdin' = line \o <<NL>>
    /\ typed' = [(IF got = << >> THEN Untyped ELSE typed) EXCEPT ![prompt] = line]
    /\ in_step' = (Fits(line) /\ op = None /\ (got = << >> \/ in_step))
    /\ request' = NoRequest
    /\ UNCHANGED <<prompt, op, eof, got, level>>

CloseInput ==
    /\ Waiting
    /\ eof' = TRUE
    /\ UNCHANGED <<prompt, op, stdin, got, level, request, typed, in_step>>

-----------------------------------------------------------------------------
(***************************************************************************)
(* Reading.                                                                *)
(***************************************************************************)

AtEnd == stdin = << >> /\ eof

Drop(n) == SubSeq(stdin, n + 1, Len(stdin))

\* How many characters fgets takes, with a buffer of n.
Fgets(n) == Min({n - 1, Min({ i \in DOMAIN stdin : stdin[i] = NL })})

\* The line without its terminator.
Line ==
    LET n == Fgets(Buffer[prompt])
    IN  SubSeq(stdin, 1, IF stdin[n] = NL THEN n - 1 ELSE n)

\* fgetc of the choice.  At the end of the input it returns EOF, again and again.
MenuReads ==
    /\ prompt \in Menu /\ op = None
    /\ stdin # << >> \/ eof
    /\ op' = IF stdin = << >> THEN EOF ELSE Head(stdin)
    /\ stdin' = Drop(1)
    /\ UNCHANGED <<prompt, eof, got, level, request, typed, in_step>>

\* Where a choice leads; an invalid one leads back to the menu.
AuthChoice ==
    CASE op = "1" -> "username"
      [] op = "2" -> "new_username"
      [] op = "q" -> "done"
      [] OTHER    -> "auth"

OperationChoice ==
    CASE op = "1"                  -> "query"
      [] op = "2" /\ level = ADMIN -> "name"
      [] op = "3" /\ level = ADMIN -> "target"
      [] op = "q"                  -> "done"
      [] OTHER                     -> "menu"

Choice == IF prompt = "auth" THEN AuthChoice ELSE OperationChoice

\* Mutant: the second fgetc is missing.
MenuKeepsEnd ==
    /\ prompt \in Menu /\ op # None
    /\ prompt' = Choice
    /\ op' = None
    /\ UNCHANGED <<stdin, eof, got, level, request, typed, in_step>>

\* Mutant: the rest of the line is read too, as the macro fflush would do it.
MenuSwallowsLine ==
    /\ prompt \in Menu /\ op # None
    /\ stdin # << >> \/ eof
    /\ stdin' = << >>
    /\ prompt' = Choice
    /\ op' = None
    /\ UNCHANGED <<eof, got, level, request, typed, in_step>>

\* fgetc of one more character, which should be the end of the line.
MenuSwallows ==
    /\ prompt \in Menu /\ op # None
    /\ stdin # << >> \/ eof
    /\ stdin' = Drop(1)
    /\ prompt' = Choice
    /\ op' = None
    /\ UNCHANGED <<eof, got, level, request, typed, in_step>>

\* fgets into the buffer of the prompt, which leads to another one.
Reads(p) ==
    /\ prompt = p /\ stdin # << >>
    /\ stdin' = Drop(Fgets(Buffer[p]))
    /\ UNCHANGED <<op, eof, typed, in_step>>

Leads(next, fields) ==
    /\ prompt' = next
    /\ got' = fields
    /\ UNCHANGED <<level, request>>

\* The server, or change_permissions, is asked; the answer leads to a prompt.
Asks(what, fields, next) ==
    /\ request' = [op |-> what, fields |-> fields]
    /\ got' = << >>
    /\ prompt' \in next

\* Mutant: the length of the username is not looked at.
ReadUsernameAny == Reads("username") /\ Leads("password", <<Line>>)

\* prompt_login, which insists on the length of the username.
ReadUsername ==
    /\ Reads("username")
    /\ IF Len(Line) < MIN_USERNAME_LEN THEN Leads("username", << >>)
                                       ELSE Leads("password", <<Line>>)

\* main ends without a level that it knows above 0.
AfterLogin(found) == IF found \in {USER, ADMIN} THEN "menu" ELSE "done"

\* OK, SERVER_ERROR, or any other status.
ReadPassword ==
    /\ Reads("password")
    /\ \/ Asks("LOGIN", got \o <<Line>>, {"done", "username"}) /\ UNCHANGED level
       \/ \E found \in Level :
             /\ Asks("LOGIN", got \o <<Line>>, {AfterLogin(found)})
             /\ level' = found

\* prompt_registration: after OK or SERVER_ERROR the program ends.
ReadNewUsername == Reads("new_username") /\ Leads("new_password", <<Line>>)

ReadNewPassword ==
    /\ Reads("new_password")
    /\ Asks("REGISTER", got \o <<Line>>, {"done", "new_username"})
    /\ UNCHANGED level

\* prompt_add_contact, prompt_delete_contact, prompt_search.
ReadName == Reads("name") /\ Leads("phone", <<Line>>)

ReadPhone ==
    /\ Reads("phone")
    /\ Asks("INSERT", got \o <<Line>>, {"done", "menu"})
    /\ UNCHANGED level

ReadTarget ==
    /\ Reads("target")
    /\ Asks("DELETE", <<Line>>, {"done", "menu"})
    /\ UNCHANGED level

ReadQuery ==
    /\ Reads("query")
    /\ Asks("SEARCH", <<Line>>, {"done", "menu"})
    /\ UNCHANGED level

\* input_handler.
ReadCommand ==
    /\ Reads("command")
    /\ Leads(CASE Line = <<"q", "u", "i", "t">> -> "done"
               [] Line = <<"p", "e", "r", "m">> -> "perm_username"
               [] OTHER -> "command",
             << >>)

ReadPermUsername == Reads("perm_username") /\ Leads("perm_level", <<Line>>)

\* The first character counts.
ReadPermLevel ==
    /\ Reads("perm_level")
    /\ IF Line # << >> /\ Head(Line) \in {"0", "1", "2"}
       THEN Asks("PERM", Append(got, <<Head(Line)>>), {"command"}) /\ UNCHANGED level
       ELSE Leads("command", << >>)

\* Mutant: the result of fgets is not looked at.
ReadNothingOn ==
    /\ prompt \in Field /\ AtEnd
    /\ UNCHANGED vars

\* fgets returns NULL: the client calls error, the console thread returns.
ReadNothing ==
    /\ prompt \in Field /\ AtEnd
    /\ prompt' = "done"
    /\ UNCHANGED <<op, stdin, eof, got, level, request, typed, in_step>>

Read ==
    \/ MenuReads \/ MenuSwallows
    \/ ReadUsername \/ ReadPassword \/ ReadNewUsername \/ ReadNewPassword
    \/ ReadName \/ ReadPhone \/ ReadTarget \/ ReadQuery
    \/ ReadCommand \/ ReadPermUsername \/ ReadPermLevel
    \/ ReadNothing

User == CloseInput \/ (prompt # "done" /\ \E line \in Lines[prompt] : Type(line))

Next == Read \/ User

Spec == Init /\ [][Next]_vars

\* The program reads when there is something to read; the user may stop typing.
FairSpec == Spec /\ WF_vars(Read)

-----------------------------------------------------------------------------
(***************************************************************************)
(* Properties.                                                             *)
(***************************************************************************)

\* No field is longer than its buffer less the terminator, whatever it is for, and a
\* username sent to log in is as long as prompt_login wants it.
TypeOK ==
    /\ prompt \in Prompt \cup {"done"}
    /\ request.op \in {"LOGIN", "REGISTER"} =>
          /\ Len(request.fields[1]) <= MAX_USERNAME_LEN
          /\ Len(request.fields[2]) <= MAX_PASSWORD_LEN
    /\ request.op = "LOGIN" => Len(request.fields[1]) >= MIN_USERNAME_LEN
    /\ request.op = "INSERT" =>
          /\ Len(request.fields[1]) <= MAX_CONTACT_NAME_LEN
          /\ Len(request.fields[2]) <= MAX_PHONE_NUMBER_LENGTH
    /\ request.op \in {"DELETE", "SEARCH"} => Len(request.fields[1]) <= MAX_CONTACT_NAME_LEN
    /\ request.op = "PERM" => Len(request.fields[1]) < MAX_USERNAME_LEN
    /\ request.op \in {"INSERT", "DELETE"} => level = ADMIN

\* The prompts whose lines make a request.
PromptsOf == [ LOGIN    |-> <<"username", "password">>,
               REGISTER |-> <<"new_username", "new_password">>,
               INSERT   |-> <<"name", "phone">>,
               DELETE   |-> <<"target">>,
               SEARCH   |-> <<"query">>,
               PERM     |-> <<"perm_username", "perm_level">> ]

AsTyped ==
    \A i \in DOMAIN request.fields :
        LET line == typed[PromptsOf[request.op][i]]
        IN  request.fields[i] = IF request.op = "PERM" /\ i = 2 THEN <<Head(line)>> ELSE line

\* A request says what the user typed at its prompts, unless one of these lines
\* filled its buffer, or a menu was answered with more or less than a character.
\* The console keeps one character less of a username than the server accepts.
InStep == request # NoRequest /\ in_step => AsTyped

\* A menu takes the characters of a line two by two, a choice and one more: it has
\* slipped when it will take, or has taken, the end of the line for a choice.
Slipped ==
    prompt \in Menu /\ (Len(stdin) + (IF op = None THEN 0 ELSE 1)) % 2 = 1

\* A line comes with as many characters as make pairs, its end left over.
EvenLineComes == stdin = << >> /\ Len(stdin') % 2 = 1

MenuStays == prompt \in Menu /\ prompt' \in Menu /\ ~eof'

\* From one choice to the next, only such a line, as the empty one or one of two
\* characters, moves a menu out of phase, and only such a line moves it back: in
\* between it takes the end of each line for the choice, and the choice for the end.
MenuPhase ==
    [][MenuStays => Slipped' = (IF EvenLineComes THEN ~Slipped ELSE Slipped)]_vars

\* When the input ends the program ends too, or reads EOF in a menu for ever.
EofEnds == eof ~> [](prompt \in Menu \cup {"done"})
=============================================================================
