# Elenco telefonico: a formal model of the phone book server

`elenco-telefonico` is a TCP server that keeps a phone book and the accounts of
its users in two files, with a terminal client. This directory holds TLA+
modules of the server, TLC configurations that check them on small instances,
and TLAPS proofs that hold for every size. Paths such as `src/server/main.c`
are relative to the repository; `docs/relazione.tex` is its specification.

## 1. Inventory

### Components, their state, their operations

| component | source | state | operations |
|---|---|---|---|
| readers-writers lock | `server/database/sync.c` | a set of three System V semaphores per database | get and release, as reader and as writer |
| contact database | `server/database/contact_db.c`, `db_utils.c` | the bytes of the file `contact_db` | add, delete, search: linear scans under the lock |
| contact handlers | `server/insert.c`, `delete.c`, `search.c` | none | validate the payload, call the database, answer; end the process on an error of the database |
| user database | `server/database/user_db.c`, `db_utils.c` | the records of the file `user_db` | check credentials, add a user, change permissions |
| sessions | `server/main.c` (`connection_handler`), `login.c`, `register.c` | per connection, the `user_t` it is logged in as | login, register, and the gate before each contact handler |
| console | `server/main.c` (`input_handler`) | its input line | `perm`, `quit` (which ends the console thread only) |
| accept loop | `server/main.c` (`main`) | `conn_sem`, the listening socket, the threads | accept, admit or refuse, start a thread |
| transfer | `server/sender.c`, `common/utils.c` | the byte stream of a connection | send a packet, receive or discard an exact number of bytes |
| client | `client/*.c`, `client/prompts/*.c` | the level it was told, the terminal input | one request, one answer; menus |
| digest | `client/crypto.c` | none | SHA-256 of the password, by a library |

### How they interact

The main thread accepts connections and starts one thread for each; the console
runs in a thread of its own. Threads share the two files, the two locks and
`conn_sem`, and nothing else: a session is local to its thread. A handler holds
a lock during one call of a database and never holds two, so there is no cycle
of waits. Clients see the server through their connection only. Errors of the
contact database, of `accept` and of `pthread_create` end the whole process;
errors of the user database are answered and survived.

### What is hard

* **Interleaving**: readers and writers of one file; `register.c`, which checks
  and adds in two critical sections; a console that changes an account in use.
* **Partial failure**: a `semop` interrupted between the two of
  `rwlock_get_writer`; an append cut short by a full disk; an answer that is
  lost after its request was carried out.
* **Ordering**: `close` before `sem_post`, on each of the ways out of
  `connection_handler`; the level of a session against the one in the file.
* **Bounds and widths**: 8-, 16- and 32-bit lengths of both signs; slots that
  are used again; threads that are never joined.
* **Framing**: records without markers, in which one wrong length misreads
  every record after it.

`PROJECT.json` lists each hazard at its line with the properties that would
catch it going wrong, or why none does yet.

### What makes each part correct

| part | properties |
|---|---|
| lock | exclusion, semaphores that count what they are named for, writers first, no starvation; it implements readers and writers |
| contacts | the file is a book of contacts; records tile it; space is used again; what was acknowledged survives a full disk |
| accounts | a login is granted what the console last gave the account; copies made by the race are bounded; the bytes of the file are the list of accounts, and a torn record hides none before it; concurrent calls are atomic |
| sessions | contacts are served only to a level that the account was given; every request is answered, unless it must look up an account after a writer of the accounts was interrupted |
| slots | units and descriptors are conserved; nobody is left in the backlog |
| connection | requests and answers stay in frame and belong together; a call returns, unless the accounts hold it up; client and server agree on the level |
| terminal | a request says what was typed; only a line of an even number of characters moves a menu out of step or back; the end of the input ends the program |

## 2. Modules

| module | models | implements |
|---|---|---|
| `RWLock` | `sync.c`, one action per `semop` | `ReadersWriters` |
| `DbFile` | `pread_exact`, `pwrite_exact` on a sequence of bytes | |
| `ContactDB` | `contact_db.c` with `insert.c`, `delete.c`, `search.c` | `PhoneBook` |
| `UserDB` | the operations of `user_db.c` on a sequence of records | |
| `UserFile` | `user_db.c` on the bytes of the file, with `login.c`, `register.c` and `perm` | `Accounts` |
| `LockedUserDB` | the scans of `user_db.c` record by record, by the threads of `RWLock` | `AtomicUserDB` |
| `Server` | sessions, login, registration, authorisation, the effect of `perm` | |
| `ConnPool` | the accept loop, `conn_sem`, the end of a connection thread | `SlotPool` |
| `Stream` | one connection byte by byte: `connection_handler` and the handlers, `sender.c`, `utils.c`, `client/requests.c` | |
| `Terminal` | the menus and prompts of the client, `input_handler` of the server | |
| `MCContactDB`, `MCServer`, `MCLockedUserDB`, `MCUserFile`, `MCStream`, `MCTerminal` | the requests, calls and lines of the instances | |
| `Database_proofs` | lemmas about the operators of `UserDB` and `DbFile`, and about walks through a file | |
| `LockedUserDB_proofs` | theorems about `RWLock` and about `LockedUserDB`, which extends it | |
| `ContactDB_proofs`, `ConnPool_proofs`, `Server_proofs`, `Stream_proofs`, `Terminal_proofs`, `UserFile_proofs` | theorems about the module of that name | |

They divide the system by depth. `RWLock` justifies that a call of a database is
one step (`LockedUserDB` shows it for the user database, whose reads and writes
are its instance), `ContactDB` and `UserFile` take that step on the bytes of the
files, `Server` puts such steps of several connections together, `Stream` opens
one connection down to its bytes and leaves open what a database finds.

Operators named `...` after a comment "Mutant" are wrong on purpose: each is a
plausible slip in the action that follows it, and `PROJECT.json` pairs it with
the property that must then fail.

### `RWLock` and `ReadersWriters`

`semReaders`, `semWriterWaiting` and `mutexWriting` are semaphores 0, 1 and 2.
A `semop` applies to all its semaphores or to none, so it is one action whose
guards are the zero- and minus-operations. A thread that cannot go on waits in
`wantRead` or `wantWrite`; a writer is in `wantWrite` only after its first
`semop`, which has raised `SEM_WRITER_WAITING`. `InterruptReader` and
`InterruptWriter` are the failing sleeping `semop` (`EINTR` after a stop and
continue of the process): the functions return `false`. A `semop` that can go on
does not sleep and cannot fail so: a reader is interrupted behind an announced
writer, a writer behind somebody who is inside. `abandoned` counts the
interrupted writers, whose announcement nobody takes back.

Fairness: a scan is finite, so that a section ends (weak fairness of the
releases; in `LockedUserDB`, of the steps of the scan too, so that its end is a
consequence). The kernel retries the sleeping `semop`s of a set, oldest first, at
each change of the set, so one that is possible again and again is done (strong
fairness of `GetReader` and `GetWriter`). Nothing makes a thread ask.

### `ContactDB`, `DbFile` and `PhoneBook`

The file is the sequence of its bytes. The three scans of `contact_db.c` walk
it alike: `Slots` is the set of the offsets of the headers they read, with
a recursive function in the place of the loop, `ScanEnd` where they stop and
`Corrupted` whether they stop in a torn header (`-2`). `FreeSlots`, `Stops` and
`Hits` are those among the `Slots` that each scan looks for; it meets the least
of them first, and `Taken` is what a search has met when it reaches its limit. A
write that starts beyond the end fills the gap with zeros, as `pwrite` does.

Each request is one action, since its scan is inside the lock, which the
theorems about `RWLock` make exclusive. Validation keeps the widths of the code:
the name length is a signed char, the name to delete is cut to a `uint8_t`, the
limit is a signed char read into an unsigned int. On `-1` and `-2` the handler
answers `SERVER_ERROR` and the process exits; `Restart` starts another one on
the same file.

`InsertTorn` is a full disk: what lies inside the file is written, what lies
beyond it only in part or not at all, or the first `pwrite` fails and nothing is
(`TornWrites`). A record that is used again can lie across the end of the file
only if it was torn itself. Its number is bounded by `MaxTorn`; the number of
records by `MaxRecords`.

`acked` counts for each name the inserts answered OK less the deletes answered OK,
`peak` for each size the most contacts that there were at once; only the properties
read them.

`PhoneBook` is a function from entries to contacts, since two contacts may be the
same. The refinement mapping takes the offset of an active record for its entry:
`Book(file)`. It says that a search returns the matching contacts, all of them when
fewer than the limit match and as many as the limit otherwise. It holds as long as
no write was cut short.

### `LockedUserDB` and `AtomicUserDB`

`LockedUserDB` extends `RWLock`: each thread calls `check_credentials` as a
reader, `add_user` or `change_permissions` as a writer, and once inside goes
through `user_db.c` step by step. `Look` is one turn of the scanning loops,
`Seek` the `lseek` to the end, `WritePart` and `WriteRest` a `pwrite_exact` that
takes more than one `pwrite`, `WriteLevel` the overwriting of one byte. `offset`
is the local variable of the code, counted in records. Nothing in these actions
looks at another thread: that they do not disturb each other is the work of the
lock. A scan that meets the record being written reads too little and returns
-2.

`AtomicUserDB` has one step between the call and the return of each thread, which
applies an operator of `UserDB` to the list of accounts, or a failure without an
effect. The refinement mapping takes a call to be done from its last `Look`, or
from the end of its write.

### `UserFile` and `Accounts`

The user file is the sequence of its bytes; a record is found by walking from one
length byte to the next. The walk does not depend on what it looks for, so that
`Starts` is the set of the offsets it visits, and `Users` the list of the accounts
it meets, each with a recursive function for the loop, and `Ends` those at which a scan for given credentials stops: at a record
that ends beyond the end of the file (`-2`) or at the one it looks for. The
handlers around it are here because of what they do with `-2`: `handle_login`
sends nothing, `handle_register` goes on and adds the account, the console prints
nothing. `register.c` is in two steps, with `registering` between them.

`RegisterTorn` is a full disk, as in `ContactDB`; but here the server goes on, and
appends behind the torn record. `stored` remembers, as a list of accounts, what
was answered OK before the first torn append, with the changes of level made
since.

`Accounts` is the list of accounts with a login, a registration and a change of
level as one step each. The refinement holds as long as no append was torn; after
one, `StoredFound` says what is left of it: the accounts before the torn record
are found, with their levels. Those after it may be lost.

### `UserDB` and `Server`

The user file is the sequence of its records: without torn records the scans of
`user_db.c` meet exactly them. `phase` is where a connection thread is:
`idle` in `recv`, `request` with a request to serve, `checked` between the
`check_credentials` and the `add_user` of `register.c`, `answer` before
`send_packet`. A client may leave at any time and its request is served all the
same. `new_user.auth_level` is never set, so `RegisterAdded` stores any level of
`RegisteredLevel`. What a contact handler does once it is let in is
`ContactDB`'s part; here its answer is recorded under the name of the operation.

An interrupted lock gives `SERVER_ERROR`: to a login (`LoginInterrupted`), to the
look-up of a registration (`RegisterInterrupted`) and to its `add_user`
(`AddInterrupted`). The last one is a writer that stays announced, and so is a
`perm` that is interrupted while a handler is inside (`PermInterrupted`). `raised`
remembers it: no call of `check_credentials` gets the lock after that
(`ReaderEnters`), though it may be interrupted in its turn.
`MaxUsers` bounds what clients send: a `REGISTER` only while there is room for it
and for those under way.

Fairness: each connection thread is scheduled (weak fairness of its steps, without
the interruptions). That it then gets the lock when no writer has given up is
`WriterProgress` and `ReaderProgress` of the lock: writers come from a console, and
from registrations that have looked first. Weak fairness of a step that needs the
lock asks nothing while `raised`. Clients and the operator have no fairness.

### `ConnPool` and `SlotPool`

One action for each step of the accept loop and two for the end of a connection
thread, `close` and `sem_post`, between which a slot is free of its descriptor
and still taken. `threads` counts the threads created, since a thread that is
not joined leaves its stack behind; `MaxThreads` is how many the process can
have, after which `pthread_create` fails and `exit(-1)` follows. `AcceptFails`
is an `accept` that returns -1.

Fairness: the main thread is scheduled, `accept` being left alone while the
backlog is empty. Nothing makes `accept` fail, a client leave, or somebody start
the server again.

### `Stream`

`toServer` and `toClient` are the bytes on their way. Every `recv` takes any
number of them, up to what it asks for: `RecvHeader` once, whatever it gets, as
`main.c` has it; `RecvPayload`, `Discard` and `ClientRecv` again until they have
all, as `recv_exact` and `discard_bytes` do. `server.at` and `client.at` are
where the thread and the client are (`start`, `header`, `payload`, `discard`,
`answer`; the client reads a `level` after a login), `need` how many bytes the
`recv` still wants. The client has one request under way at a time. It may leave
at any moment, also with only a part of its request sent; the process of the
server may end at any moment. `close` with unread bytes resets the connection
(`reset`), which may take from the client an answer it had not read.

`served`, `sent` and `results` record the requests as the thread understood them,
as they were made, and what the calls returned; the properties compare them. What
`check_credentials` finds is any level, none, or a torn file, for which a login gets
no answer at all (`LoginUnanswered`). The files hold what other connections and
earlier runs have left in them, so that what a `DELETE` finds is left open, and a
search returns any sequence of contacts of `Contact`, copies too, not longer than
its limit; `found` keeps the last one for `AnswersMatch`. What a delete removes, and
what one of 257 bytes does, is in `ContactDB`. A payload has as many bytes as 16 bits count, and a limit is between
1 and 127: the client asks for 12 contacts, and the byte is signed on the server.

Fairness: the connection thread and the client are scheduled, so that what was
sent arrives in the end; but not the thread that needs the lock of the user
database (`NeedsUserLock`), which after an interrupted writer of another connection
never comes. The contact handlers need no such exception: where a lock of theirs
is interrupted the process ends. Nobody leaves because he must.

### `Terminal`

`stdin` is what was typed and not yet read, `prompt` the prompt on the screen. A
user types one line when the program waits; `Fgets` takes characters up to the end
of the line or one less than the buffer, `MenuReads` and `MenuSwallows` are the
two `fgetc` of a menu. The prompts lead to each other as in `client/main.c`, an
answer of the server leading anywhere it may. `typed` and `in_step` remember, for
the request being put together, what was typed at each prompt and whether all of
it fitted.

Fairness: the program reads when there is something to read. The user need not
type.

## 3. Runs

| run | question | bounds, and why they are enough |
|---|---|---|
| `rwlock` | is the lock a correct readers-writers lock, with writers first and no starvation, and does it make the calls of the user database atomic? | three threads: a reader inside, a writer waiting, a reader behind it; or two writers and a reader. One interruption. Four calls on two usernames, two records, so that a scan passes one and a registration comes behind another. The lock is proved for any number. |
| `rwlock_interrupted` | are readers held only by writers? **Violated** | the same |
| `contacts` | is the file a book of contacts, whatever is inserted, deleted and inserted again? | four records at most, three contacts, two of which have the same total size with the lengths split otherwise: enough to use a slot again in the middle of the file and to misframe what follows. Proved for any contacts and number of records. |
| `contacts_disk_full` | does a full disk lose what was acknowledged? | two torn appends, so that a record is appended behind a torn one, and torn in turn, or a torn one is deleted, used again and cut at the end of the file; three whole records |
| `delete_exact` | is only the named contact deleted? **Violated** | a name of 257 bytes |
| `accounts` | can the race in `register.c` change what an account may do? | two connections, one username with two passwords, three records: a copy more than the race can make |
| `sessions` | who reaches the contacts, and which requests are answered? | one connection, since sessions are local to it, with the console and every kind of request; an interrupted `add_user` or `perm` at any time |
| `registered_level` | is a new account anonymous? **Violated** | |
| `user_file` | do the bytes of the file keep the accounts, with a torn record too? | usernames of two lengths, one with two passwords; digests whose bytes are the length of a username, so that a scan out of frame takes them for records, or long ones, so that it steps over the end; three appends, one torn, so that one comes before and one behind it |
| `stream` | do requests and answers stay in frame, and which calls return? | three calls: one refused, and two behind it; a digest of one byte and usernames of one or two keep the packets short, which is what the number of ways to cut them depends on; each kind of request, well-formed and not; a search for two contacts, in the place of the twelve that the client asks for, so that there are answers with none, with fewer and with as many, copies among them. Its invariants are proved for any requests and any number of calls. |
| `terminal` | is what is asked for what was typed? | at each prompt a short line and those of one character less than the buffer, as many, and more |
| `conn_pool` | are slots and descriptors conserved, is the backlog served? | two slots, four clients: two served, one refused, one queued; four threads in the life of a process, fewer than the connections it gets |

What four of them show, beside holding:

* In `sessions`, once an `add_user` or a `perm` was interrupted, a login or a
  registration that begins may wait for ever. A registration that has looked
  already, a request for contacts and one that is refused are still answered.

* In `user_file`, once an append is torn, an account that was answered OK may
  never be found, a login may be answered by silence, and nothing before the torn
  record is touched.
* In `stream`, a valid request is answered `MALFORMED_REQUEST` only because its
  header came in two pieces (`main.c:210` takes what one `recv` gives); an answer
  is lost only with its connection, so that at most the last request was carried
  out unknown to the client; and a contact whose name is not printable ASCII is
  stored, and ends every client that finds it. A call that never returns is a
  login or a registration that does not get the lock of the accounts, or a login
  that meets a torn user file, to which `login.c:93` has no answer.
* In `terminal`, a menu reads two characters at a time, a choice and what should
  be the end of its line. A line with an even number of characters, such as the
  empty one, puts it out of step, and so does the end that a prompt has left over:
  from then on it takes the end of each line for a choice and the choice for an
  end, until another such line puts it back. At the end of the input it goes
  round for ever.

The runs that end in a violation are three disagreements between the code and its
documentation, described under "findings" in `PROJECT.json`:

1. An interrupted writer leaves `SEM_WRITER_WAITING` raised, and no reader
   enters that database again.
2. A `DELETE` of more than 255 bytes deletes the contact whose name is its
   beginning, modulo 256 bytes.
3. The level of a new account is whatever was in memory.

Others have no run: a username that is taken can be registered with another
password, though `relazione.tex:258` says "Username già registrato" of
`USERNAME_TAKEN` (`Server`, `UserFile` and `Accounts` have it so, and
`AccountsStable` says what it does not change); with exactly as many matches as the limit a search is
answered `FEWER_RETURNED` (`PhoneBook` states it as the code has it), a name of
128 bytes is refused though the documentation allows it (`MCContactDB` sends
one), `CONTACT_ALREADY_EXISTS` is never answered.

## 4. Proofs

The first part of `LockedUserDB_proofs` is about `RWLock`, and holds for every finite
set of threads and any number of interruptions. Mutual exclusion is not inductive: that a reader may enter when
`SEM_WRITER_WAITING` is zero, and a writer when `SEM_READERS` is, follows only
because these semaphores count the threads that they are named for. The
inductive invariant `IInv` is therefore `TypeOK`, `CountersAgree` and "a writer
inside means no reader inside". The lemmas `Enters`, `Leaves`, `Stays` and
`Empty` say what a step of one thread does to a set of threads and to its size;
`NextIInv` has one case per action. From `IInv` follow `TypeCorrect`,
`CountersExact`, `Exclusion`, `Priority` and, step by step, `Refinement`: each
action is a step of `ReadersWriters` or changes nothing that it sees.

They assume that the set of threads is finite and that `MaxInterrupts` is a
natural number.

`Database_proofs` is about the operators of `user_db.c` for every list of accounts:
where a scan stops (`LoginFinds`, `FirstIs`), what an append and a change of level
leave as it was (`AddKeeps`, `ChangeSets`, `ChangeKeeps`); and about those of
`DbFile`: `PreadInside` and `PwriteIs`. It also holds the two inductions that the
other modules use, which are stated with sets since a theorem
cannot take an operator: `Upward` from 0, `Downward` from the end of a file. Both
come from the least-element principle. `WalkComputes` says that a recursive
function over offsets that only grow exists and computes what its equation says,
so that the scans can be reasoned about.

The second part of `LockedUserDB_proofs` shows that every step of the user database is a step of
`RWLock` or leaves the semaphores alone (`UsesLock`), so that the theorems about
the lock hold of the threads that walk the file: `ScansExclude`, `WritersFirst`.
Then it shows that they implement `AtomicUserDB` (`Atomic`). The refinement mapping
lets a call take effect with the step that finishes it, and what a scan has passed
by then is the past of the file. `DbInv` says why that is no matter: none of the
records before the offset of a scan is one it looks for (`Walks`); the offset of a
write is where the record is to be; a record without its end belongs to the one
thread that is inside to write it (`HalfWritten`); and the place of a thread in its
call is its place in the lock (`Placed`). That another thread's step keeps the
`Walks` of this one is mutual exclusion, by the lemma `Alone`. They assume that the
calls are of the three functions of `user_db.c`.

`UserFile_proofs` holds for all usernames of 4 to 32 characters, all digests of 32
bytes, any levels that fit a byte, any number of records and of torn appends. What
a scan does is a walk over bytes that were never written to be walked, so that the
invariant has to say where each account lies: `LaidOut(stored, file, at)`, the
record of the i-th account of `stored` is at `at[i]`, each behind the one before,
and nothing is behind the last as long as no append was torn (`Lie`). On it rest
`WalkLaidOut` (a walk meets these records first, then what is behind them) and
`ScanFinds` (so a scan stops at the first account it looks for, or behind them
all). A write keeps it for one of three reasons: it lies behind the accounts
(`Behind`), it is one more of them (`OneMore`), or it is the byte of one level
(`OneLevel`). `TypeCorrect` and `StoredForEver` follow. While no append is torn,
`Users(file)` is `stored` (`UsersOfRow`), and every step is one of `Accounts`:
`FileIsAccounts`.

`ContactDB_proofs` holds for all requests, any number of records and of torn
writes. Here deleted records are used again, so that the invariant cannot be a row
of contacts. What every write leaves is the sizes of the records that a scan meets,
and that is enough: by `Reframe` a scan of the new file meets the same records and
goes on from where it stopped before, and by `SlotsApart` no record reaches into
another. `PartWritten` shows it for the record of an insert and every part of it
that a full disk leaves, the whole of it inside the file and nothing beyond among them (`TornWritten`: the header of a record that is used again
lies inside the file, so that it is never torn), `ByteCleared` for a delete; each also leaves the other
records as they read (`Kept`: a record cut short by the end of the file may be
filled by a write behind it, a whole one stays). The inductive invariant is then
the four invariants of the runs together with `SizesInserted`, that the records have
the sizes of contacts that clients insert, without which `peak` says nothing of
them. `AcknowledgedKept` is by itself about any file, torn or not. `SlotsBounded`
is a count: a record is added only when no deleted one of its size is left, so
that all of that size are then active. From the invariant follow `TypeCorrect`,
`RecordsTile`, `FragmentationBounded` and `KeptUntilDeleted`.

`FileIsPhoneBook` is the refinement. In a file without torn records (`Framed`) no
read is short, so that the errors of the scans cannot occur and a scan finds what
the book holds; `FirstHitsCount` shows that a search that stops at its limit has
taken that many. It assumes `SmallRequests`: names to delete of fewer than 256
bytes, since the run `delete_exact` shows that a longer one deletes another name,
and limits that a signed char can hold, since with a greater one a search that
stops at its limit is answered `ALL_RETURNED` too. The other four theorems do not
need it.

`ConnPool_proofs` holds for every finite set of clients and all natural numbers
`MAX_CONNECTIONS` and `MaxThreads`. `SlotsConserved` counts the units of a
process that runs and says nothing of one that has ended, which holds its
descriptors until the next starts; the inductive invariant adds `HeldBounded`,
no more slots held than there are, which remains then. The lemmas about a step
of one client are those of the lock, `RestartIInv` reduces a restart to `Init`,
and `IInvBounds` counts the descriptors: one for the connection that the main
thread has not admitted, the rest each with a slot. `TypeCorrect`, `SlotsExact`,
`DescriptorLimit` and `Refinement` follow.

`Server_proofs` holds for every set of connections and requests, of bad
usernames and of changes at the console, provided that the levels the console
sets are 0, 1 or 2 and a level is a byte. `ContactsGuarded` speaks of an answer
and of the past of the user file, with two copies of the level in between: the
one a login puts in the session, and the one a handler has looked at when it
decides its answer. The inductive invariant links them one by one:
`AnswersAllowed` (an answer that serves the contacts has a session with the
level), `SessionsGranted` (the level of a session above anonymous is one that the
file has given to its credentials) and, in `TypeOK`, that the file is part of its
history. `TypeCorrect` and `Guarded` follow. `CopiesOfAccount` bounds the race in
`register.c`: the invariant `CopiesBounded` counts the copies of an account together
with the threads that have found none and are about to add one: a thread joins
these only when there is no copy, so that the sum never exceeds the number of
connections, which is assumed to be finite. `Stable` is the action property
`AccountsStable`: an append comes behind the record that a login finds, and the
console changes the records of one username.

`Terminal_proofs` holds for whatever is typed, lines being sequences of characters
that are neither the end of a line nor the end of the input. The invariant says
what is left in the input: at most one line, up to its end (`EndsLine`); as long as
program and user are in step, exactly what was typed at the prompt that waits, or
the end of the line that a menu has yet to swallow (`Synced`); and the field
gathered for a request in two prompts is the line typed at the first (`Gathered`).
`FgetsTakes` is the lemma on `fgets`: the line, or as much as there is room for.
`TypeCorrect` and `SaysWhatWasTyped` follow. `MenuPhaseAlways` is about lines of any
length: a step of a menu takes one character of the pair or both ends of a pair
(`StepPhase`), so that only the line that comes can change which character of a
pair is taken for the choice.

`Stream_proofs` holds for every set of requests of the five opcodes, of any payloads
that 16 bits can count, with search limits from 1 to 127, for every length of digests and usernames, any levels that
fit a byte, any contacts that fit the fields of `config.h`, and any number of calls, and however `recv` cuts the bytes. What `Framed`
says of the moment before a packet does not say why it is still so after the next
one; the inductive invariant `Inv` therefore gives for each place of the thread and
each place of the client what the two streams hold. There is at most one request
under way (`Counted`). What is on its way to the thread is what it has not taken of
that request: the packet, its tail, the rest of its payload, or what it has to
discard (`Requested`); a client that is gone has sent a first part of it only, and
then nothing comes behind. What is on its way to the client is what it has not taken
of the answer to its last request, or the refusal of a full server (`Answered`), and
the answer is of a form that its function of `requests.c` can read (`Suits`). The
login that gets none is a place of its own: the thread waits for the next request
and the client for the answer to the last (`Forgotten`).
`ServedWell`, `Returned`, `SplitOnly`, `LeftAlone` and `LevelKnown` relate what is
served, what has been sent and what the calls have returned.

The lemmas come in five groups. Those on pieces of a stream say that a part taken and
a part left are the whole (`CutIs`, `PieceJoins`, `PrefixIs`), so that a `recv` keeps
`Inv` whatever number of bytes it takes. Those on packets say that the two bytes of
the length, read back, are the length (`PacketIs`, `WholeHeader`). Then there is a
lemma for each step of the thread, where `ThreadAnswers` does for all handlers what
they have in common, and for each step of the client, where `EndsWaiting` does it for
all the ways out of a call. The last is about the answer to a search: that `search_contact`
reads back, contact by contact, what `handle_search` has put together, for any
sequence of contacts that are printable, copies too (`ContactPasses`, `SearchAnswer`). It rests on the bounds
of `config.h`: at most 127 contacts of at most 150 bytes each fit the 16 bits of the
length. The reading is a recursive function over offsets that only grow
(`WalkComputes`), the putting together a fold (`StepsUp`). `TypeCorrect`, `FramedAlways`, `AnswersMatchAlways`,
`MalformedOnlyIfSplitAlways` and `LevelsAgreeAlways` follow; `TypeCorrect` needs one
more invariant, `Asking`, that a client which waits has asked for something.

Every invariant and every action property of the passing runs, and each of the five
refinements, is thus proved for all values of the constants that meet the assumptions
named above. Only model-checked is
liveness, which is out of the prover's reach: that readers, writers, calls, requests
and the backlog are served, and that a program ends. The three runs that end in a
violation are counterexamples and need no proof.

## 5. Plan

What would come next: the contact database under its lock, as `LockedUserDB` has
the user database, where a handler whose lock is interrupted ends the process.

## 6. Not modelled

The SHA-256 digest (a library call on the client), logging, the layout of
prompts, the connecting of the client, `close_user_db` and `close_contact_db`
(never called), read errors of the files, power failures inside a `pwrite`, and a
client that does not read what it is sent. The memory of the search results is
left out on both sides: on the server a limit of 0 writes beyond a buffer of no
elements (requests with it are excluded by an assumption of `ContactDB` and of `Stream`), on the
client the terminator of a phone number of 20 digits lies in the next contact.
