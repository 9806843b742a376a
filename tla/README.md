# Komani Instant Messenger Server: a verification development

TLA+ models of the Komani server (`src/src`, `src/include`), the TLC runs that
check them and the TLAPS proofs about them.  `PROJECT.json` is the index:
components, runs, mutants, the map from definitions to source lines, findings,
hazards, theorems.

## 1. Inventory

The server is a chat server: it accepts TCP connections on port 6969, one
detached thread serves each, users and contact lists are in a MySQL database.

| Part | Source | State it keeps | Operations |
|---|---|---|---|
| Accept thread | `TCPNet.cpp` 213-278, `main.cpp` 321-347 | listening socket | accept, make a `CSocket`, start the client thread |
| Client socket | `TCPNet.cpp`, `TCPNet.h` | descriptor, 8192-byte receive buffer | `send` (3 forms), `recv` (3 forms), `RecvStringWBLen`, `SendStringWBLen` |
| Session thread | `main.cpp` 87-317, `user.cpp` 109-202 | its locals, `Client` | `Auth`, `AddUserToList`, `SendContacts`, `SendStatus`, `Act`, sign-off |
| User / Cont | `user.cpp` 33-105, `user.h` 43-113 | reference count, lock, ID, names, socket | copy, destroy, lock, unlock, send |
| Directory | `user.cpp` 21-30, `user.h` 120-131 | `Userliste`, `ListenMutex` | insert, erase, `GetFromList` |
| Connection pool | `libmysql++/Database.cpp`, `Query.cpp`, `Mutex.cpp` | `m_opendbs`, busy flags, the pool's mutex; a query's connection, result and row | `grabdb`, `freedb`, `Connected`, constructors and destructors, `execute`, `get_result`, `free_result`, `fetch_row`, getters |
| Message buffer | `mbuffer.cpp` | memory, size, length, position, EOS flag | `Write`, `Read`, `Seek`, `Clear`, `Grow` |
| Accounts | the SQL in `main.cpp`, `user.cpp` | tables `user` and `kontaktlisten` | register, check password, read contacts, add a contact |
| Conversions | `str.cpp`, `Query.cpp` 327-441 | none | `str`, `safestr`, `unsafestr`, `a2bigint` |
| Columns | `libmysql++/set_t.cpp`, `enum_t.cpp` | a number, the column's shared map, an `enum_t`'s own map | assignment, `+=`, `-=`, `\|=`, `&=`, `in_set`, `String` |
| Test client | `SmallTest/main.cpp` | its socket, the list of received messages and its lock | login, send, receive loop |

How they interact.  The session thread reads commands from its own socket
without any lock.  It writes to *any* session's socket, under that session's
`Cont::Lock`.  It finds other sessions through the directory, under
`Backend::ListenMutex`, and leaves with a counted copy of the `User`; taking and
dropping a copy needs the Cont's lock, so the directory's mutex is held while a
Cont's lock is waited for.  Queries take a pooled connection for as long as the
`Query` object lives; `Act` has one for the whole session.

What is hard here: frames of several `send` calls by several threads; a
reference count that four kinds of holders change; a copy that outlives the
directory entry it was made from; two logins of one user at once; lock order
(directory, then Cont) with blocking sends under the Cont's lock; peers that
stop reading, leave or reset; receive loops that lose their place in the stream; a pool that grows and fails.

What makes each part correct:

* Session, User, directory: the count is the number of copies; nothing freed is
  reached; at most one listed session per user; a relay reaches the addressee;
  frames stay whole; threads come back; sessions of clients that left end.
* Client socket: what `Act` parses are the commands the client sent.
* Pool: no connection is used by two queries; each is given back once; a failed
  connect leaves the pool as it was.
* Buffer: what is read is what was written; size and length stay in range.
* Accounts: whoever is let in is the user whose name and password it sent; whoever
  is refused is refused for what the tables have; nobody is entered in a contact list
  but by a session of its own.
* Conversions: what goes through a statement and a row comes back.
* Columns: an object says the names it was given, although others change the map.
* Test client: it reports the frames it was sent.

## 2. Plan

Modules, in order; the ones marked * exist.

1. `Session`*, `SessionProofs`*, `MCSession`*: the core (section 3).
2. `Lease`*, `ConnPool`*, `ConnPoolProofs`*, `MCConnPool`*: `Database` and `Query`;
   implements an abstract lease of connections (section 4).
3. `ByteStream`*, `MBuffer`*, `MBufferProofs`*, `MCMBuffer`*: the buffer; implements
   an abstract byte stream (section 5).
4. `Wire`*, `WireServer`*, `WireClient`*, `Dialog`*, `MCWire`*: the bytes of a
   connection against what `Auth`, `Act` and the test client's receiver make of
   them (section 6).
5. `Codec`*: the conversions between values and text (section 7).
6. `Messenger`*, `MessengerProofs`*: what the sessions promise together, implemented
   by `Session` (section 3).
7. `Accounts`*, `AccountsProofs`*: the tables and the queries (section 8).
8. `Columns`*: SET and ENUM objects (section 9).
9. `MCData`*: `Codec`, `Accounts` and `Columns` for TLC; `DataProofs`*: `Codec` and `Columns`
   for every string, number and name (section 12).
10. `WireProofs`*, `DialogProofs`*: what the receivers hold, and that they stay in step,
    for every build, buffer size and command (section 12).
11. `Backpressure`: clients that block on their own sends and never read.
12. The test client's command loop, its list of messages and its lock.

## 3. Session

One thread, one `CSocket` and one `Cont` per accepted connection, all named by
the connection (`Conn`); users are database IDs (`User`, 0 is `NoUser`).  A step
is one blocking call or one critical section.

| State | Code |
|---|---|
| `pc`, `frame`, `part`, `target`, `rows` | where a thread is, the frame it writes and how much of it, the user it looks up, the contact rows left |
| `Empfaenger` | the `User*` from `GetFromList` (`Kontakt` in `SendContactInformation`) |
| `ID`, `mpCont`, `mnRefCnt`, `ContLock` | `User::Cont` |
| `leaked` | `User` objects on the heap that nothing points to any more |
| `Userliste`, `ListenMutex` | namespace `Backend` |
| `peer`, `sock`, `mid` | the client's end, the descriptor, the unfinished frame at the end of the stream |

The path of a thread: `idle` - `auth` - `reply` - `insert` - `drop` - (own data)
`lock`, `send` - `contacts` with (`getlist`, `find`, `read`, `lock`, `send`) for
each row - `act` with (`getlist`, `find`, `lock`, `send`, `release`) for each
command - `leave` - `erase` - `delete` - `done`.  A failed authentication goes by
`refuse`; a failed `pthread_create` stops at `orphan`.

Abstractions.  A frame is a number of elements, one per `send` or
`sendStrWBLen` call; their bytes are not modelled.  The database answers
nondeterministically.  ADDUSEROK and unknown commands change nothing here.
Receive loops may end the session at any command (`Dialog` says when).
`SendStatus` does nothing: the statement at `main.cpp:177` (`select USER, from`)
is rejected by the server, so its loop has no row.  A `send` to a peer that has
gone is taken by the kernel or fails with EPIPE, as timing has it; it raises no signal,
since every thread makes a query before its first `send` and `mysql_init`, which makes
the query's connection, has SIGPIPE ignored.  Shutdown (`main` returning) is not modelled.

`Messenger` is what the sessions promise together, and has no threads, locks, counts
or elements: a user is online with one session at most; a relay looks up once who is
online, goes to that session, and is given up only if there was none; a connection's
turn to be written to passes on only when the frame is whole or its client has left.
`Session` maps to it by `Userliste` (who is online), `target` and `Empfaenger` of the
threads that relay (request and route), `ContLock`, or a login's answer (turn), and `mid`
(half).  Lookup and copy are one step of the abstract relay, the sign-on is the
`insert`, and everything between is a stutter.  That nothing waits or fails for want
of a lock is not part of it: liveness is checked on `Session`.

## 4. ConnPool

Each session thread takes connections with the `Query` objects of the functions
it calls, in their order: `Auth`, `SendContacts` with a nested query of
`SendContactInformation` per contact who is offline, `SendStatus`, `Act`,
`SendStatus`.  A step is a critical section of the pool's mutex, cut where `grabdb`
waits for the database server, or one call of a `Query`.

| State | Code |
|---|---|
| `pc`, `scope` | where a thread is, and in which function |
| `cand` | `odb` inside `grabdb`, before it is returned |
| `odb`, `res` | members of a `Query`; of a result, the rows left |
| `m_opendbs`, `busy`, `mutex` | the pool's list, its flags, its `Mutex` |
| `link`, `registered`, `answer` | whether the server still has the connection, whether the name is in table `user`, what the client is told |
| `destroyed` | `~Database` has run |

`ScanReuses`, `ScanFindsNone`, `Ping`, `Connect`, `ConnectFails` are `grabdb`;
`FreeDB` is `freedb`; `NothingToFree` the destructor of a query without a
connection.  A connection may be lost at any time (`LinkLost`) and stays in the
list, as in the code, where a failed ping does not take it out.  `OpenDB` is as
large as the number of connections that the database server accepts; a `Connect`
may fail for other reasons, too.  `DestroyPool` is `main` returning while sessions
run, which `main.cpp:346` allows: the destructor takes no lock.

`Lease` is what the pool promises: a connection is free or has one holder, a free
one is reused, and one is opened only when none is free.  That the mutex is held
from the scan to the end of the connect is what the last part rests on.

## 5. MBuffer

`MBuffer` is the memory with its size, end and position, in unsigned numbers of
`Word`, so that `CalcNextSize` of sizes near the top and the difference that
`Write` looks at wrap as they do.  Memory from `new` is `Junk` until it is written.
`Write` is the whole call: the refusal of what does not fit, the growth, the two
modes (`mbInStreamWriting`, `mbAlwaysAppend`), the end.  `ByteStream` is a sequence with
a position and a maximum and knows neither blocks nor memory.  Both return from `Write`
what the code does, the number of bytes written; `mbuffer.h:48` announces the position
(finding `WriteReturnsPos`).  Assumption: `MaxBytes + 2 * Block <= Word`, true by far of
8192, 1024 and 2^32.

## 6. Wire and Dialog

`Wire` is one direction of one connection: a sender, the network, the receives of
`CSocket`.  `WireServer` is `Auth` and `Act`; `WireClient` the test client's
`RecvHandler`; `Dialog` puts them together.  A step of a receiver is one receive and
what the code does up to the next.

| State | Code |
|---|---|
| `platform` | byte order, and whether `i386` is defined (`Protodefines.h:8`) |
| `receiver` | which of the two directions |
| `cur`, `toSend`, `sent` | what the sender is sending, its bytes still to arrive, what arrived whole |
| `wire`, `closed` | bytes that arrived; no more will |
| `pc`, `op`, `Befehl`, `ID`, `length`, `strings` | the receive a thread waits in, and its locals, bytes as they are in memory |
| `whole` | no receive without `MSG_WAITALL` was cut short |
| `refused`, `acted` | the database did not accept the client; what was carried out or reported |

A receive with `MSG_WAITALL` gets all it asks for, or less if the connection ends
first; one without gets what is there.  What it does not fill keeps its old bytes,
or `Junk` where the code initialises nothing.  A command's bytes are real: two
letters, lengths, IDs in network order, so a receiver that loses its place reads
text as commands, and the messages of the instance spell commands to make that show.

Two facts about builds came out of it.  `Auth` passes its command through `ntohs`
and `Act` does not, while the constants are swapped only where `i386` is defined:
a 32-bit x86 build does not recognise REGISTER, a 64-bit one recognises no command
after the login.  `Known` says which commands a build recognises, and the
properties speak of those.  They do not speak of empty strings and messages, of
messages longer than the receive buffer (which is below 2^16, as a message's length
has 16 bits), nor of the server's `AR` and `QU`, which the
test client does not know (`Plain`); these are sent all the same, and `TypeOK` covers
them.  `Reported` is the third exception: the test client checks nothing but that a
receive of its command got something, and nothing at all at the end of its own
information, so that when the connection ends the last frame may be one that was cut
off.

## 7. Codec

A string or a number on its way through a statement, the database and a row.
`Str`, `SafeStr`, `UnsafeStr`, `A2Bigint` and `A2Ubigint` are the code's loops;
`Literal`, how MySQL reads a string literal, is external; the properties compare with
what was given and with `Value`, what a text says in a base.  `ReadChar` is what MySQL does
at one character.  The loops are recursive functions on places of the string (digits:
on numbers), which the proofs can reason about.

## 8. Accounts

The table `user`, where a registration makes a row, and `kontaktlisten`, where ADDUSEROK
does.  A step is one query and what the thread does up to the next, so that
other sessions' queries come between AddUserToDB's INSERT and its query for the new
ID, and between IsUserInDB's two.  Each query may fail, also between the row and its
answer; the code then sees 0 or FALSE as if there were no row.

| State | Code |
|---|---|
| `user`, `kontaktlisten` | the tables; a row's ID is its place, `by` says who made it and is no column |
| `pc`, `request`, `ID`, `answer` | where a thread is, the strings it received, `Auth`'s ID and then its `User`'s, what it told the client |
| `argID` | the variable `ID` of `Act` |
| `failed` | whose queries had no answer; the properties speak of it |

`Stored` is what the tables make of a string.  The instance takes it from `Codec`, where
a character 0 is dropped, so two of its names are one for the table.  That names are
unique is taken from the code, which calls a failed INSERT "User bereits in DB!"; the
repository has no schema.  Nick, time zone, status and group are left out, as are
the commands that change neither table nor `argID`.

ADDUSEROK receives nothing of the ID that its client sends: it works with what the last
MESSAGE or ADDUSEROK left in `argID`, through `ntohl` once more, and its `Flag` is the first
byte of the ID on the wire (`FirstByte`).  What is left of the ID, and the flag that the
client meant, are read as commands, which the model has as commands of any kind.  So a
client that declines may be entered, in a list it did not name (finding
`AddsWhoWasAccepted`).  `ListedByOwner` says what holds all the same: the entry is always
the session's own user, who was let in with the name and password of its row.  The IDs
are unsigned 32-bit numbers and `str` takes an `int`, so from `Half`, that is 2^31, they are
written negative (`AsInt`).

## 9. Columns

The library's classes for SET and ENUM columns, which the server's tables do not
use.  Objects hold their column's map by reference, and operator[] inserts what it
does not find, so every object changes what the others read.  Numbers are sets of
bits.  The names of a SET have bits of their own (`SetBits`); an ENUM's are numbered, so its
numbers (`EnumNumbers`) differ and may have bits in common, as 1 and 3 do.  `members` is what an object was given, and what its text has to say.  An
`enum_t` keeps a map of its own, turned over, and makes it anew when its size differs
from the shared one's: enough as long as it was never asked for a number without
a name, which adds an entry (`unnamed`), and as long as the program defines no name
that was asked for before (`Define`).  `EnumKept` leaves out the objects that were: it is about
names that come into the shared map by other objects, and by the program.

## 10. Runs

| Run | Instance | Shows |
|---|---|---|
| `session_directory` | 3 connections, 2 users, 1 command, symmetry; 1.0 M states | counts, freed records, listed sessions, addressees: right in every order of sign-on, relay, sign-off and loss of a peer; `Messenger` is implemented |
| `session_frames` | 2 connections, 2 users, real frame lengths, 2 commands, 1 row; 1.6 M | frames never interleave; the inductive invariant of the proofs |
| `session_live` | 2 connections, 1 command; 82 k | every thread comes back to its client; sessions of clients that left end |
| `session_contacts` | 2 connections, contact lists of 1 row; 96 k | a client gets past its contact list, though two sessions read each other's records |
| `session_socket` | violation | the socket of a session that logged in is never closed |
| `pool` | 2 sessions, 4 queries, 2 connections, 1 row; 72 k | no connection has two holders or is lost, no result is left, `Lease` is implemented, nobody waits for ever |
| `pool_refusal` | violation | a registered user is told that the name is unknown |
| `mbuffer_stream` | blocks of 2, 4 bytes at most, 4-bit words; 21 k | every sequence of calls behaves as on a plain byte stream |
| `mbuffer_position` | violation | `Write` returns the bytes written, not the position |
| `wire_step` | 3 builds, both directions, 3 commands or frames, buffer of 2 bytes; 1.0 M | what was sent is what is carried out, nothing is carried out of what was cut off, all of it is in the end |
| `wire_addok` | violation | ADDUSEROK adds whom the client did not name |
| `codec_round` | strings of up to 4 of 6 characters, 8-bit numbers, bases 0 to 17; 2 clients, 3 names, 2 passwords, 3 IDs, 3 commands; 2 objects of a column of 2 names; 237 k | the round trips, and str in every base; who is let in, refused and listed; what SET and ENUM objects say |

Why the bounds are enough.  *Session*: three sessions are two rivals for a user and a
third who writes to one of them; with two users each can be the addressee or not.
A frame needs a middle, so two elements do where the length does not matter
(`ShortFrames`), and `session_frames` has the real ones.  The safety invariants are
proved for all sizes besides.  *Pool*: two connections for up to four queries is at
once reuse, growth and the limit; a third session only adds another waiter for the
mutex, and the proofs cover it.  *Buffer*: sizes below, at and above the maximum and
near the top of a word.  *Wire*: three commands are a login, one that leaves stale
variables, and one that could read them; a buffer of two bytes is filled and
overflowed.  *Codec*: every kind of character next to every other.  *Accounts*: two
clients are rivals for a name, or two names the table takes for one, with the right
password or the other; three commands are a message, the ADDUSEROK it leads to, and
one more that swaps the ID again; of the IDs, one begins with the byte that ADDUSEROK takes for
its flag, and its swapped form is one that `str` writes negative.  *Columns*: two objects
that share a map, names that come into it late, and the empty name, which is none of
the column's; an ENUM's two numbers have a bit in common, and two numbers have no name.  The proofs cover all sizes of these two.

Findings, with the lines they contradict, are in `PROJECT.json`: `SocketClosed`,
`RefusalIsTrue`, `AddsWhoWasAccepted`, `WriteReturnsPos`.  Seen without a run of their own:
shutdown while sessions run (section 4); the builds (section 6).

Some hazards are in the models and no property speaks against them, since nothing in the
repository says what should happen instead: copies that leak (`leaked`, which
`RefCountExact` counts as holders), sockets without a thread (`orphan`), commands that a
build does not recognise (`Known`), empty and over-long strings (`Plain`), a client that
is registered and not told so (`InsertUnanswered`, `NoNewID`), ENUM objects asked for a
number without a name (`unnamed`), IDs that `str` writes negative (`AsInt`).  `PROJECT.json` lists
them without properties, or says what the property leaves out.

## 11. Fairness

* Session: each thread is scheduled (`WF` of its `Step`); a writer blocked in `::send` is
  woken when its peer reads (`SF` of `Send`, since a peer may stall again between);
  a client that stopped reading reads again or leaves (`WF` of `PeerReads`).  The
  last is an assumption on clients, and a needed one: the code has no timeout, and
  a writer blocked by one client holds a lock that others wait for with the
  directory locked.
* Pool: `WF` of each thread's `Step`.  It says nothing of when a thread starts or `Act`
  returns, which are up to the clients, and leaves it to the database whether it
  answers or refuses, but not that it does neither for ever.
* Dialog: `WF` of the receiving thread and of `Deliver`, as TCP promises unless the
  connection breaks, which `Close` is and may happen or not.

## 12. Proofs

All for every value of the constants, under the named assumption of each module.

* `SessionProofs`: `Spec => []IInv`, where `IInv` is `TypeOK` and, each needing the
  others: `Shape` (what a thread's place says of its frame and of its copy), `Locks`
  (who holds which lock), `Directory` (an entry is a session of that user, there
  while its thread serves it), `Counts` (the count is the number of copies, as a
  cardinality), `Handles` (a copy is of a live record, of the user looked up),
  `Streams` (an unfinished frame belongs to the holder of the lock).  A relay reaches
  the addressee only because the copy is counted, and the count is right only
  because the lock is held, so none of them is inductive alone.  From it: type
  correctness, `RefCountExact`, `NoUseAfterFree`, `ListedSessions`,
  `RelayReachesUser`, `StreamInStep`, and the action property `FrameOrder`.
* `MessengerProofs`: `Messages`, step by step from `IInv`.  Every action of `Session` is one
  action of `Messenger` or leaves its state alone.  `Handles` has to know for it that a
  relay's copy is of the session that was listed, `Streams` that a lock is given
  back in the middle of a frame only if the client has left, `Directory` that no
  session signs off with a relay under way.
* `ConnPoolProofs`: `IInv` adds to exclusion and exact busy flags who may hold what where
  (`Scoped`), what the mutex's holder has seen (`Grabbing`) and that the pool's list
  has every connection of a query (`Pooled`).  `ScanFindsNone` has to know until the
  connect ends that no flag was cleared meanwhile; that is `Grabbing`, and why
  `Implements` (that is, `Leases`) holds.
* `AccountsProofs`: `IInv` adds to the three properties that rows differ in name and maker
  and are what their makers sent (`Makers`), and what a thread's place says of its
  answer, request and ID (`Places`).  A row's ID is asked for by its name: `NewID` gets the thread's own row only because of `Makers`.
* `MBufferProofs`: lemmas on `CalcNextSize` (a multiple of the block, no wrap below the
  maximum), the inductive `TypeOK`, `Bounds` and `NoJunk` (each a theorem), and `Implements` (`Stream`)
  with `Content`, the memory up to the end, for the stream.
* `DataProofs` on `Codec`: its four properties, for strings of any length over any bytes, for
  an `int` of any width up to that of `int64_t`, and for any base.  That MySQL
  takes each byte of a statement for a character is the assumption there: the code sets no
  character set, so a connection has the client library's default, a single-byte one.  `ValueInv` says what statement, row and program
  have of the value at each step; it rests on lemmas about the loops.  `SafeRead`:
  MySQL's reading of `SafeStr(s)` is `s` without characters 0, neither in an escape nor
  ended.  `UnsafeRead`: so is `UnsafeStr(SafeStr(s))`.  `StrSays`: `Str`'s text says the number.
  `NumberBack`: the getters' loops take it back, the least number too, whose opposite
  exists in the 64 bits of `Signed` only.
  These are inductions over data, made in sets rather than predicates, as a
  theorem on `P(_)` cannot be instantiated: `NatInd` and `SeqInd` say that a set with
  the first number or string and with each one's successors has all, from the
  well-foundedness of `<`.  A loop over a string is `Folds`: there is one function on
  strings that makes what the loop makes of each character (`FoldExists`, from
  `YieldsNext` and `YieldsOnce`), and the recursive function of the model ends with its
  result (`FoldLoop`), so that each loop has an equation for one character more.
* `DataProofs` on `Columns`: `SetKept` and `EnumKept` for any names and numbers.  A SET's number is
  the union of its names', which share no bit, and the shared map only gains entries.  An ENUM's map
  turns over a part of the shared one, with as many entries as that part has names
  because no two have the same number; so if the sizes are the same it is all of it.
* `WireProofs`: `TypeOK` of `Dialog`, for any commands, frames and builds.  Every receive
  fills its variable with bytes whatever the sender and the network did; with `Stage`
  the receiver of a string is in a command that has one more.
* `DialogProofs`: `InStep` and `EndsForCause`, for any commands, frames and builds and any
  buffer below 2^16.  `InStep` speaks of whole commands, and a receiver has parts of one,
  so the invariant `Follow` is about what is *still to come*: behind the place that the
  receiver is in there are the rest of its command (`ToCome`) and all the commands that were
  sent after it (`Stream`), of which the last one's `lost` may never arrive.  `Holds` says what
  the receiver has of its command already.  The lemmas on sequences say that a
  receive which gets all it asked for takes exactly the front of that (`PieceIs`,
  `PieceLeft`), and one that gets less has met the end of the last command
  (`PieceShort`), after which the receiver is `Adrift`: nothing is left, and it carries
  out nothing but, at most, the report that `Reported` leaves out (`Over`).  TLC checked `Follow`
  with `lost` and the tails computed from `sent` and `cur` on the instance of `wire_step` before.

Only model-checked: everything about liveness, which is out of the prover's reach;
`ContactsArrive`, `ServiceReturns`, `SessionEnds`, `NobodyWaitsForever`, `Served`; and the findings, where
TLC has the counterexample.  Every other property of a passing run is a theorem.

## 13. Not modelled

Columns of the tables that nothing depends on (nick, time zone, group, status);
status notifications beyond that nobody gets them; the test client's command loop
and its list of messages (nothing in the repository says what the list promises while
its lock is not taken) and its terminal input; `bind` and `listen` at start and the end
of the process beyond `~Database`; the logging classes, `xmlsafestr`,
`Database::Connected` and the single-header copy of the library, which the server
does not use; files outside the build (`TCPNet-old.cpp`,
`SendString.cpp`, `Makefile-old`).  A receive interrupted by a signal: no handler is
installed.
