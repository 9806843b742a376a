------------------------------ MODULE ConnPool ------------------------------
(***************************************************************************)
(* The pool of MySQL connections (Database::grabdb and freedb, under the   *)
(* pool's mutex) and the Query objects that session threads take           *)
(* connections with, in the order a session makes them: Auth,              *)
(* SendContacts with a nested Query for a contact who is offline,          *)
(* SendStatus, Act, SendStatus.                                            *)
(*                                                                         *)
(* A step is one critical section of the pool's mutex, cut where grabdb    *)
(* waits for the database server, or one call of a Query.                  *)
(***************************************************************************)
EXTENDS Integers, Sequences, FiniteSets

CONSTANTS Thread,   \* session threads
          OpenDB,   \* addresses for OPENDB, as many as the database server
                    \* accepts connections
          NULL,     \* no thread, no connection
          MaxRows   \* bound: rows of a result

ASSUME PoolAssumption ==
    /\ NULL \notin Thread \cup OpenDB
    /\ MaxRows \in Nat

\* The Query of a function, and the one SendContactInformation nests in it.
Query == Thread \X {1, 2}
NoRes == -1

VARIABLES
    pc,         \* what a thread does next
    scope,      \* the function whose Query it uses
    cand,       \* grabdb's odb, while the thread is in grabdb
    odb,        \* Query::odb
    res,        \* rows left in Query::res, or NoRes
    m_opendbs,  \* the connections of the pool, in the order of the list
    busy,       \* OPENDB::busy
    mutex,      \* the thread that holds the pool's mutex
    link,       \* "none", "up" or "lost": the database server's end
    registered, \* the user of the thread's client is in table user
    answer,     \* what Auth told the client: "none", or a flag
    destroyed   \* ~Database has run

threadVars == <<pc, scope, cand>>
queryVars  == <<odb, res>>
poolVars   == <<m_opendbs, busy, mutex>>
dbVars     == <<link, registered, answer>>
vars       == <<threadVars, queryVars, poolVars, dbVars, destroyed>>

Scopes == {"Auth", "SendContacts", "SendContactInformation",
           "SignOnStatus", "Act", "SignOffStatus"}

\* Positions in a function that are about to give SQL to the Query.
Asking == {"name", "passwort", "newid", "ask"}
Labels == Asking \cup {"new", "grab", "ping", "connect", "fetch", "done",
                       "free", "over"}

\* The Query of the function the thread is in.
Cur(t) == <<t, IF scope[t] = "SendContactInformation" THEN 2 ELSE 1>>

Pool == {m_opendbs[i] : i \in DOMAIN m_opendbs}

Init ==
    /\ pc = [t \in Thread |-> "new"]
    /\ scope = [t \in Thread |-> "Auth"]
    /\ cand = [t \in Thread |-> NULL]
    /\ odb = [q \in Query |-> NULL]
    /\ res = [q \in Query |-> NoRes]
    /\ m_opendbs = <<>>
    /\ busy = [d \in OpenDB |-> FALSE]
    /\ mutex = NULL
    /\ link = [d \in OpenDB |-> "none"]
    /\ registered \in [Thread -> BOOLEAN]
    /\ answer = [t \in Thread |-> "none"]
    /\ destroyed = FALSE

Goto(t, from, to) ==
    /\ pc[t] = from
    /\ pc' = [pc EXCEPT ![t] = to]

-----------------------------------------------------------------------------
\* Constructors of Query, and grabdb.

\* A function declares its Query.
Declare(t, s) ==
    /\ pc' = [pc EXCEPT ![t] = "grab"]
    /\ scope' = [scope EXCEPT ![t] = s]
    /\ UNCHANGED <<cand, queryVars, poolVars, dbVars>>

\* A client has sent LOGIN or REGISTER.
Start(t) ==
    /\ pc[t] = "new"
    /\ Declare(t, "Auth")

\* Mutant: The pool was made without a mutex, as Database's other constructors do.
ScanReusesUnlocked(t) ==
    /\ Goto(t, "grab", "ping")
    /\ \E i \in DOMAIN m_opendbs :
         /\ ~busy[m_opendbs[i]]
         /\ cand' = [cand EXCEPT ![t] = m_opendbs[i]]
    /\ UNCHANGED <<scope, queryVars, poolVars, dbVars>>

\* The scan stops at the first connection that is not busy.
ScanReuses(t) ==
    /\ Goto(t, "grab", "ping")
    /\ mutex = NULL
    /\ mutex' = t
    /\ \E i \in DOMAIN m_opendbs :
         /\ ~busy[m_opendbs[i]]
         /\ \A j \in 1 .. i - 1 : busy[m_opendbs[j]]
         /\ cand' = [cand EXCEPT ![t] = m_opendbs[i]]
    /\ UNCHANGED <<scope, queryVars, m_opendbs, busy, dbVars>>

\* Mutant: The mutex is released while the server is waited for.
ScanFindsNoneUnlocked(t) ==
    /\ Goto(t, "grab", "connect")
    /\ mutex = NULL
    /\ \A i \in DOMAIN m_opendbs : busy[m_opendbs[i]]
    /\ UNCHANGED <<scope, cand, queryVars, poolVars, dbVars>>

ScanFindsNone(t) ==
    /\ Goto(t, "grab", "connect")
    /\ mutex = NULL
    /\ mutex' = t
    /\ \A i \in DOMAIN m_opendbs : busy[m_opendbs[i]]
    /\ UNCHANGED <<scope, cand, queryVars, m_opendbs, busy, dbVars>>

\* Where a function goes on when its Query is made.
FirstUse(t) == IF scope[t] = "Auth" THEN "name" ELSE "ask"

\* Mutant: A connection is used as it was found, and its flag not set.
PingNotBusy(t) ==
    /\ Goto(t, "ping", FirstUse(t))
    /\ odb' = [odb EXCEPT ![Cur(t)] = cand[t]]
    /\ cand' = [cand EXCEPT ![t] = NULL]
    /\ mutex' = NULL
    /\ UNCHANGED <<scope, res, m_opendbs, busy, dbVars>>

\* mysql_ping: a lost link is found lost, or the client library makes it
\* again; either way the connection is handed out.
Ping(t) ==
    /\ Goto(t, "ping", FirstUse(t))
    /\ busy' = [busy EXCEPT ![cand[t]] = TRUE]
    /\ odb' = [odb EXCEPT ![Cur(t)] = cand[t]]
    /\ \/ UNCHANGED link
       \/ link' = [link EXCEPT ![cand[t]] = "up"]
    /\ cand' = [cand EXCEPT ![t] = NULL]
    /\ mutex' = NULL
    /\ UNCHANGED <<scope, res, m_opendbs, registered, answer>>

\* mysql_real_connect succeeds; new gives an address that is not in use.
Connect(t) ==
    /\ Goto(t, "connect", FirstUse(t))
    /\ \E d \in OpenDB \ Pool :
         /\ m_opendbs' = Append(m_opendbs, d)
         /\ busy' = [busy EXCEPT ![d] = TRUE]
         /\ odb' = [odb EXCEPT ![Cur(t)] = d]
         /\ link' = [link EXCEPT ![d] = "up"]
    /\ mutex' = NULL
    /\ UNCHANGED <<scope, cand, res, registered, answer>>

\* Mutant: A failed connect returns with the mutex locked.
ConnectFailsLocked(t) ==
    /\ Goto(t, "connect", FirstUse(t))
    /\ UNCHANGED <<scope, cand, queryVars, poolVars, dbVars>>

\* It fails: the Query has no connection, and its function goes on.
ConnectFails(t) ==
    /\ Goto(t, "connect", FirstUse(t))
    /\ mutex' = NULL
    /\ UNCHANGED <<scope, cand, queryVars, m_opendbs, busy, dbVars>>

-----------------------------------------------------------------------------
\* Calls of a Query.

\* SQL given to q reaches the database server: execute's and get_result's
\* conditions, and mysql_query's.
Answers(q) ==
    /\ odb[q] # NULL
    /\ res[q] = NoRes
    /\ link[odb[q]] = "up"

Reply(t, flag) == answer' = [answer EXCEPT ![t] = flag]

\* LOGIN, IsUserInDB.  get_count frees its own result; it is 0 for a name that
\* is not in the table and for a Query that could not ask.
NameFound(t) ==
    /\ Goto(t, "name", "passwort")
    /\ Answers(Cur(t)) /\ registered[t]
    /\ UNCHANGED <<scope, cand, queryVars, poolVars, dbVars>>

NameNotFound(t) ==
    /\ Goto(t, "name", "free")
    /\ ~(Answers(Cur(t)) /\ registered[t])
    /\ Reply(t, "U")
    /\ UNCHANGED <<scope, cand, queryVars, poolVars, link, registered>>

\* The password is right or wrong; a Query that cannot ask finds it wrong.
CheckPasswort(t) ==
    /\ Goto(t, "passwort", "free")
    /\ \/ Answers(Cur(t)) /\ Reply(t, "O")
       \/ Reply(t, "P")
    /\ UNCHANGED <<scope, cand, queryVars, poolVars, link, registered>>

\* REGISTER, AddUserToDB: execute, then get_count for the new ID.
InsertUser(t) ==
    /\ Goto(t, "name", "newid")
    /\ Answers(Cur(t)) /\ ~registered[t]
    /\ registered' = [registered EXCEPT ![t] = TRUE]
    /\ UNCHANGED <<scope, cand, queryVars, poolVars, link, answer>>

InsertFails(t) ==
    /\ Goto(t, "name", "free")
    /\ ~(Answers(Cur(t)) /\ ~registered[t])
    /\ Reply(t, "S")
    /\ UNCHANGED <<scope, cand, queryVars, poolVars, link, registered>>

NewID(t) ==
    /\ Goto(t, "newid", "free")
    /\ IF Answers(Cur(t)) THEN Reply(t, "O") ELSE UNCHANGED answer
    /\ UNCHANGED <<scope, cand, queryVars, poolVars, link, registered>>

\* get_result of SendContacts and SendContactInformation; SendStatus's SQL is
\* not accepted.
GetResult(t) ==
    /\ scope[t] # "Act"
    /\ Goto(t, "ask", "fetch")
    /\ IF Answers(Cur(t)) /\ scope[t] \in {"SendContacts", "SendContactInformation"}
       THEN \E n \in 0 .. MaxRows : res' = [res EXCEPT ![Cur(t)] = n]
       ELSE UNCHANGED res
    /\ UNCHANGED <<scope, cand, odb, poolVars, dbVars>>

\* Mutant: A row is counted off a result that has none.
HasRowAlways(t) == res[Cur(t)] >= NoRes

HasRow(t) == res[Cur(t)] > 0

TakeRow(t) == res' = [res EXCEPT ![Cur(t)] = @ - 1]

\* SendContacts has a row: the contact is online, or it takes a second Query.
FetchContact(t) ==
    /\ scope[t] = "SendContacts"
    /\ pc[t] = "fetch" /\ HasRow(t)
    /\ TakeRow(t)
    /\ \/ UNCHANGED <<pc, scope>>
       \/ /\ pc' = [pc EXCEPT ![t] = "grab"]
          /\ scope' = [scope EXCEPT ![t] = "SendContactInformation"]
    /\ UNCHANGED <<cand, odb, poolVars, dbVars>>

\* SendContactInformation reads the one row it needs.
FetchName(t) ==
    /\ scope[t] = "SendContactInformation"
    /\ Goto(t, "fetch", "done") /\ HasRow(t)
    /\ TakeRow(t)
    /\ UNCHANGED <<scope, cand, odb, poolVars, dbVars>>

FreeRes(t) == res' = [res EXCEPT ![Cur(t)] = NoRes]

\* Mutant: The early return comes before free_result.
ContactUnknownUnfreed(t) ==
    /\ scope[t] = "SendContactInformation"
    /\ Goto(t, "fetch", "free") /\ ~HasRow(t)
    /\ UNCHANGED <<scope, cand, queryVars, poolVars, dbVars>>

\* It has no row: free_result and the early return.
ContactUnknown(t) ==
    /\ scope[t] = "SendContactInformation"
    /\ Goto(t, "fetch", "free") /\ ~HasRow(t)
    /\ FreeRes(t)
    /\ UNCHANGED <<scope, cand, odb, poolVars, dbVars>>

NoMoreRows(t) ==
    /\ scope[t] # "SendContactInformation"
    /\ Goto(t, "fetch", "done") /\ ~HasRow(t)
    /\ UNCHANGED <<scope, cand, queryVars, poolVars, dbVars>>

FreeResult(t) ==
    /\ Goto(t, "done", "free")
    /\ FreeRes(t)
    /\ UNCHANGED <<scope, cand, odb, poolVars, dbVars>>

\* Act uses its Query for ADDUSER and ADDUSEROK, which free what they take;
\* it ends when its client leaves.
ActReturns(t) ==
    /\ scope[t] = "Act"
    /\ Goto(t, "ask", "free")
    /\ UNCHANGED <<scope, cand, queryVars, poolVars, dbVars>>

-----------------------------------------------------------------------------
\* Destructor of Query, and freedb.

\* The functions with a Query that follow one another.
Follow == [Auth          |-> "SendContacts",
           SendContacts |-> "SignOnStatus",
           SignOnStatus |-> "Act",
           Act          |-> "SignOffStatus"]

\* Where a thread goes when a Query has ended.  A session that is refused, or
\* whose user is online already, is over.
Proceed(t) ==
    \/ /\ scope[t] = "SendContactInformation"
       /\ scope' = [scope EXCEPT ![t] = "SendContacts"]
       /\ pc' = [pc EXCEPT ![t] = "fetch"]
    \/ /\ scope[t] \in DOMAIN Follow
       /\ scope[t] = "Auth" => answer[t] = "O"
       /\ scope' = [scope EXCEPT ![t] = Follow[scope[t]]]
       /\ pc' = [pc EXCEPT ![t] = "grab"]
    \/ /\ scope[t] \in {"Auth", "SignOffStatus"}
       /\ pc' = [pc EXCEPT ![t] = "over"]
       /\ UNCHANGED scope

\* Mutant: The destructor of a Query does not give the connection back.
FreeDBForgotten(t) ==
    /\ pc[t] = "free"
    /\ odb[Cur(t)] # NULL
    /\ odb' = [odb EXCEPT ![Cur(t)] = NULL]
    /\ FreeRes(t)
    /\ Proceed(t)
    /\ UNCHANGED <<cand, poolVars, dbVars>>

\* freedb, when the mutex is free.
FreeDB(t) ==
    /\ pc[t] = "free"
    /\ odb[Cur(t)] # NULL
    /\ mutex = NULL
    /\ busy' = [busy EXCEPT ![odb[Cur(t)]] = FALSE]
    /\ odb' = [odb EXCEPT ![Cur(t)] = NULL]
    /\ FreeRes(t)
    /\ Proceed(t)
    /\ UNCHANGED <<cand, m_opendbs, mutex, dbVars>>

\* A Query without a connection has nothing to give back.
NothingToFree(t) ==
    /\ pc[t] = "free"
    /\ odb[Cur(t)] = NULL
    /\ FreeRes(t)
    /\ Proceed(t)
    /\ UNCHANGED <<cand, odb, poolVars, dbVars>>

-----------------------------------------------------------------------------
\* The database server ends a connection: a timeout, a restart.
LinkLost(d) ==
    /\ link[d] = "up"
    /\ link' = [link EXCEPT ![d] = "lost"]
    /\ UNCHANGED <<threadVars, queryVars, poolVars, registered, answer>>

\* main has returned: ~Database, which does not take the mutex.
DestroyPool ==
    /\ m_opendbs' = <<>>
    /\ link' = [d \in OpenDB |-> "none"]
    /\ destroyed' = TRUE
    /\ UNCHANGED <<threadVars, queryVars, busy, mutex, registered, answer>>

GrabDB(t) == ScanReuses(t) \/ ScanFindsNone(t) \/ Ping(t) \/ Connect(t) \/ ConnectFails(t)

Use(t) ==
    \/ NameFound(t) \/ NameNotFound(t) \/ CheckPasswort(t)
    \/ InsertUser(t) \/ InsertFails(t) \/ NewID(t)
    \/ GetResult(t) \/ FetchContact(t) \/ FetchName(t) \/ ContactUnknown(t)
    \/ NoMoreRows(t) \/ FreeResult(t)

EndQuery(t) == FreeDB(t) \/ NothingToFree(t)

\* What the threads do after ~Database is undefined, and left out.
Next ==
    /\ ~destroyed
    /\ \/ /\ \/ \E t \in Thread : Start(t) \/ GrabDB(t) \/ Use(t) \/ ActReturns(t) \/ EndQuery(t)
             \/ \E d \in OpenDB : LinkLost(d)
          /\ UNCHANGED destroyed
       \/ DestroyPool

Spec == Init /\ [][Next]_vars

Step(t) ==
    /\ ~destroyed
    /\ GrabDB(t) \/ Use(t) \/ EndQuery(t)
    /\ UNCHANGED destroyed

\* Threads run, and the database server answers or refuses in the end.  A
\* client may stay in Act, and none has to come.
FairSpec == Spec /\ \A t \in Thread : WF_vars(Step(t))

-----------------------------------------------------------------------------
TypeOK ==
    /\ pc \in [Thread -> Labels]
    /\ scope \in [Thread -> Scopes]
    /\ cand \in [Thread -> OpenDB \cup {NULL}]
    /\ odb \in [Query -> OpenDB \cup {NULL}]
    /\ res \in [Query -> NoRes .. MaxRows]
    /\ m_opendbs \in Seq(OpenDB)
    /\ busy \in [OpenDB -> BOOLEAN]
    /\ mutex \in Thread \cup {NULL}
    /\ link \in [OpenDB -> {"none", "up", "lost"}]
    /\ registered \in [Thread -> BOOLEAN]
    /\ answer \in [Thread -> {"none", "O", "U", "P", "S"}]
    /\ destroyed \in BOOLEAN

\* "Each object instance of Query gets a unique database connection": no two
\* Query objects have the same, though the busy flag is set only after the
\* database server has answered a ping or a connect (Database.cpp:134-191).
Exclusive ==
    \A q, r \in Query : odb[q] # NULL /\ odb[q] = odb[r] => q = r

\* A connection of the pool is busy exactly while a Query has it: none is lost
\* to the pool when a session ends early or a constructor fails, and none is
\* free that is in use (grabdb, freedb and ~Query together).
BusyExact ==
    ~destroyed => \A d \in OpenDB : busy[d] <=> \E q \in Query : odb[q] = d

\* Whoever is about to give SQL to a Query, or to end it, has freed the result
\* before, so neither "query busy" nor "mysql_free_result in destructor"
\* (Query.cpp:75, 95, 120) is ever reported and no old row is taken for a new
\* answer, whatever of the calls in between failed.
ResultsFreed ==
    \A t \in Thread : pc[t] \in Asking \cup {"free"} => res[Cur(t)] = NoRes

\* Every session gets to the end or to Act, where it serves its client: it
\* does not wait for ever for the mutex or for a connection, although it holds
\* one Query while it makes the next and the pool may be at its limit.
NobodyWaitsForever ==
    \A t \in Thread :
        pc[t] \notin {"new", "over"} ~>
            \/ pc[t] = "over" \/ destroyed
            \/ scope[t] = "Act" /\ pc[t] = "ask"

\* The list, the flags and the mutex implement the leases of module Lease: in
\* particular the pool grows only when Query objects have all it holds, because
\* the mutex is held from the scan to the end of the connect.
L == INSTANCE Lease WITH open <- Pool, lease <- odb
Leases == L!Spec

\* "Login failed User not in DB" (main.cpp:64) is said of users who are not.
RefusalIsTrue == \A t \in Thread : answer[t] = "U" => ~registered[t]

\* The inductive invariant: who is in grabdb holds the mutex, what it found in
\* the scan is still so, only functions that run have a Query, and their
\* connections are in the list.
InGrab == {"ping", "connect"}

Grabbing ==
    \A t \in Thread :
        /\ mutex = t <=> pc[t] \in InGrab
        /\ pc[t] = "ping" => cand[t] \in Pool /\ ~busy[cand[t]]
        /\ pc[t] = "connect" => \A d \in Pool : busy[d]

ScopedAt(t) ==
    /\ pc[t] = "new" => scope[t] = "Auth"
    /\ pc[t] \in InGrab \cup {"new", "grab", "over"} => odb[Cur(t)] = NULL
    /\ pc[t] \notin {"fetch", "done"} => res[Cur(t)] = NoRes
    /\ scope[t] # "SendContactInformation" =>
           odb[<<t, 2>>] = NULL /\ res[<<t, 2>>] = NoRes

Scoped == \A t \in Thread : ScopedAt(t)

Pooled == \A q \in Query : odb[q] # NULL => odb[q] \in Pool

IInv == /\ TypeOK /\ Exclusive /\ Scoped /\ BusyExact
        /\ ~destroyed => Grabbing /\ Pooled

=============================================================================
