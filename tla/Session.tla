------------------------------- MODULE Session -------------------------------
(***************************************************************************)
(* The session layer of the server: one detached thread per accepted       *)
(* connection (ClientThread), the directory of the users that are online   *)
(* (Backend::Userliste under Backend::ListenMutex), the reference counted  *)
(* record of a session (User::Cont, whose Lock also serialises the frames  *)
(* written to its socket), and the frames the threads write to each other. *)
(*                                                                         *)
(* The thread, the CSocket and the User::Cont of a session are all named   *)
(* by the connection they belong to.  A step of the model is one blocking  *)
(* call or one critical section of the code; what a thread does between    *)
(* two of them touches only its own locals.                                *)
(***************************************************************************)
EXTENDS Integers, FiniteSets

CONSTANTS Conn,     \* connections the server accepts, each used once
          User,     \* IDs of table user
          NoConn,   \* no thread, no connection, end of the map
          NoUser,   \* ID 0: not authenticated, or a name that nobody has
          Parts,    \* how many elements each frame has, see Elements
          MaxCmds,  \* bound: commands all clients send altogether
          MaxRows   \* bound: rows of a contact list

\* The frames and their elements: one call of User::send or sendStrWBLen each.
\* "L" stands for both answers of Auth, "L" and "AR", of two elements each.
Elements == [L |-> 2, AC |-> 4, AL |-> 7, RM |-> 4, QU |-> 3]
Frame == DOMAIN Elements

ASSUME SessionAssumption ==
    /\ IsFiniteSet(Conn)
    /\ NoConn \notin Conn
    /\ NoUser \notin User
    /\ Parts \in [Frame -> Nat \ {0, 1}]
    /\ MaxCmds \in Nat
    /\ MaxRows \in Nat

VARIABLES
    pc,           \* what a thread does next
    frame,        \* the frame it is about to write or is writing
    part,         \* how many elements of that frame it has written
    target,       \* the user it looks up in the directory
    Empfaenger,   \* the session its copy of a User from GetFromList refers to
    rows,         \* contact rows its query has still to return
    cmds,         \* commands that may still arrive
    ID,           \* Cont::ID, the user of a session
    mpCont,       \* "none", "live" or "freed"
    mnRefCnt,     \* Cont::mnRefCnt
    ContLock,     \* the thread that holds Cont::Lock
    leaked,       \* heap copies of a User that nothing points to any more
    Userliste,    \* the directory: the session listed for a user
    ListenMutex,  \* the thread that holds the directory's mutex
    peer,         \* "none", "up", "stalled" (it stopped reading) or "gone"
    sock,         \* "none", "open" or "closed"
    mid           \* the unfinished frame at the end of a connection's stream

threadVars == <<pc, frame, part, target, Empfaenger, rows, cmds>>
contVars   == <<ID, mpCont, mnRefCnt, ContLock, leaked>>
listVars   == <<Userliste, ListenMutex>>
netVars    == <<peer, sock, mid>>
vars       == <<threadVars, contVars, listVars, netVars>>

\* The session has its entry in the directory (at "drop", if it got one).
Listed == {"lock", "send", "contacts", "getlist", "find", "read",
           "release", "act", "leave", "erase"}

\* The thread owns its heap object Client.
HasClient == Listed \cup {"insert", "drop", "delete"}

Labels == HasClient \cup {"idle", "auth", "reply", "refuse", "orphan", "done"}

Whole == [by |-> NoConn, part |-> 0]

Relays == {"RM", "QU"}

\* The session a thread writes its frame to.
Dest(t) == IF frame[t] \in Relays THEN Empfaenger[t] ELSE t

Borrowers(c) == {t \in Conn : Empfaenger[t] = c}

Count(b) == IF b THEN 1 ELSE 0

TypeOK ==
    /\ pc \in [Conn -> Labels]
    /\ frame \in [Conn -> Frame]
    /\ part \in [Conn -> Nat]
    /\ \A t \in Conn : part[t] <= Parts[frame[t]]
    /\ target \in [Conn -> User \cup {NoUser}]
    /\ Empfaenger \in [Conn -> Conn \cup {NoConn}]
    /\ rows \in [Conn -> SUBSET User]
    /\ cmds \in 0..MaxCmds
    /\ ID \in [Conn -> User \cup {NoUser}]
    /\ mpCont \in [Conn -> {"none", "live", "freed"}]
    /\ mnRefCnt \in [Conn -> Int]
    /\ ContLock \in [Conn -> Conn \cup {NoConn}]
    /\ leaked \in [Conn -> Nat]
    /\ Userliste \in [User -> Conn \cup {NoConn}]
    /\ ListenMutex \in Conn \cup {NoConn}
    /\ peer \in [Conn -> {"none", "up", "stalled", "gone"}]
    /\ sock \in [Conn -> {"none", "open", "closed"}]
    /\ mid \in [Conn -> [by : Conn \cup {NoConn}, part : Nat]]

Init ==
    /\ pc = [c \in Conn |-> "idle"]
    /\ frame = [c \in Conn |-> "L"]
    /\ part = [c \in Conn |-> 0]
    /\ target = [c \in Conn |-> NoUser]
    /\ Empfaenger = [c \in Conn |-> NoConn]
    /\ rows = [c \in Conn |-> {}]
    /\ cmds = MaxCmds
    /\ ID = [c \in Conn |-> NoUser]
    /\ mpCont = [c \in Conn |-> "none"]
    /\ mnRefCnt = [c \in Conn |-> 0]
    /\ ContLock = [c \in Conn |-> NoConn]
    /\ leaked = [c \in Conn |-> 0]
    /\ Userliste = [u \in User |-> NoConn]
    /\ ListenMutex = NoConn
    /\ peer = [c \in Conn |-> "none"]
    /\ sock = [c \in Conn |-> "none"]
    /\ mid = [c \in Conn |-> Whole]

Goto(t, l) == pc' = [pc EXCEPT ![t] = l]

\* A thread starts on a frame for the user u, or on one of its own (NoUser).
Begin(t, f, u) ==
    /\ frame' = [frame EXCEPT ![t] = f]
    /\ part' = [part EXCEPT ![t] = 0]
    /\ target' = [target EXCEPT ![t] = u]

\* The frame's locals go out of scope.
Forget(t) == Begin(t, "L", NoUser)

-----------------------------------------------------------------------------
(* The reference counted Cont.                                             *)

\* Mutant: the pointer is copied and nothing is counted.
CopyUncounted(c) ==
    /\ ContLock[c] = NoConn
    /\ UNCHANGED mnRefCnt

\* The copy constructor: the count goes up under the Cont's own lock.
Copy(c) ==
    /\ ContLock[c] = NoConn
    /\ mnRefCnt' = [mnRefCnt EXCEPT ![c] = @ + 1]

\* The destructor: the last copy frees the Cont (but closes no socket).
Destroy(c) ==
    /\ ContLock[c] = NoConn
    /\ mnRefCnt' = [mnRefCnt EXCEPT ![c] = @ - 1]
    /\ mpCont' = IF mnRefCnt[c] = 1 THEN [mpCont EXCEPT ![c] = "freed"]
                                    ELSE mpCont

-----------------------------------------------------------------------------
(* Accepting and authenticating.                                           *)

\* The client's thread starts.  The result of pthread_create is ignored: when it
\* fails nobody serves the socket.
NewUser(c) == Goto(c, "auth") \/ Goto(c, "orphan")

\* The accept thread makes the CSocket and hands it to NewUser.
Accept(c) ==
    /\ pc[c] = "idle"
    /\ NewUser(c)
    /\ peer' = [peer EXCEPT ![c] = "up"]
    /\ sock' = [sock EXCEPT ![c] = "open"]
    /\ UNCHANGED <<frame, part, target, Empfaenger, rows, cmds, contVars,
                   listVars, mid>>

\* Nothing usable arrived: an unknown command, or the connection broke.
AuthError(c) ==
    /\ pc[c] = "auth"
    /\ Goto(c, "refuse")
    /\ UNCHANGED <<frame, part, target, Empfaenger, rows, cmds, contVars,
                   listVars, netVars>>

\* A login or a registration was read.  The database knows the user u (NoUser:
\* unknown user, wrong password, or a name already registered), and the
\* answer goes out before anybody looks whether u is online already.
AuthAnswer(c, u) ==
    /\ pc[c] = "auth"
    /\ Goto(c, "reply")
    /\ Begin(c, "L", NoUser)
    /\ ID' = [ID EXCEPT ![c] = u]
    /\ UNCHANGED <<Empfaenger, rows, cmds, mpCont, mnRefCnt, ContLock, leaked,
                   listVars, netVars>>

\* The answer is out, whether or not it arrived: make the User and its Cont.
NewClient(c) ==
    /\ pc[c] = "reply" /\ part[c] = Parts["L"]
    /\ ID[c] # NoUser
    /\ Goto(c, "insert") /\ Forget(c)
    /\ mpCont' = [mpCont EXCEPT ![c] = "live"]
    /\ mnRefCnt' = [mnRefCnt EXCEPT ![c] = 1]
    /\ UNCHANGED <<Empfaenger, rows, cmds, ID, ContLock,
                   leaked, listVars, netVars>>

NoClient(c) ==
    /\ pc[c] = "reply" /\ part[c] = Parts["L"]
    /\ ID[c] = NoUser
    /\ Goto(c, "refuse") /\ Forget(c)
    /\ UNCHANGED <<Empfaenger, rows, cmds, contVars,
                   listVars, netVars>>

\* delete MyConn: the only place where the socket of a client is closed.
Refuse(c) ==
    /\ pc[c] = "refuse"
    /\ Goto(c, "done")
    /\ sock' = [sock EXCEPT ![c] = "closed"]
    /\ UNCHANGED <<frame, part, target, Empfaenger, rows, cmds, contVars,
                   listVars, peer, mid>>

-----------------------------------------------------------------------------
(* Signing on.                                                             *)

\* Mutant: the copy for the node is counted although insert made no node.
AddUserCountsTwo(c) ==
    LET fresh == Userliste[ID[c]] = NoConn
    IN  /\ pc[c] = "insert"
        /\ ListenMutex = NoConn /\ ContLock[c] = NoConn
        /\ Goto(c, "drop")
        /\ mnRefCnt' = [mnRefCnt EXCEPT ![c] = @ + 2]
        /\ Userliste' = IF fresh THEN [Userliste EXCEPT ![ID[c]] = c]
                                 ELSE Userliste
        /\ UNCHANGED <<frame, part, target, Empfaenger, rows, cmds, ID, mpCont,
                       ContLock, leaked, ListenMutex, netVars>>

\* Mutant: the new session takes the entry over, as Userliste[ID] = would.
AddUserOverwrites(c) ==
    /\ pc[c] = "insert"
    /\ ListenMutex = NoConn /\ ContLock[c] = NoConn
    /\ Goto(c, "drop")
    /\ mnRefCnt' = [mnRefCnt EXCEPT ![c] = @ + 2]
    /\ Userliste' = [Userliste EXCEPT ![ID[c]] = c]
    /\ UNCHANGED <<frame, part, target, Empfaenger, rows, cmds, ID, mpCont,
                   ContLock, leaked, ListenMutex, netVars>>

\* A local copy oClient is made, and std::map::insert makes another one in
\* the new node, unless the user has an entry already.
AddUserToList(c) ==
    LET fresh == Userliste[ID[c]] = NoConn
    IN  /\ pc[c] = "insert"
        /\ ListenMutex = NoConn /\ ContLock[c] = NoConn
        /\ Goto(c, "drop")
        /\ mnRefCnt' = [mnRefCnt EXCEPT ![c] = @ + 1 + Count(fresh)]
        /\ Userliste' = IF fresh THEN [Userliste EXCEPT ![ID[c]] = c]
                                 ELSE Userliste
        /\ UNCHANGED <<frame, part, target, Empfaenger, rows, cmds, ID, mpCont,
                       ContLock, leaked, ListenMutex, netVars>>

\* oClient goes out of scope.  A session that is not listed is given up at
\* once; one that is listed sends its own data first (SendOwnInformation).
DropCopy(c) ==
    /\ pc[c] = "drop"
    /\ Destroy(c)
    /\ IF Userliste[ID[c]] = c
       THEN Goto(c, "lock") /\ Begin(c, "AC", NoUser)
       ELSE Goto(c, "delete") /\ UNCHANGED <<frame, part, target>>
    /\ UNCHANGED <<Empfaenger, rows, cmds, ID, ContLock, leaked, listVars,
                   netVars>>

-----------------------------------------------------------------------------
(* Writing a frame.                                                        *)

\* Mutant: no lock is waited for.
LockContAnyway(t) ==
    /\ pc[t] = "lock"
    /\ ContLock' = [ContLock EXCEPT ![Dest(t)] = t]
    /\ Goto(t, "send")
    /\ UNCHANGED <<frame, part, target, Empfaenger, rows, cmds, ID, mpCont,
                   mnRefCnt, leaked, listVars, netVars>>

\* Mutant: the sender locks its own session, not the one it writes to.
LockContOwn(t) ==
    /\ pc[t] = "lock"
    /\ ContLock[t] = NoConn
    /\ ContLock' = [ContLock EXCEPT ![t] = t]
    /\ Goto(t, "send")
    /\ UNCHANGED <<frame, part, target, Empfaenger, rows, cmds, ID, mpCont,
                   mnRefCnt, leaked, listVars, netVars>>

\* User::Lock of the session the frame goes to.
LockCont(t) ==
    /\ pc[t] = "lock"
    /\ ContLock[Dest(t)] = NoConn
    /\ ContLock' = [ContLock EXCEPT ![Dest(t)] = t]
    /\ Goto(t, "send")
    /\ UNCHANGED <<frame, part, target, Empfaenger, rows, cmds, ID, mpCont,
                   mnRefCnt, leaked, listVars, netVars>>

\* Mutant: one element too many.
WritingPast(t) ==
    /\ pc[t] \in {"reply", "send"}
    /\ part[t] <= Parts[frame[t]]

Writing(t) ==
    /\ pc[t] \in {"reply", "send"}
    /\ part[t] < Parts[frame[t]]

\* The element goes into the socket's buffer.
SendPart(t) ==
    LET d == Dest(t)
        n == part[t] + 1
    IN  /\ Writing(t)
        /\ peer[d] = "up"
        /\ part' = [part EXCEPT ![t] = n]
        /\ mid' = [mid EXCEPT ![d] = IF n = Parts[frame[t]]
                                     THEN Whole
                                     ELSE [by |-> t, part |-> n]]
        /\ UNCHANGED <<pc, frame, target, Empfaenger, rows, cmds, contVars,
                       listVars, peer, sock>>

\* The peer has left.  The kernel still takes the element, or the call fails
\* and the rest of the frame is skipped; SendOwnInformation overwrites the
\* result of its first two elements and goes on.  The failed call raises no
\* signal: every frame comes after a query, and mysql_init (Database.cpp:154),
\* which a query's connection is made with, has SIGPIPE ignored.
SendFails(t) ==
    /\ Writing(t)
    /\ peer[Dest(t)] = "gone"
    /\ \/ part' = [part EXCEPT ![t] = @ + 1]
       \/ /\ ~(frame[t] = "AC" /\ part[t] < 2)
          /\ part' = [part EXCEPT ![t] = Parts[frame[t]]]
    /\ UNCHANGED <<pc, frame, target, Empfaenger, rows, cmds, contVars,
                   listVars, netVars>>

\* Mutant: a failed send returns before Unlock.
UnlockSkipped(t, f) ==
    /\ pc[t] = "send" /\ frame[t] = f /\ part[t] = Parts[f]
    /\ ContLock' = IF peer[Dest(t)] = "gone"
                   THEN ContLock
                   ELSE [ContLock EXCEPT ![Dest(t)] = NoConn]

\* The frame is complete or given up: User::Unlock.
Unlock(t, f) ==
    /\ pc[t] = "send" /\ frame[t] = f /\ part[t] = Parts[f]
    /\ ContLock' = [ContLock EXCEPT ![Dest(t)] = NoConn]

-----------------------------------------------------------------------------
(* The contact list of a client that signs on.                             *)

\* SendContacts runs its query once its own data are out.
OwnInformationSent(t) ==
    /\ Unlock(t, "AC")
    /\ \E r \in SUBSET User : /\ Cardinality(r) <= MaxRows
                             /\ rows' = [rows EXCEPT ![t] = r]
    /\ Goto(t, "contacts") /\ Forget(t)
    /\ UNCHANGED <<Empfaenger, cmds, ID, mpCont, mnRefCnt,
                   leaked, listVars, netVars>>

NextContact(t) ==
    /\ pc[t] = "contacts"
    /\ \E u \in rows[t] : /\ Begin(t, "AL", u)
                          /\ rows' = [rows EXCEPT ![t] = @ \ {u}]
    /\ Goto(t, "getlist")
    /\ UNCHANGED <<Empfaenger, cmds, contVars, listVars, netVars>>

\* Mutant: the contact's session stays locked.
ReadContactLocked(t) ==
    LET c == Empfaenger[t]
    IN  /\ pc[t] = "read"
        /\ ContLock[c] = NoConn
        /\ ContLock' = [ContLock EXCEPT ![c] = t]
        /\ leaked' = [leaked EXCEPT ![c] = @ + 1]
        /\ Empfaenger' = [Empfaenger EXCEPT ![t] = NoConn]
        /\ Goto(t, "lock")
        /\ UNCHANGED <<frame, part, target, rows, cmds, ID, mpCont, mnRefCnt,
                       listVars, netVars>>

\* The name of a contact that is online is read under that session's lock.
\* The copy that GetFromList made is never deleted.
ReadContact(t) ==
    LET c == Empfaenger[t]
    IN  /\ pc[t] = "read"
        /\ ContLock[c] = NoConn
        /\ leaked' = [leaked EXCEPT ![c] = @ + 1]
        /\ Empfaenger' = [Empfaenger EXCEPT ![t] = NoConn]
        /\ Goto(t, "lock")
        /\ UNCHANGED <<frame, part, target, rows, cmds, ID, mpCont, mnRefCnt,
                       ContLock, listVars, netVars>>

ContactSent(t) ==
    /\ Unlock(t, "AL")
    /\ Goto(t, "contacts") /\ Forget(t)
    /\ UNCHANGED <<Empfaenger, rows, cmds, ID, mpCont,
                   mnRefCnt, leaked, listVars, netVars>>

\* No rows are left.  SendStatus follows; the server rejects its query, so it
\* finds no row and tells nobody.
ContactsDone(t) ==
    /\ pc[t] = "contacts" /\ rows[t] = {}
    /\ Goto(t, "act")
    /\ UNCHANGED <<frame, part, target, Empfaenger, rows, cmds, contVars,
                   listVars, netVars>>

-----------------------------------------------------------------------------
(* GetFromList.                                                            *)

EnterList(t) ==
    /\ pc[t] = "getlist"
    /\ ListenMutex = NoConn
    /\ ListenMutex' = t
    /\ Goto(t, "find")
    /\ UNCHANGED <<frame, part, target, Empfaenger, rows, cmds, contVars,
                   Userliste, netVars>>

\* Mutant: lower_bound instead of find, any other entry will do.
LookupNext(u) ==
    LET hits == {Userliste[v] : v \in User} \ {NoConn}
    IN  IF u \in User /\ Userliste[u] # NoConn THEN Userliste[u]
        ELSE IF hits = {} THEN NoConn ELSE CHOOSE c \in hits : TRUE

Lookup(u) == IF u = NoUser THEN NoConn ELSE Userliste[u]

\* The entry is copied while the directory is locked, so a thread that waits
\* for the Cont's lock here keeps everybody out of the directory.
Found(t) ==
    LET c == Lookup(target[t])
    IN  /\ pc[t] = "find"
        /\ c # NoConn
        /\ Copy(c)
        /\ Empfaenger' = [Empfaenger EXCEPT ![t] = c]
        /\ ListenMutex' = NoConn
        /\ Goto(t, IF frame[t] = "AL" THEN "read" ELSE "lock")
        /\ UNCHANGED <<frame, part, target, rows, cmds, ID, mpCont, ContLock,
                       leaked, Userliste, netVars>>

\* Mutant: the early return forgets to unlock the directory.
NotFoundHolding(t) ==
    /\ pc[t] = "find"
    /\ Lookup(target[t]) = NoConn
    /\ \/ frame[t] \in Relays /\ Goto(t, "act") /\ Forget(t)
       \/ frame[t] = "AL" /\ Goto(t, "contacts") /\ Forget(t)
       \/ frame[t] = "AL" /\ Goto(t, "lock") /\ UNCHANGED <<frame, part, target>>
    /\ UNCHANGED <<Empfaenger, rows, cmds, contVars, listVars, netVars>>

\* Mutant: an addressee who is listed is not found.
NotFoundAnyway(t) ==
    /\ pc[t] = "find"
    /\ ListenMutex' = NoConn
    /\ \/ frame[t] \in Relays /\ Goto(t, "act") /\ Forget(t)
       \/ frame[t] = "AL" /\ Goto(t, "contacts") /\ Forget(t)
       \/ frame[t] = "AL" /\ Goto(t, "lock") /\ UNCHANGED <<frame, part, target>>
    /\ UNCHANGED <<Empfaenger, rows, cmds, contVars, Userliste, netVars>>

\* Nobody is listed: a relay is given up; a contact is read from the database,
\* which may have no row for it.
NotFound(t) ==
    /\ pc[t] = "find"
    /\ Lookup(target[t]) = NoConn
    /\ ListenMutex' = NoConn
    /\ \/ frame[t] \in Relays /\ Goto(t, "act") /\ Forget(t)
       \/ frame[t] = "AL" /\ Goto(t, "contacts") /\ Forget(t)
       \/ frame[t] = "AL" /\ Goto(t, "lock") /\ UNCHANGED <<frame, part, target>>
    /\ UNCHANGED <<Empfaenger, rows, cmds, contVars, Userliste, netVars>>

-----------------------------------------------------------------------------
(* Act: one command of the client after the other.                         *)

\* MESSAGE (RM) and ADDUSER (QU), addressed to u; NoUser is a user that the
\* database does not know.
RecvRelay(t, f, u) ==
    /\ pc[t] = "act" /\ cmds > 0
    /\ cmds' = cmds - 1
    /\ Begin(t, f, u)
    /\ Goto(t, "getlist")
    /\ UNCHANGED <<Empfaenger, rows, contVars, listVars, netVars>>

\* ADDUSEROK and unknown commands change no state of the session layer.
RecvOther(t) ==
    /\ pc[t] = "act" /\ cmds > 0
    /\ cmds' = cmds - 1
    /\ UNCHANGED <<pc, frame, part, target, Empfaenger, rows, contVars,
                   listVars, netVars>>

\* A receive returned 0 or -1: the peer has left, or it sent a length of zero.
RecvEnd(t) ==
    /\ pc[t] = "act"
    /\ Goto(t, "leave")
    /\ UNCHANGED <<frame, part, target, Empfaenger, rows, cmds, contVars,
                   listVars, netVars>>

MessageSent(t) ==
    /\ Unlock(t, "RM")
    /\ Goto(t, "release") /\ Forget(t)
    /\ UNCHANGED <<Empfaenger, rows, cmds, ID, mpCont,
                   mnRefCnt, leaked, listVars, netVars>>

\* delete Empfaenger
DeleteEmpfaenger(t) ==
    /\ pc[t] = "release"
    /\ Destroy(Empfaenger[t])
    /\ Empfaenger' = [Empfaenger EXCEPT ![t] = NoConn]
    /\ Goto(t, "act")
    /\ UNCHANGED <<frame, part, target, rows, cmds, ID, ContLock, leaked,
                   listVars, netVars>>

\* SendAddQuestion never deletes its copy.
QuestionSent(t) ==
    /\ Unlock(t, "QU")
    /\ leaked' = [leaked EXCEPT ![Empfaenger[t]] = @ + 1]
    /\ Empfaenger' = [Empfaenger EXCEPT ![t] = NoConn]
    /\ Goto(t, "act") /\ Forget(t)
    /\ UNCHANGED <<rows, cmds, ID, mpCont, mnRefCnt,
                   listVars, netVars>>

-----------------------------------------------------------------------------
(* Signing off.                                                            *)

EnterListToLeave(c) ==
    /\ pc[c] = "leave"
    /\ ListenMutex = NoConn
    /\ ListenMutex' = c
    /\ Goto(c, "erase")
    /\ UNCHANGED <<frame, part, target, Empfaenger, rows, cmds, contVars,
                   Userliste, netVars>>

\* The node's copy is destroyed while the directory is locked.
Erase(c) ==
    /\ pc[c] = "erase"
    /\ Destroy(c)
    /\ Userliste' = [Userliste EXCEPT ![ID[c]] = NoConn]
    /\ ListenMutex' = NoConn
    /\ Goto(c, "delete")
    /\ UNCHANGED <<frame, part, target, Empfaenger, rows, cmds, ID, ContLock,
                   leaked, netVars>>

DeleteClient(c) ==
    /\ pc[c] = "delete"
    /\ Destroy(c)
    /\ Goto(c, "done")
    /\ UNCHANGED <<frame, part, target, Empfaenger, rows, cmds, ID, ContLock,
                   leaked, listVars, netVars>>

-----------------------------------------------------------------------------
(* The peers.                                                              *)

SetPeer(c, from, to) ==
    /\ peer[c] \in from
    /\ peer' = [peer EXCEPT ![c] = to]
    /\ UNCHANGED <<threadVars, contVars, listVars, sock, mid>>

\* The client stops reading and the buffers on the way are full: ::send blocks.
\* Only who writes to it notices.
PeerStalls(c) ==
    /\ \E t \in Conn : Writing(t) /\ Dest(t) = c
    /\ SetPeer(c, {"up"}, "stalled")

PeerReads(c)  == SetPeer(c, {"stalled"}, "up")
PeerGone(c)   == SetPeer(c, {"up", "stalled"}, "gone")

\* Every connection has been served.
Finished ==
    /\ \A c \in Conn : pc[c] \in {"done", "orphan"}
    /\ UNCHANGED vars

-----------------------------------------------------------------------------

SignOn(c) ==
    \/ AuthError(c)
    \/ \E u \in User \cup {NoUser} : AuthAnswer(c, u)
    \/ NewClient(c) \/ NoClient(c) \/ Refuse(c)
    \/ AddUserToList(c) \/ DropCopy(c)

Send(t) == SendPart(t) \/ SendFails(t)

SendContacts(t) ==
    \/ OwnInformationSent(t) \/ NextContact(t) \/ ReadContact(t)
    \/ ContactSent(t) \/ ContactsDone(t)

GetFromList(t) == EnterList(t) \/ Found(t) \/ NotFound(t)

RecvCommand(t) ==
    \/ \E f \in Relays, u \in User \cup {NoUser} : RecvRelay(t, f, u)
    \/ RecvOther(t)

Relay(t) == MessageSent(t) \/ DeleteEmpfaenger(t) \/ QuestionSent(t)

SignOff(c) == EnterListToLeave(c) \/ Erase(c) \/ DeleteClient(c)

Peer(c) == PeerStalls(c) \/ PeerReads(c) \/ PeerGone(c)

Next ==
    \/ \E c \in Conn :
          \/ Accept(c) \/ SignOn(c) \/ LockCont(c) \/ Send(c)
          \/ SendContacts(c) \/ GetFromList(c)
          \/ RecvCommand(c) \/ RecvEnd(c) \/ Relay(c)
          \/ SignOff(c) \/ Peer(c)
    \/ Finished

Spec == Init /\ [][Next]_vars

\* What a thread does without waiting for its client.  When the client has
\* left, the pending receive returns as well.
Step(c) ==
    \/ NewClient(c) \/ NoClient(c) \/ Refuse(c)
    \/ AddUserToList(c) \/ DropCopy(c) \/ LockCont(c)
    \/ SendContacts(c) \/ GetFromList(c) \/ Relay(c) \/ SignOff(c)
    \/ peer[c] = "gone" /\ (AuthError(c) \/ RecvEnd(c))

\* Threads are scheduled; a writer blocked in ::send is woken when the peer
\* reads; and a client that stopped reading reads again, or leaves.  The last
\* is an assumption on the clients, without which nothing below holds.
Fairness == \A c \in Conn : /\ WF_vars(Step(c))
                            /\ SF_vars(Send(c))
                            /\ WF_vars(PeerReads(c))

FairSpec == Spec /\ Fairness

-----------------------------------------------------------------------------
(* Safety.                                                                 *)

\* Everything that holds a copy of the User of session c.
Copies(c) ==
    Count(pc[c] \in HasClient) + Count(pc[c] = "drop")
    + Count(ID[c] # NoUser /\ Userliste[ID[c]] = c)
    + Cardinality(Borrowers(c)) + leaked[c]

\* The count of a Cont is the number of User objects that refer to it (the
\* thread's Client, the local oClient, the map's node, the copies GetFromList
\* made, those nobody deletes included), and the Cont is freed when there are
\* none and not before (User's copy constructor and destructor).
RefCountExact ==
    \A c \in Conn : /\ mnRefCnt[c] = Copies(c)
                    /\ mpCont[c] = "live" <=> mnRefCnt[c] > 0

\* No thread reaches a freed Cont: not its own through Client, not another's
\* through the copy from GetFromList, and none through the directory.
NoUseAfterFree ==
    /\ \A t \in Conn : pc[t] \in HasClient => mpCont[t] = "live"
    /\ \A t \in Conn : Empfaenger[t] # NoConn => mpCont[Empfaenger[t]] = "live"
    /\ \A u \in User : Userliste[u] # NoConn => mpCont[Userliste[u]] = "live"

\* The directory lists a session for exactly as long as ClientThread serves it
\* (between AddUserToList and erase), under its own user.  So a user never has
\* two sessions, and signing off never takes another session's entry away.
ListedSessions ==
    /\ \A u \in User : Userliste[u] # NoConn =>
           ID[Userliste[u]] = u /\ pc[Userliste[u]] \in Listed \cup {"drop"}
    /\ \A c \in Conn : pc[c] \in Listed => Userliste[ID[c]] = c

\* What SendMessage and SendAddQuestion write goes to a session of the user
\* that the command named, one that was signed on, even if its entry has gone
\* or been replaced since GetFromList returned.
RelayReachesUser ==
    \A t \in Conn :
        pc[t] \in {"lock", "send"} /\ frame[t] \in Relays =>
            /\ ID[Empfaenger[t]] = target[t]
            /\ pc[Empfaenger[t]] \in HasClient \cup {"done"}
            /\ pc[Empfaenger[t]] # "insert"

\* On a connection whose peer is there, the unfinished frame is the one of the
\* thread that holds the session's lock, or the thread's own answer to a login,
\* and as long as that thread believes: between frames nothing is left over.
StreamInStep ==
    \A d \in Conn : peer[d] # "gone" =>
        \/ mid[d] = Whole
        \/ \E t \in Conn :
              /\ \/ pc[t] = "send" /\ ContLock[d] = t
                 \/ pc[t] = "reply" /\ t = d
              /\ Dest(t) = d
              /\ mid[d] = [by |-> t, part |-> part[t]]
              /\ part[t] < Parts[frame[t]]

\* Frames are written to a connection one at a time: an element starts a frame
\* where the last one is complete, or is the next one of the same writer's
\* frame.  No two threads' sends interleave within a frame.
FrameStep(d) ==
    \/ mid'[d] = mid[d]
    \/ mid'[d] = Whole
    \/ mid[d] = Whole /\ mid'[d].part = 1
    \/ mid'[d].by = mid[d].by /\ mid'[d].part = mid[d].part + 1

FrameOrder == [][\A d \in Conn : FrameStep(d)]_vars

Relaying(t) == frame[t] \in Relays

Request == [t \in Conn |-> IF Relaying(t) THEN target[t] ELSE NoUser]
Route   == [t \in Conn |-> IF Relaying(t) THEN Empfaenger[t] ELSE NoConn]
Turn    == [d \in Conn |-> IF pc[d] = "reply" THEN d ELSE ContLock[d]]
Half    == [d \in Conn |-> mid[d] # Whole]
Left    == [d \in Conn |-> peer[d] = "gone"]

\* Together the sessions are the messenger of module Messenger: one session per
\* user, every relay to the session that was listed for its addressee when it
\* was looked up, none given up while one was listed, and one whole frame at a
\* time on every connection.  It is what locks, counts, copies and sends of
\* elements (ClientThread, GetFromList, SendMessage, User::send) are for.
M == INSTANCE Messenger WITH
         user <- ID, online <- Userliste, request <- Request, route <- Route,
         turn <- Turn, half <- Half, left <- Left

Messages == M!Spec

-----------------------------------------------------------------------------
(* The inductive invariant: what the locals of a thread, the locks, the    *)
(* directory, the counts and the streams have to do with each other.       *)

\* Where a thread is says which frame it works on and whether it has a copy of
\* a User from GetFromList.
Shape ==
    \A t \in Conn :
        /\ frame[t] # "L" => pc[t] \in {"getlist", "find", "read", "lock", "send"}
        /\ pc[t] \in {"getlist", "find", "lock", "send"} => frame[t] # "L"
        /\ pc[t] \in {"getlist", "find"} => frame[t] # "AC"
        /\ pc[t] = "read" => frame[t] = "AL"
        /\ part[t] > 0 => pc[t] \in {"reply", "send"}
        /\ Empfaenger[t] # NoConn <=>
              \/ pc[t] \in {"read", "release"}
              \/ pc[t] \in {"lock", "send"} /\ frame[t] \in Relays

\* Who holds which mutex.
Locks ==
    /\ \A t \in Conn : ListenMutex = t <=> pc[t] \in {"find", "erase"}
    /\ \A t, d \in Conn : ContLock[d] = t <=> pc[t] = "send" /\ Dest(t) = d

Directory ==
    /\ ListedSessions
    /\ \A c \in Conn : pc[c] \in HasClient => ID[c] # NoUser
    /\ \A c \in Conn : pc[c] \in {"idle", "auth"} => ID[c] = NoUser

\* A Cont is made with its thread's Client.
Counts ==
    /\ RefCountExact
    /\ \A c \in Conn : pc[c] \in {"idle", "auth", "reply", "refuse", "orphan"} =>
           mpCont[c] = "none"

\* A copy from GetFromList refers to a session that has been listed, and as
\* long as the command's addressee is known, to one of that user.
Handles ==
    \A t \in Conn : Empfaenger[t] # NoConn =>
        /\ pc[Empfaenger[t]] \in (HasClient \ {"insert"}) \cup {"done"}
        /\ pc[t] # "release" => ID[Empfaenger[t]] = target[t] /\ target[t] # NoUser

WritesTo(t, d) == pc[t] \in {"reply", "send"} /\ Dest(t) = d

\* The unfinished frame of a connection, and how far its writer is.
Streams ==
    /\ \A d \in Conn : pc[d] = "idle" => peer[d] = "none"
    /\ \A d \in Conn : peer[d] # "gone" =>
           /\ mid[d] # Whole =>
                 /\ mid[d].by \in Conn
                 /\ WritesTo(mid[d].by, d)
                 /\ mid[d].part = part[mid[d].by]
                 /\ mid[d].part > 0
                 /\ mid[d].part < Parts[frame[mid[d].by]]
           /\ \A t \in Conn :
                 WritesTo(t, d) /\ part[t] > 0 /\ part[t] < Parts[frame[t]] =>
                     mid[d] = [by |-> t, part |-> part[t]]

IInv == TypeOK /\ Shape /\ Locks /\ Directory /\ Counts /\ Handles /\ Streams

-----------------------------------------------------------------------------
(* Liveness.                                                               *)

Waiting == {"idle", "auth", "act", "done", "orphan"}

\* A thread that has something to do comes back to its client's next command,
\* or is done: no cycle of the directory's mutex, the Conts' locks and blocked
\* sends holds it for ever, as long as clients read.
ServiceReturns ==
    \A t \in Conn : pc[t] \notin Waiting ~> pc[t] \in Waiting

\* When a client has left, its session ends and leaves the directory, whatever
\* the session was doing and whoever was writing to it.
SessionEnds ==
    \A c \in Conn : peer[c] = "gone" ~>
        /\ pc[c] \in {"done", "orphan"}
        /\ \A u \in User : Userliste[u] # c

\* A client that has been listed gets its own data and its contact list: its
\* thread comes to serve its commands.
ContactsArrive ==
    \A c \in Conn :
        pc[c] = "drop" /\ Userliste[ID[c]] = c ~> pc[c] = "act"

-----------------------------------------------------------------------------
(* What comments and code of the repository claim, and the server does not *)
(* do.                                                                     *)

\* "Der Client closes the Connection im DTOR" (main.cpp:312): once the last
\* User of a session is destroyed, its connection is closed.
SocketClosed ==
    \A c \in Conn : mpCont[c] = "freed" => sock[c] = "closed"
=============================================================================
