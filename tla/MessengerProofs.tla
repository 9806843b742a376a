-------------------------- MODULE MessengerProofs --------------------------
(***************************************************************************)
(* Session implements Messenger, for any number of connections, users,     *)
(* commands and rows and frames of any length.  Every step of a thread     *)
(* maps to one of the messenger, or changes nothing that the messenger     *)
(* has; the lemmas say what the steps do to each mapped variable.          *)
(***************************************************************************)
EXTENDS SessionProofs

\* Nothing that the messenger has changes.
Unseen == UNCHANGED <<ID, Userliste, Request, Route, Turn, Half, Left>>

\* Which is a stuttering step of the messenger.
LEMMA Stutter == Unseen => [M!Next]_(M!vars)
  BY DEF Unseen, M!vars

\* What the messenger sees of a thread's place, locals and locks.
LEMMA Mapped ==
  ASSUME TypeOK, Shape, Locks, Handles
  PROVE  /\ Request \in [Conn -> User \cup {NoUser}]
         /\ Route \in [Conn -> Conn \cup {NoConn}]
         /\ Turn \in [Conn -> Conn \cup {NoConn}]
         /\ Half \in [Conn -> BOOLEAN]
         /\ Left \in [Conn -> BOOLEAN]
         /\ \A d \in Conn : pc[d] = "reply" => ContLock[d] = NoConn
  <1>1. ASSUME NEW d \in Conn, pc[d] = "reply", ContLock[d] # NoConn
        PROVE  FALSE
    <2>1. PICK t \in Conn : ContLock[d] = t
      BY <1>1 DEF TypeOK
    <2>2. pc[t] = "send" /\ Dest(t) = d
      BY <2>1 DEF Locks
    <2>3. t # d /\ Empfaenger[t] = d
      BY <1>1, <2>2 DEF Dest
    <2> QED  BY <1>1, <2>3, SessionAssumption DEF Handles, HasClient, Listed
  <1> QED  BY <1>1 DEF Request, Route, Turn, Half, Left, TypeOK

\* Steps that touch no relay, entry, lock or stream are not seen.
LEMMA UnseenStep ==
  ASSUME UNCHANGED <<ID, Userliste, ContLock, mid>>,
         \A t \in Conn : Relaying(t)' = Relaying(t),
         \A t \in Conn : Relaying(t) => /\ target'[t] = target[t]
                                        /\ Empfaenger'[t] = Empfaenger[t],
         \A t \in Conn : (pc[t] = "reply") = (pc'[t] = "reply"),
         \A t \in Conn : (peer[t] = "gone") = (peer'[t] = "gone")
  PROVE  Unseen
  BY DEF Unseen, Request, Route, Turn, Half, Left

-----------------------------------------------------------------------------
\* A login is answered: the connection's turn is its own thread's.
LEMMA AnswerStep ==
  ASSUME IInv, NEW c \in Conn, NEW u \in User \cup {NoUser}, AuthAnswer(c, u)
  PROVE  M!Answer(c, u)
  <1> USE DEF IInv, TypeOK
  <1>1. Turn[c] = NoConn
    <2>1. ASSUME NEW t \in Conn, ContLock[c] = t PROVE FALSE
      <3>1. pc[t] = "send" /\ Dest(t) = c
        BY <2>1 DEF Locks
      <3>2. t # c /\ Empfaenger[t] = c
        BY <3>1 DEF Dest, AuthAnswer
      <3> QED  BY <3>2, SessionAssumption DEF AuthAnswer, Handles, HasClient, Listed
    <2> QED  BY <2>1 DEF Turn, AuthAnswer
  <1>2. Turn' = [Turn EXCEPT ![c] = c]
    BY DEF Turn, AuthAnswer, Goto
  <1>3. ~Relaying(c)
    BY DEF AuthAnswer, Shape, Relaying, Relays
  <1>4. Request' = Request /\ Route' = Route /\ Half' = Half /\ Left' = Left
    BY <1>3 DEF Request, Route, Half, Left, AuthAnswer, Begin, Relaying, Relays, netVars
  <1>5. ID[c] = NoUser
    BY DEF AuthAnswer, Directory
  <1> QED  BY <1>1, <1>2, <1>4, <1>5 DEF AuthAnswer, M!Answer, M!TakeTurn, listVars

\* The answer is out: the turn ends, with the frame whole.
LEMMA AnswerSent ==
  ASSUME IInv, NEW c \in Conn, NewClient(c) \/ NoClient(c)
  PROVE  M!End(c, c)
  <1> USE DEF IInv, TypeOK
  <1>1. /\ pc[c] = "reply" /\ part[c] = Parts["L"] /\ frame[c] = "L"
        /\ pc'[c] # "reply" /\ \A d \in Conn : d # c => pc'[d] = pc[d]
    BY DEF NewClient, NoClient, Shape, Goto
  <1>2. Turn[c] = c /\ ContLock[c] = NoConn
    BY <1>1, Mapped DEF Turn
  <1>3. Turn' = [Turn EXCEPT ![c] = NoConn]
    BY <1>1, <1>2 DEF Turn, NewClient, NoClient, contVars
  <1>4. ~Half[c] \/ Left[c]
    <2>1. ASSUME mid[c] # Whole, peer[c] # "gone" PROVE FALSE
      <3>1. PICK t \in Conn : t = mid[c].by
        BY <2>1 DEF Streams
      <3>2. WritesTo(t, c) /\ part[t] < Parts[frame[t]]
        BY <2>1, <3>1 DEF Streams
      <3>3. t = c
        BY <1>2, <3>2 DEF WritesTo, Locks, Dest, Shape, Relays
      <3> QED  BY <1>1, <3>2, <3>3, PartsNat, FrameSet
    <2> QED  BY <2>1 DEF Half, Left
  <1>5. ~Relaying(c) /\ Request[c] = NoUser
    BY <1>1 DEF Relaying, Relays, Request
  <1>6. Request' = Request /\ Route' = Route /\ Half' = Half /\ Left' = Left
    BY <1>5 DEF Request, Route, Half, Left, NewClient, NoClient, Forget, Begin,
                Relaying, Relays, netVars
  <1> QED  BY <1>2, <1>3, <1>4, <1>5, <1>6
           DEF NewClient, NoClient, contVars, listVars, M!End, M!EndTurn

\* insert: the entry is made, or the user has one already.
LEMMA SignOnStep ==
  ASSUME IInv, NEW c \in Conn, AddUserToList(c)
  PROVE  M!SignOn(c) \/ Unseen
  <1> USE DEF IInv, TypeOK
  <1>1. ID[c] \in User
    BY DEF AddUserToList, Directory, HasClient, Listed
  <1>2. /\ Request' = Request /\ Route' = Route /\ Turn' = Turn
        /\ Half' = Half /\ Left' = Left /\ ID' = ID
    BY DEF Request, Route, Turn, Half, Left, Relaying, AddUserToList, Goto, netVars
  <1>3. CASE Userliste[ID[c]] = NoConn
    BY <1>1, <1>2, <1>3 DEF AddUserToList, M!SignOn
  <1>4. CASE Userliste[ID[c]] # NoConn
    BY <1>2, <1>4 DEF AddUserToList, Unseen
  <1> QED  BY <1>3, <1>4

\* erase: the session has nothing to do any more and was listed.
LEMMA SignOffStep ==
  ASSUME IInv, NEW c \in Conn, Erase(c)
  PROVE  M!SignOff(c)
  <1> USE DEF IInv, TypeOK
  <1>1. /\ Request' = Request /\ Route' = Route /\ Turn' = Turn
        /\ Half' = Half /\ Left' = Left /\ ID' = ID
    BY DEF Request, Route, Turn, Half, Left, Relaying, Erase, Goto, netVars
  <1>2. ID[c] \in User /\ Userliste[ID[c]] = c
    BY DEF Erase, Directory, ListedSessions, HasClient, Listed
  <1>3. Request[c] = NoUser
    BY DEF Erase, Shape, Request, Relaying, Relays
  <1> QED  BY <1>1, <1>2, <1>3 DEF Erase, M!SignOff, M!Online

-----------------------------------------------------------------------------
\* A command for a user, or for a name that nobody has.
LEMMA AskStep ==
  ASSUME IInv, NEW c \in Conn, NEW f \in Relays, NEW u \in User \cup {NoUser},
         RecvRelay(c, f, u)
  PROVE  (u \in User /\ M!Ask(c, u)) \/ Unseen
  <1> USE DEF IInv, TypeOK
  <1>1. /\ pc[c] = "act" /\ ~Relaying(c) /\ Empfaenger[c] = NoConn
        /\ Request[c] = NoUser
    BY DEF RecvRelay, Shape, Relaying, Relays, Request
  <1>2. Request' = [Request EXCEPT ![c] = u]
    BY DEF RecvRelay, Begin, Request, Relaying
  <1>3. Route' = Route
    BY <1>1 DEF RecvRelay, Begin, Route, Relaying
  <1>4. Turn' = Turn /\ Half' = Half /\ Left' = Left
        /\ UNCHANGED <<ID, Userliste>>
    BY DEF RecvRelay, Goto, Turn, Half, Left, contVars, netVars, listVars
  <1>5. M!Online(c)
    BY <1>1 DEF Directory, ListedSessions, HasClient, Listed, M!Online
  <1>6. CASE u \in User
    BY <1>1, <1>2, <1>3, <1>4, <1>5, <1>6 DEF M!Ask
  <1>7. CASE u = NoUser
    <2>1. Request' = Request
      BY <1>1, <1>2, <1>7 DEF Request
    <2> QED  BY <1>3, <1>4, <2>1 DEF Unseen
  <1> QED  BY <1>6, <1>7

\* The look into the directory, which finds somebody.
LEMMA FoundStep ==
  ASSUME IInv, NEW c \in Conn, Found(c)
  PROVE  M!Pick(c) \/ Unseen
  <1> USE DEF IInv, TypeOK
  <1>1. /\ pc[c] = "find" /\ target[c] \in User /\ Userliste[target[c]] # NoConn
        /\ Empfaenger' = [Empfaenger EXCEPT ![c] = Userliste[target[c]]]
        /\ Empfaenger[c] = NoConn
    BY DEF Found, Lookup, Shape
  <1>2. /\ Request' = Request /\ Turn' = Turn /\ Half' = Half /\ Left' = Left
        /\ UNCHANGED <<ID, Userliste>>
    BY DEF Found, Goto, Request, Relaying, Turn, Half, Left, netVars
  <1>3. CASE Relaying(c)
    <2>1. Route' = [Route EXCEPT ![c] = Userliste[target[c]]]
      BY <1>1, <1>3 DEF Found, Route, Relaying
    <2>2. Request[c] = target[c] /\ Route[c] = NoConn
      BY <1>1, <1>3 DEF Request, Route
    <2> QED  BY <1>1, <1>2, <2>1, <2>2 DEF M!Pick
  <1>4. CASE ~Relaying(c)
    <2>1. Route' = Route
      BY <1>1, <1>4 DEF Found, Route, Relaying
    <2> QED  BY <1>2, <2>1 DEF Unseen
  <1> QED  BY <1>3, <1>4

\* The look into the directory, which finds nobody.
LEMMA NotFoundStep ==
  ASSUME IInv, NEW c \in Conn, NotFound(c)
  PROVE  M!GiveUp(c) \/ Unseen
  <1> USE DEF IInv, TypeOK
  <1>1. /\ pc[c] = "find" /\ Empfaenger[c] = NoConn
        /\ target[c] \in User => Userliste[target[c]] = NoConn
    BY SessionAssumption DEF NotFound, Lookup, Shape
  <1>2. /\ Turn' = Turn /\ Half' = Half /\ Left' = Left
        /\ UNCHANGED <<ID, Userliste>>
    BY DEF NotFound, Goto, Turn, Half, Left, netVars, contVars
  <1>3. Route' = Route
    BY <1>1 DEF NotFound, Forget, Begin, Route, Relaying, Relays
  <1>4. CASE Relaying(c)
    <2>1. frame' = [frame EXCEPT ![c] = "L"] /\ target' = [target EXCEPT ![c] = NoUser]
      BY <1>4 DEF NotFound, Forget, Begin, Relaying, Relays
    <2>2. Request' = [Request EXCEPT ![c] = NoUser]
      BY <2>1 DEF Request, Relaying, Relays
    <2>3. Request[c] = target[c] /\ Route[c] = NoConn
      BY <1>1, <1>4 DEF Request, Route
    <2>4. CASE target[c] \in User
      BY <1>1, <1>2, <1>3, <2>2, <2>3, <2>4 DEF M!GiveUp
    <2>5. CASE target[c] = NoUser
      <3>1. Request' = Request
        BY <2>2, <2>3, <2>5 DEF Request
      <3> QED  BY <1>2, <1>3, <3>1 DEF Unseen
    <2> QED  BY <2>4, <2>5
  <1>5. CASE ~Relaying(c)
    <2>1. Request' = Request
      BY <1>5 DEF NotFound, Forget, Begin, Request, Relaying, Relays
    <2> QED  BY <1>2, <1>3, <2>1 DEF Unseen
  <1> QED  BY <1>4, <1>5

-----------------------------------------------------------------------------
\* Whom a thread with a frame writes to, as the messenger sees it.
LEMMA Frames ==
  ASSUME IInv, NEW t \in Conn, pc[t] \in {"lock", "send"}
  PROVE  /\ Dest(t) \in Conn
         /\ pc[Dest(t)] # "reply"
         /\ Relaying(t) => /\ Dest(t) = Empfaenger[t]
                           /\ Request[t] \in User /\ Route[t] = Dest(t)
                           /\ ID[Dest(t)] = Request[t]
         /\ ~Relaying(t) => Dest(t) = t /\ Request[t] = NoUser /\ M!Online(t)
  <1> USE DEF IInv, TypeOK
  <1>1. Dest(t) \in Conn
    BY DestInConn
  <1>2. CASE Relaying(t)
    <2>1. Dest(t) = Empfaenger[t] /\ Empfaenger[t] # NoConn
      BY <1>2 DEF Dest, Relaying, Shape
    <2>2. /\ pc[Dest(t)] \in (HasClient \ {"insert"}) \cup {"done"}
          /\ ID[Dest(t)] = target[t] /\ target[t] # NoUser
      BY <2>1 DEF Handles
    <2> QED  BY <1>1, <1>2, <2>1, <2>2 DEF HasClient, Listed, Request, Route
  <1>3. CASE ~Relaying(t)
    BY <1>1, <1>3 DEF Relaying, Dest, Request, M!Online, Directory, ListedSessions,
                      HasClient, Listed
  <1> QED  BY <1>1, <1>2, <1>3

\* User::Lock takes the turn on the connection.
LEMMA LockStep ==
  ASSUME IInv, NEW t \in Conn, LockCont(t)
  PROVE  M!Begin(t, Dest(t))
  <1> USE DEF IInv, TypeOK
  <1>1. pc[t] = "lock" /\ ContLock[Dest(t)] = NoConn
    BY DEF LockCont
  <1>2. /\ Request' = Request /\ Route' = Route /\ Half' = Half /\ Left' = Left
        /\ UNCHANGED <<ID, Userliste>>
    BY DEF LockCont, Request, Route, Relaying, Half, Left, netVars, listVars
  <1>3. Turn[Dest(t)] = NoConn
    BY <1>1, Frames DEF Turn
  <1>4. Turn' = [Turn EXCEPT ![Dest(t)] = t]
    <2>1. ContLock' = [ContLock EXCEPT ![Dest(t)] = t] /\ pc' = [pc EXCEPT ![t] = "send"]
      BY <1>1 DEF LockCont, Goto
    <2>2. Dest(t) \in Conn /\ pc[Dest(t)] # "reply"
      BY <1>1, Frames
    <2>3. \A d \in Conn : pc'[d] = "reply" <=> pc[d] = "reply"
      BY <1>1, <2>1
    <2> QED  BY <2>1, <2>2, <2>3 DEF Turn
  <1> QED  BY <1>1, <1>2, <1>3, <1>4, Frames, SessionAssumption DEF M!Begin, M!TakeTurn

\* An element makes the frame on the connection whole or not.
LEMMA WriteStep ==
  ASSUME IInv, NEW t \in Conn, SendPart(t)
  PROVE  Dest(t) \in Conn /\ M!Write(t, Dest(t))
  <1> USE DEF IInv, TypeOK
  <1>1. /\ pc[t] \in {"reply", "send"} /\ Dest(t) \in Conn
        /\ peer[Dest(t)] = "up"
    BY DestInConn DEF SendPart, Writing
  <1>2. Turn[Dest(t)] = t
    <2>1. CASE pc[t] = "reply"
      BY <2>1 DEF Shape, Dest, Relays, Turn
    <2>2. CASE pc[t] = "send"
      BY <1>1, <2>2, Frames DEF Locks, Turn
    <2> QED  BY <1>1, <2>1, <2>2
  <1>3. ~Left[Dest(t)]
    BY <1>1 DEF Left
  <1>4. /\ Request' = Request /\ Route' = Route /\ Turn' = Turn /\ Left' = Left
        /\ UNCHANGED <<ID, Userliste>>
    BY DEF SendPart, Request, Route, Relaying, Turn, Left, contVars, listVars
  <1>5. Half' = [Half EXCEPT ![Dest(t)] = (mid'[Dest(t)] # Whole)]
    BY <1>1 DEF SendPart, Half
  <1>6. Half' \in {[Half EXCEPT ![Dest(t)] = b] : b \in BOOLEAN}
    BY <1>5
  <1> QED  BY <1>1, <1>2, <1>3, <1>4, <1>6 DEF M!Write

\* User::Unlock ends the turn, with the frame whole if anybody reads it.
LEMMA UnlockStep ==
  ASSUME IInv, NEW t \in Conn, NEW f \in {"AC", "AL", "RM", "QU"}, Unlock(t, f)
  PROVE  /\ Dest(t) \in Conn /\ Turn[Dest(t)] = t
         /\ Half[Dest(t)] => Left[Dest(t)]
         /\ ContLock' = [ContLock EXCEPT ![Dest(t)] = NoConn]
  <1> USE DEF IInv, TypeOK
  <1>1. pc[t] = "send" /\ frame[t] = f /\ part[t] = Parts[frame[t]]
    BY DEF Unlock
  <1>2. Dest(t) \in Conn /\ Turn[Dest(t)] = t /\ ContLock[Dest(t)] = t
    BY <1>1, Frames DEF Locks, Turn
  <1>3. ASSUME mid[Dest(t)] # Whole, peer[Dest(t)] # "gone" PROVE FALSE
    <2>1. PICK s \in Conn : s = mid[Dest(t)].by
      BY <1>2, <1>3 DEF Streams
    <2>2. WritesTo(s, Dest(t)) /\ part[s] < Parts[frame[s]]
      BY <1>2, <1>3, <2>1 DEF Streams
    <2>3. s = t
      BY <1>1, <1>2, <2>2, Frames DEF WritesTo, Locks, Dest, Shape, Relays
    <2> QED  BY <1>1, <2>2, <2>3, PartsNat
  <1> QED  BY <1>2, <1>3 DEF Unlock, Half, Left

\* The frame is written and its locals are forgotten.
LEMMA EndStep ==
  ASSUME IInv, NEW t \in Conn,
         OwnInformationSent(t) \/ ContactSent(t) \/ MessageSent(t) \/ QuestionSent(t)
  PROVE  Dest(t) \in Conn /\ M!End(t, Dest(t))
  <1> USE DEF IInv, TypeOK
  <1>1. PICK f \in {"AC", "AL", "RM", "QU"} : Unlock(t, f)
    BY DEF OwnInformationSent, ContactSent, MessageSent, QuestionSent
  <1>2. /\ pc[t] = "send" /\ pc'[t] # "reply"
        /\ \A c \in Conn : c # t => pc'[c] = pc[c] /\ Empfaenger'[c] = Empfaenger[c]
        /\ frame' = [frame EXCEPT ![t] = "L"] /\ target' = [target EXCEPT ![t] = NoUser]
        /\ UNCHANGED <<ID, Userliste, mid, peer>>
    BY <1>1 DEF OwnInformationSent, ContactSent, MessageSent, QuestionSent, Unlock,
                Goto, Forget, Begin, netVars, listVars
  <1>3. Turn' = [Turn EXCEPT ![Dest(t)] = NoConn]
    <2>1. ContLock' = [ContLock EXCEPT ![Dest(t)] = NoConn]
      BY <1>1 DEF Unlock
    <2>2. pc[Dest(t)] # "reply" /\ Dest(t) \in Conn
      BY <1>2, Frames
    <2>3. \A c \in Conn : pc'[c] = "reply" <=> pc[c] = "reply"
      BY <1>2
    <2> QED  BY <2>1, <2>2, <2>3 DEF Turn
  <1>4. /\ Request' = [Request EXCEPT ![t] = NoUser]
        /\ Route' = [Route EXCEPT ![t] = NoConn]
        /\ Half' = Half /\ Left' = Left
    BY <1>2 DEF Request, Route, Relaying, Relays, Half, Left
  <1>5. M!EndTurn(t, Dest(t))
    BY <1>1, <1>3, UnlockStep DEF M!EndTurn
  <1>6. CASE Relaying(t)
    BY <1>1, <1>2, <1>4, <1>5, <1>6, UnlockStep, Frames, SessionAssumption DEF M!End
  <1>7. CASE ~Relaying(t)
    <2>1. Request[t] = NoUser /\ Route[t] = NoConn
      BY <1>7 DEF Request, Route
    <2>2. Request' = Request
      BY <1>4, <2>1 DEF Request
    <2>3. Route' = Route
      BY <1>4, <2>1 DEF Route
    <2> QED  BY <1>1, <1>2, <1>4, <1>5, <2>1, <2>2, <2>3, UnlockStep DEF M!End
  <1> QED  BY <1>6, <1>7

-----------------------------------------------------------------------------
\* The steps the messenger does not have: accepting, freeing, counting, waiting
\* for the directory, reading contacts and commands, sends that fail.
LEMMA UnseenSteps ==
  ASSUME IInv, NEW c \in Conn,
         \/ Accept(c) \/ AuthError(c) \/ Refuse(c) \/ DropCopy(c)
         \/ SendFails(c)
         \/ NextContact(c) \/ ReadContact(c) \/ ContactsDone(c)
         \/ EnterList(c) \/ RecvOther(c) \/ RecvEnd(c) \/ DeleteEmpfaenger(c)
         \/ EnterListToLeave(c) \/ DeleteClient(c)
         \/ PeerStalls(c) \/ PeerReads(c)
  PROVE  Unseen
  <1> USE DEF IInv, TypeOK
  <1>1. CASE Accept(c)
    BY <1>1, UnseenStep DEF Accept, NewUser, Goto, Relaying, Streams, contVars,
                            listVars
  <1>2. CASE AuthError(c) \/ Refuse(c) \/ ContactsDone(c) \/ RecvEnd(c)
    BY <1>2, UnseenStep DEF AuthError, Refuse, ContactsDone, RecvEnd, Goto,
                            Relaying, contVars, listVars, netVars
  <1>3. CASE DropCopy(c) \/ NextContact(c)
    <2>1. ~Relaying(c) /\ pc[c] # "reply" /\ pc'[c] # "reply"
          /\ frame' \in {frame, [frame EXCEPT ![c] = "AC"], [frame EXCEPT ![c] = "AL"]}
      BY <1>3 DEF DropCopy, NextContact, Goto, Begin, Relaying, Relays, Shape
    <2>2. \A t \in Conn : t # c => /\ pc'[t] = pc[t] /\ frame'[t] = frame[t]
                                   /\ target'[t] = target[t]
      BY <1>3 DEF DropCopy, NextContact, Goto, Begin
    <2>3. UNCHANGED <<ID, Userliste, ContLock, mid, peer, Empfaenger>>
      BY <1>3 DEF DropCopy, NextContact, contVars, listVars, netVars
    <2>4. ~Relaying(c)'
      BY <2>1 DEF Relaying, Relays
    <2>5. \A t \in Conn : /\ Relaying(t)' = Relaying(t)
                          /\ (pc[t] = "reply") = (pc'[t] = "reply")
      <3> TAKE t \in Conn
      <3>1. CASE t = c
        BY <2>1, <2>4, <3>1 DEF Relaying
      <3>2. CASE t # c
        BY <2>2, <3>2 DEF Relaying
      <3> QED  BY <3>1, <3>2
    <2>6. \A t \in Conn : Relaying(t) => target'[t] = target[t]
      BY <2>1, <2>2
    <2> QED  BY <2>3, <2>5, <2>6, UnseenStep
  <1>4. CASE SendFails(c) \/ RecvOther(c)
    BY <1>4, UnseenStep DEF SendFails, RecvOther, Relaying, threadVars,
                            contVars, listVars, netVars
  <1>5. CASE ReadContact(c) \/ DeleteEmpfaenger(c)
    <2>1. ~Relaying(c)
      BY <1>5 DEF ReadContact, DeleteEmpfaenger, Shape, Relaying, Relays
    <2> QED  BY <1>5, <2>1, UnseenStep
             DEF ReadContact, DeleteEmpfaenger, Goto, Relaying, listVars, netVars
  <1>6. CASE EnterList(c) \/ EnterListToLeave(c) \/ DeleteClient(c)
    BY <1>6, UnseenStep DEF EnterList, EnterListToLeave, DeleteClient, Goto,
                            Relaying, contVars, listVars, netVars
  <1>7. CASE PeerStalls(c) \/ PeerReads(c)
    BY <1>7, UnseenStep DEF PeerStalls, PeerReads, SetPeer, Relaying, threadVars,
                            contVars, listVars
  <1> QED  BY <1>1, <1>2, <1>3, <1>4, <1>5, <1>6, <1>7

\* The client leaves.
LEMMA LeaveStep ==
  ASSUME IInv, NEW c \in Conn, PeerGone(c)
  PROVE  M!Leave(c)
  <1>1. Left' = [Left EXCEPT ![c] = TRUE]
    BY DEF PeerGone, SetPeer, Left, IInv, TypeOK
  <1>2. /\ Request' = Request /\ Route' = Route /\ Turn' = Turn /\ Half' = Half
        /\ UNCHANGED <<ID, Userliste>>
    BY DEF PeerGone, SetPeer, Request, Route, Relaying, Turn, Half, threadVars,
           contVars, listVars
  <1> QED  BY <1>1, <1>2 DEF M!Leave

\* Every step is one of the messenger's or is not seen.
LEMMA MessengerStep == IInv /\ [Next]_vars => [M!Next]_(M!vars)
  <1> SUFFICES ASSUME IInv, [Next]_vars PROVE [M!Next]_(M!vars)
    OBVIOUS
  <1>1. ASSUME UNCHANGED vars PROVE [M!Next]_(M!vars)
    BY <1>1, Stutter DEF vars, threadVars, contVars, listVars, netVars, Unseen,
                         Request, Route, Turn, Half, Left, Relaying
  <1>2. ASSUME NEW c \in Conn,
               \/ Accept(c) \/ SignOn(c) \/ LockCont(c) \/ Send(c)
               \/ SendContacts(c) \/ GetFromList(c)
               \/ RecvCommand(c) \/ RecvEnd(c) \/ Relay(c)
               \/ SignOff(c) \/ Peer(c)
        PROVE  [M!Next]_(M!vars)
    <2>1. CASE \E u \in User \cup {NoUser} : AuthAnswer(c, u)
      BY <2>1, AnswerStep DEF M!Next
    <2>2. CASE NewClient(c) \/ NoClient(c)
      BY <2>2, AnswerSent DEF M!Next
    <2>3. CASE AddUserToList(c)
      BY <2>3, SignOnStep, Stutter DEF M!Next
    <2>4. CASE Erase(c)
      BY <2>4, SignOffStep DEF M!Next
    <2>5. CASE \E f \in Relays, u \in User \cup {NoUser} : RecvRelay(c, f, u)
      <3>1. PICK f \in Relays, u \in User \cup {NoUser} : RecvRelay(c, f, u)
        BY <2>5
      <3> QED  BY <3>1, AskStep, Stutter DEF M!Next
    <2>6. CASE Found(c) \/ NotFound(c)
      BY <2>6, FoundStep, NotFoundStep, Stutter DEF M!Next
    <2>7. CASE LockCont(c)
      <3>1. Dest(c) \in Conn
        BY <2>7, Frames DEF LockCont
      <3> QED  BY <2>7, <3>1, LockStep DEF M!Next
    <2>8. CASE SendPart(c)
      BY <2>8, WriteStep DEF M!Next
    <2>9. CASE \/ OwnInformationSent(c) \/ ContactSent(c)
               \/ MessageSent(c) \/ QuestionSent(c)
      BY <2>9, EndStep DEF M!Next
    <2>10. CASE PeerGone(c)
      BY <2>10, LeaveStep DEF M!Next
    <2>11. CASE \/ Accept(c) \/ AuthError(c) \/ Refuse(c) \/ DropCopy(c)
                \/ SendFails(c)
                \/ NextContact(c) \/ ReadContact(c) \/ ContactsDone(c)
                \/ EnterList(c) \/ RecvOther(c) \/ RecvEnd(c) \/ DeleteEmpfaenger(c)
                \/ EnterListToLeave(c) \/ DeleteClient(c)
                \/ PeerStalls(c) \/ PeerReads(c)
      BY <2>11, UnseenSteps, Stutter
    <2> QED  BY <1>2, <2>1, <2>2, <2>3, <2>4, <2>5, <2>6, <2>7, <2>8, <2>9, <2>10,
                <2>11
             DEF SignOn, Send, SendContacts, GetFromList, RecvCommand, Relay,
                 SignOff, Peer
  <1> QED  BY <1>1, <1>2 DEF Next, Finished

\* The sessions are the messenger: what ClientThread, GetFromList, SendMessage,
\* SendAddQuestion and User::send do in many interleaved steps is, for every
\* number of connections and users, one session per user, every relay to the
\* session listed when it was looked up, and whole frames on every connection.
THEOREM SessionsAreMessenger == Spec => Messages
  <1>1. Init => M!Init
    <2> SUFFICES ASSUME Init PROVE M!Init
      OBVIOUS
    <2>1. Request = [c \in Conn |-> NoUser] /\ Route = [c \in Conn |-> NoConn]
      BY DEF Init, Request, Route, Relaying, Relays
    <2>2. Turn = [c \in Conn |-> NoConn] /\ Left = [c \in Conn |-> FALSE]
      BY DEF Init, Turn, Left
    <2>3. Half = [c \in Conn |-> FALSE]
      BY DEF Init, Half
    <2> QED  BY <2>1, <2>2, <2>3 DEF Init, M!Init
  <1> QED  BY <1>1, MessengerStep, Invariance, PTL DEF Spec, Messages, M!Spec
=============================================================================
