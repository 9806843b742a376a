---------------------------- MODULE SessionProofs ----------------------------
(***************************************************************************)
(* What Session promises, proved for any number of connections, users,     *)
(* commands and contact rows, and for frames of any length.                *)
(*                                                                         *)
(* No promise is inductive alone.  IInv joins seven parts, each preserved  *)
(* with the help of those before it: types and the shape of a thread's     *)
(* locals, who holds which lock, what the directory lists, what the copies *)
(* from GetFromList refer to, what each stream ends with, and how many     *)
(* User objects there are.  Each part has an Init lemma and a Step lemma   *)
(* with one step per action; the theorems at the end follow from IInv.     *)
(***************************************************************************)
EXTENDS Session, TLAPS, FiniteSetTheorems

\* The names of the frames.
LEMMA FrameSet == Frame = {"L", "AC", "AL", "RM", "QU"}
  BY DEF Frame, Elements

\* Every frame has at least two elements.
LEMMA PartsNat == \A f \in Frame : Parts[f] \in Nat /\ Parts[f] >= 2
  BY SessionAssumption

\* A thread that is writing, or about to, has a session to write to.
LEMMA DestInConn ==
  ASSUME TypeOK, Shape, NEW t \in Conn, pc[t] \in {"reply", "lock", "send"}
  PROVE  Dest(t) \in Conn
  BY DEF TypeOK, Shape, Dest, Relays

-----------------------------------------------------------------------------
\* Types.  The type of mid needs Shape: a thread that writes has a session to
\* write to.
LEMMA TypeInit == Init => TypeOK
  BY SessionAssumption, FrameSet, PartsNat
  DEF Init, TypeOK, Labels, HasClient, Listed, Whole

\* Every step preserves types.
LEMMA TypeStep == TypeOK /\ Shape /\ [Next]_vars => TypeOK'
  <1> SUFFICES ASSUME TypeOK, Shape, [Next]_vars PROVE TypeOK'
    OBVIOUS
  <1> USE FrameSet, PartsNat
       DEF TypeOK, Labels, HasClient, Listed, Goto, Begin, Forget, Copy,
           Destroy,
           contVars, listVars, netVars, threadVars
  <1>1. ASSUME NEW c \in Conn, Accept(c) PROVE TypeOK'
    BY <1>1 DEF Accept, NewUser
  <1>2. ASSUME NEW c \in Conn, AuthError(c) PROVE TypeOK'
    BY <1>2 DEF AuthError
  <1>3. ASSUME NEW c \in Conn, NEW u \in User \cup {NoUser}, AuthAnswer(c, u)
        PROVE  TypeOK'
    BY <1>3 DEF AuthAnswer
  <1>4. ASSUME NEW c \in Conn, NewClient(c) PROVE TypeOK'
    BY <1>4 DEF NewClient
  <1>5. ASSUME NEW c \in Conn, NoClient(c) PROVE TypeOK'
    BY <1>5 DEF NoClient
  <1>6. ASSUME NEW c \in Conn, Refuse(c) PROVE TypeOK'
    BY <1>6 DEF Refuse
  <1>7. ASSUME NEW c \in Conn, AddUserToList(c) PROVE TypeOK'
    <2>1. mnRefCnt' \in [Conn -> Int]
      BY <1>7 DEF AddUserToList, Count
    <2>2. Userliste' \in [User -> Conn \cup {NoConn}]
      BY <1>7 DEF AddUserToList
    <2>3. pc' \in [Conn -> Labels]
      BY <1>7 DEF AddUserToList
    <2> QED  BY <1>7, <2>1, <2>2, <2>3 DEF AddUserToList
  <1>8. ASSUME NEW c \in Conn, DropCopy(c) PROVE TypeOK'
    <2>1. mnRefCnt' \in [Conn -> Int] /\ mpCont' \in [Conn -> {"none", "live", "freed"}]
      BY <1>8 DEF DropCopy
    <2>2. part' \in [Conn -> Nat] /\ frame' \in [Conn -> Frame]
      BY <1>8 DEF DropCopy
    <2>3. \A t \in Conn : part'[t] <= Parts[frame'[t]]
      <3>1. UNCHANGED <<frame, part>> \/ Begin(c, "AC", NoUser)
        BY <1>8 DEF DropCopy
      <3>2. CASE UNCHANGED <<frame, part>>
        BY <3>2
      <3>3. CASE Begin(c, "AC", NoUser)
        BY <3>3
      <3> QED  BY <3>1, <3>2, <3>3
    <2>4. pc' \in [Conn -> Labels]
      BY <1>8 DEF DropCopy
    <2>5. target' \in [Conn -> User \cup {NoUser}]
      BY <1>8 DEF DropCopy
    <2> QED  BY <1>8, <2>1, <2>2, <2>3, <2>4, <2>5 DEF DropCopy
  <1>9. ASSUME NEW c \in Conn, LockCont(c) PROVE TypeOK'
    BY <1>9 DEF LockCont
  <1>10. ASSUME NEW c \in Conn, SendPart(c) PROVE TypeOK'
    <2> DEFINE Mid == [by : Conn \cup {NoConn}, part : Nat]
    <2>1. /\ part[c] \in Nat /\ Parts[frame[c]] \in Nat
          /\ part[c] < Parts[frame[c]]
          /\ Dest(c) \in Conn
      BY <1>10, PartsNat, DestInConn DEF SendPart, Writing
    <2>2. Whole \in Mid /\ [by |-> c, part |-> part[c] + 1] \in Mid
      BY <2>1 DEF Whole
    <2>3. mid' \in [Conn -> Mid]
      BY <1>10, <2>1, <2>2 DEF SendPart
    <2>4. part' \in [Conn -> Nat] /\ \A t \in Conn : part'[t] <= Parts[frame'[t]]
      BY <1>10, <2>1 DEF SendPart
    <2> QED  BY <1>10, <2>3, <2>4 DEF SendPart
  <1>11. ASSUME NEW c \in Conn, SendFails(c) PROVE TypeOK'
    <2>1. /\ part[c] \in Nat /\ frame[c] \in Frame /\ Parts[frame[c]] \in Nat
          /\ part[c] < Parts[frame[c]]
      BY <1>11, PartsNat DEF SendFails, Writing
    <2>2. \/ part' = [part EXCEPT ![c] = part[c] + 1]
          \/ part' = [part EXCEPT ![c] = Parts[frame[c]]]
      BY <1>11 DEF SendFails
    <2>3. part' \in [Conn -> Nat]
      BY <2>1, <2>2
    <2>4. frame' = frame /\ \A t \in Conn : part'[t] <= Parts[frame[t]]
      BY <1>11, <2>1, <2>2 DEF SendFails
    <2> QED  BY <1>11, <2>3, <2>4 DEF SendFails
  <1>12. ASSUME NEW c \in Conn, OwnInformationSent(c) PROVE TypeOK'
    <2>1. Dest(c) \in Conn
      BY <1>12, DestInConn DEF OwnInformationSent, Unlock
    <2>2. ContLock' \in [Conn -> Conn \cup {NoConn}]
      BY <1>12, <2>1 DEF OwnInformationSent, Unlock
    <2>3. part' \in [Conn -> Nat] /\ frame' \in [Conn -> Frame]
      BY <1>12 DEF OwnInformationSent
    <2>4. \A t \in Conn : part'[t] <= Parts[frame'[t]]
      BY <1>12 DEF OwnInformationSent
    <2> QED  BY <1>12, <2>1, <2>2, <2>3, <2>4 DEF OwnInformationSent
  <1>13. ASSUME NEW c \in Conn, NextContact(c) PROVE TypeOK'
    BY <1>13 DEF NextContact
  <1>14. ASSUME NEW c \in Conn, ReadContact(c) PROVE TypeOK'
    <2>1. Empfaenger[c] \in Conn
      BY <1>14 DEF ReadContact, Shape, Relays
    <2> QED  BY <1>14, <2>1 DEF ReadContact
  <1>15. ASSUME NEW c \in Conn, ContactSent(c) PROVE TypeOK'
    <2>1. Dest(c) \in Conn
      BY <1>15, DestInConn DEF ContactSent, Unlock
    <2>2. ContLock' \in [Conn -> Conn \cup {NoConn}]
      BY <1>15, <2>1 DEF ContactSent, Unlock
    <2>3. part' \in [Conn -> Nat] /\ frame' \in [Conn -> Frame]
      BY <1>15 DEF ContactSent
    <2>4. \A t \in Conn : part'[t] <= Parts[frame'[t]]
      BY <1>15 DEF ContactSent
    <2> QED  BY <1>15, <2>1, <2>2, <2>3, <2>4 DEF ContactSent
  <1>16. ASSUME NEW c \in Conn, ContactsDone(c) PROVE TypeOK'
    BY <1>16 DEF ContactsDone
  <1>17. ASSUME NEW c \in Conn, EnterList(c) PROVE TypeOK'
    BY <1>17 DEF EnterList
  <1>18. ASSUME NEW c \in Conn, Found(c) PROVE TypeOK'
    BY <1>18 DEF Found, Lookup
  <1>19. ASSUME NEW c \in Conn, NotFound(c) PROVE TypeOK'
    <2>1. frame' \in [Conn -> Frame] /\ part' \in [Conn -> Nat]
          /\ \A t \in Conn : part'[t] <= Parts[frame'[t]]
      <3>1. UNCHANGED <<frame, part>> \/ Forget(c)
        BY <1>19 DEF NotFound
      <3>2. CASE UNCHANGED <<frame, part>>
        BY <3>2
      <3>3. CASE Forget(c)
        BY <3>3, FrameSet, PartsNat
      <3> QED  BY <3>1, <3>2, <3>3
    <2>2. pc' \in [Conn -> Labels] /\ target' \in [Conn -> User \cup {NoUser}]
      BY <1>19 DEF NotFound
    <2>3. ListenMutex' \in Conn \cup {NoConn}
      BY <1>19 DEF NotFound
    <2> QED  BY <1>19, <2>1, <2>2, <2>3 DEF NotFound
  <1>20. ASSUME NEW c \in Conn,
               NEW f \in Relays, NEW u \in User \cup {NoUser}, RecvRelay(c, f, u)
         PROVE  TypeOK'
    BY <1>20, SessionAssumption DEF RecvRelay, Relays
  <1>21. ASSUME NEW c \in Conn, RecvOther(c) PROVE TypeOK'
    BY <1>21, SessionAssumption DEF RecvOther
  <1>22. ASSUME NEW c \in Conn, RecvEnd(c) PROVE TypeOK'
    BY <1>22 DEF RecvEnd
  <1>23. ASSUME NEW c \in Conn, MessageSent(c) PROVE TypeOK'
    <2>1. Dest(c) \in Conn
      BY <1>23, DestInConn DEF MessageSent, Unlock
    <2>2. ContLock' \in [Conn -> Conn \cup {NoConn}]
      BY <1>23, <2>1 DEF MessageSent, Unlock
    <2>3. part' \in [Conn -> Nat] /\ frame' \in [Conn -> Frame]
      BY <1>23 DEF MessageSent
    <2>4. \A t \in Conn : part'[t] <= Parts[frame'[t]]
      BY <1>23 DEF MessageSent
    <2> QED  BY <1>23, <2>1, <2>2, <2>3, <2>4 DEF MessageSent
  <1>24. ASSUME NEW c \in Conn, DeleteEmpfaenger(c) PROVE TypeOK'
    <2>1. Empfaenger[c] \in Conn
      BY <1>24 DEF DeleteEmpfaenger, Shape, Relays
    <2> QED  BY <1>24, <2>1 DEF DeleteEmpfaenger
  <1>25. ASSUME NEW c \in Conn, QuestionSent(c) PROVE TypeOK'
    <2>1. Dest(c) \in Conn
      BY <1>25, DestInConn DEF QuestionSent, Unlock
    <2>2. ContLock' \in [Conn -> Conn \cup {NoConn}]
      BY <1>25, <2>1 DEF QuestionSent, Unlock
    <2>3. Empfaenger[c] \in Conn
      BY <1>25 DEF QuestionSent, Unlock, Shape, Relays
    <2>4. leaked' \in [Conn -> Nat] /\ Empfaenger' \in [Conn -> Conn \cup {NoConn}]
      BY <1>25, <2>3 DEF QuestionSent
    <2> QED  BY <1>25, <2>1, <2>2, <2>3, <2>4 DEF QuestionSent
  <1>26. ASSUME NEW c \in Conn, EnterListToLeave(c) PROVE TypeOK'
    BY <1>26 DEF EnterListToLeave
  <1>27. ASSUME NEW c \in Conn, Erase(c) PROVE TypeOK'
    <2>1. mnRefCnt' \in [Conn -> Int] /\ mpCont' \in [Conn -> {"none", "live", "freed"}]
      BY <1>27 DEF Erase
    <2>2. Userliste' \in [User -> Conn \cup {NoConn}]
      BY <1>27 DEF Erase
    <2>3. pc' \in [Conn -> Labels]
      BY <1>27 DEF Erase
    <2> QED  BY <1>27, <2>1, <2>2, <2>3 DEF Erase
  <1>28. ASSUME NEW c \in Conn, DeleteClient(c) PROVE TypeOK'
    BY <1>28 DEF DeleteClient
  <1>29. ASSUME NEW c \in Conn, PeerStalls(c) PROVE TypeOK'
    BY <1>29 DEF PeerStalls, SetPeer
  <1>30. ASSUME NEW c \in Conn, PeerReads(c) PROVE TypeOK'
    BY <1>30 DEF PeerReads, SetPeer
  <1>31. ASSUME NEW c \in Conn, PeerGone(c) PROVE TypeOK'
    BY <1>31 DEF PeerGone, SetPeer
  <1>32. CASE UNCHANGED vars
    BY <1>32 DEF vars
  <1> QED
    BY <1>1, <1>2, <1>3, <1>4, <1>5, <1>6, <1>7, <1>8, <1>9, <1>10, <1>11,
       <1>12, <1>13, <1>14, <1>15, <1>16, <1>17, <1>18, <1>19, <1>20,
       <1>21, <1>22, <1>23, <1>24, <1>25, <1>26, <1>27, <1>28, <1>29, <1>30,
       <1>31, <1>32
    DEF Next, SignOn, Send, SendContacts, GetFromList, RecvCommand, Relay,
        SignOff, Peer, Finished

-----------------------------------------------------------------------------
\* Shape: where a thread is says what its locals hold.
LEMMA ShapeInit == Init => Shape
  BY SessionAssumption DEF Init, Shape, Relays

\* Every step preserves shapes.
LEMMA ShapeStep == TypeOK /\ Shape /\ [Next]_vars => Shape'
  <1> SUFFICES ASSUME TypeOK, Shape, [Next]_vars PROVE Shape'
    OBVIOUS
  <1> USE FrameSet, SessionAssumption
      DEF TypeOK, Shape, Goto, Begin, Forget, Relays,
          contVars, listVars, netVars, threadVars
  <1>1. ASSUME NEW c \in Conn, Accept(c) PROVE Shape'
    BY <1>1 DEF Accept, NewUser
  <1>2. ASSUME NEW c \in Conn, AuthError(c) PROVE Shape'
    BY <1>2 DEF AuthError
  <1>3. ASSUME NEW c \in Conn, NEW u \in User \cup {NoUser}, AuthAnswer(c, u)
        PROVE  Shape'
    BY <1>3 DEF AuthAnswer
  <1>4. ASSUME NEW c \in Conn, NewClient(c) PROVE Shape'
    BY <1>4 DEF NewClient
  <1>5. ASSUME NEW c \in Conn, NoClient(c) PROVE Shape'
    BY <1>5 DEF NoClient
  <1>6. ASSUME NEW c \in Conn, Refuse(c) PROVE Shape'
    BY <1>6 DEF Refuse
  <1>7. ASSUME NEW c \in Conn, AddUserToList(c) PROVE Shape'
    BY <1>7 DEF AddUserToList
  <1>8. ASSUME NEW c \in Conn, DropCopy(c) PROVE Shape'
    BY <1>8 DEF DropCopy
  <1>9. ASSUME NEW c \in Conn, LockCont(c) PROVE Shape'
    BY <1>9 DEF LockCont
  <1>10. ASSUME NEW c \in Conn, SendPart(c) PROVE Shape'
    BY <1>10 DEF SendPart, Writing
  <1>11. ASSUME NEW c \in Conn, SendFails(c) PROVE Shape'
    <2>1. UNCHANGED <<pc, frame, Empfaenger>> /\ \A t \in Conn : t # c => part'[t] = part[t]
      BY <1>11 DEF SendFails
    <2>2. pc[c] \in {"reply", "send"}
      BY <1>11 DEF SendFails, Writing
    <2> QED  BY <2>1, <2>2
  <1>12. ASSUME NEW c \in Conn, OwnInformationSent(c) PROVE Shape'
    BY <1>12 DEF OwnInformationSent, Unlock
  <1>13. ASSUME NEW c \in Conn, NextContact(c) PROVE Shape'
    BY <1>13 DEF NextContact
  <1>14. ASSUME NEW c \in Conn, ReadContact(c) PROVE Shape'
    BY <1>14 DEF ReadContact
  <1>15. ASSUME NEW c \in Conn, ContactSent(c) PROVE Shape'
    BY <1>15 DEF ContactSent, Unlock
  <1>16. ASSUME NEW c \in Conn, ContactsDone(c) PROVE Shape'
    BY <1>16 DEF ContactsDone
  <1>17. ASSUME NEW c \in Conn, EnterList(c) PROVE Shape'
    BY <1>17 DEF EnterList
  <1>18. ASSUME NEW c \in Conn, Found(c) PROVE Shape'
    BY <1>18 DEF Found, Lookup
  <1>19. ASSUME NEW c \in Conn, NotFound(c) PROVE Shape'
    BY <1>19 DEF NotFound, Lookup
  <1>20. ASSUME NEW c \in Conn,
               NEW f \in Relays, NEW u \in User \cup {NoUser}, RecvRelay(c, f, u)
         PROVE  Shape'
    BY <1>20 DEF RecvRelay
  <1>21. ASSUME NEW c \in Conn, RecvOther(c) PROVE Shape'
    BY <1>21 DEF RecvOther
  <1>22. ASSUME NEW c \in Conn, RecvEnd(c) PROVE Shape'
    BY <1>22 DEF RecvEnd
  <1>23. ASSUME NEW c \in Conn, MessageSent(c) PROVE Shape'
    BY <1>23 DEF MessageSent, Unlock
  <1>24. ASSUME NEW c \in Conn, DeleteEmpfaenger(c) PROVE Shape'
    BY <1>24 DEF DeleteEmpfaenger
  <1>25. ASSUME NEW c \in Conn, QuestionSent(c) PROVE Shape'
    BY <1>25 DEF QuestionSent, Unlock
  <1>26. ASSUME NEW c \in Conn, EnterListToLeave(c) PROVE Shape'
    BY <1>26 DEF EnterListToLeave
  <1>27. ASSUME NEW c \in Conn, Erase(c) PROVE Shape'
    BY <1>27 DEF Erase
  <1>28. ASSUME NEW c \in Conn, DeleteClient(c) PROVE Shape'
    BY <1>28 DEF DeleteClient
  <1>29. ASSUME NEW c \in Conn, PeerStalls(c) PROVE Shape'
    BY <1>29 DEF PeerStalls, SetPeer
  <1>30. ASSUME NEW c \in Conn, PeerReads(c) PROVE Shape'
    BY <1>30 DEF PeerReads, SetPeer
  <1>31. ASSUME NEW c \in Conn, PeerGone(c) PROVE Shape'
    BY <1>31 DEF PeerGone, SetPeer
  <1>32. CASE UNCHANGED vars
    BY <1>32 DEF vars
  <1> QED
    BY <1>1, <1>2, <1>3, <1>4, <1>5, <1>6, <1>7, <1>8, <1>9, <1>10, <1>11,
       <1>12, <1>13, <1>14, <1>15, <1>16, <1>17, <1>18, <1>19, <1>20,
       <1>21, <1>22, <1>23, <1>24, <1>25, <1>26, <1>27, <1>28, <1>29, <1>30,
       <1>31, <1>32
    DEF Next, SignOn, Send, SendContacts, GetFromList, RecvCommand, Relay,
        SignOff, Peer, Finished

-----------------------------------------------------------------------------
\* Locks: who holds the directory's mutex and the Conts' locks.
LEMMA LocksInit == Init => Locks
  BY SessionAssumption DEF Init, Locks

\* Every step preserves locks.
LEMMA LocksStep == TypeOK /\ Shape /\ Locks /\ [Next]_vars => Locks'
  <1> SUFFICES ASSUME TypeOK, Shape, Locks, [Next]_vars PROVE Locks'
    OBVIOUS
  <1> USE SessionAssumption, FrameSet
      DEF TypeOK, Shape, Locks, Goto, Begin, Forget, Dest, Relays,
          contVars, listVars, netVars, threadVars
  <1>1. ASSUME NEW c \in Conn, Accept(c) PROVE Locks'
    BY <1>1 DEF Accept, NewUser
  <1>2. ASSUME NEW c \in Conn, AuthError(c) PROVE Locks'
    BY <1>2 DEF AuthError
  <1>3. ASSUME NEW c \in Conn, NEW u \in User \cup {NoUser}, AuthAnswer(c, u)
        PROVE  Locks'
    BY <1>3 DEF AuthAnswer
  <1>4. ASSUME NEW c \in Conn, NewClient(c) PROVE Locks'
    BY <1>4 DEF NewClient
  <1>5. ASSUME NEW c \in Conn, NoClient(c) PROVE Locks'
    BY <1>5 DEF NoClient
  <1>6. ASSUME NEW c \in Conn, Refuse(c) PROVE Locks'
    BY <1>6 DEF Refuse
  <1>7. ASSUME NEW c \in Conn, AddUserToList(c) PROVE Locks'
    BY <1>7 DEF AddUserToList
  <1>8. ASSUME NEW c \in Conn, DropCopy(c) PROVE Locks'
    BY <1>8 DEF DropCopy
  <1>9. ASSUME NEW c \in Conn, LockCont(c) PROVE Locks'
    BY <1>9 DEF LockCont
  <1>10. ASSUME NEW c \in Conn, SendPart(c) PROVE Locks'
    BY <1>10 DEF SendPart, Writing
  <1>11. ASSUME NEW c \in Conn, SendFails(c) PROVE Locks'
    BY <1>11 DEF SendFails, Writing
  <1>12. ASSUME NEW c \in Conn, OwnInformationSent(c) PROVE Locks'
    BY <1>12 DEF OwnInformationSent, Unlock
  <1>13. ASSUME NEW c \in Conn, NextContact(c) PROVE Locks'
    BY <1>13 DEF NextContact
  <1>14. ASSUME NEW c \in Conn, ReadContact(c) PROVE Locks'
    BY <1>14 DEF ReadContact
  <1>15. ASSUME NEW c \in Conn, ContactSent(c) PROVE Locks'
    BY <1>15 DEF ContactSent, Unlock
  <1>16. ASSUME NEW c \in Conn, ContactsDone(c) PROVE Locks'
    BY <1>16 DEF ContactsDone
  <1>17. ASSUME NEW c \in Conn, EnterList(c) PROVE Locks'
    BY <1>17 DEF EnterList
  <1>18. ASSUME NEW c \in Conn, Found(c) PROVE Locks'
    BY <1>18 DEF Found, Lookup
  <1>19. ASSUME NEW c \in Conn, NotFound(c) PROVE Locks'
    <2>1. c # NoConn /\ ListenMutex = c /\ pc'[c] \in {"act", "contacts", "lock"}
      BY <1>19 DEF NotFound
    <2>2. \A t \in Conn : t # c => pc'[t] = pc[t] /\ Dest(t)' = Dest(t)
      BY <1>19 DEF NotFound
    <2>3. ListenMutex' = NoConn /\ ContLock' = ContLock
      BY <1>19 DEF NotFound
    <2>4. pc[c] \in {"find", "erase"} /\ NoConn \notin Conn
      BY <1>19, SessionAssumption DEF NotFound
    <2>5. \A t \in Conn : ListenMutex' = t <=> pc'[t] \in {"find", "erase"}
      BY <2>1, <2>2, <2>3, <2>4
    <2>6. \A t, d \in Conn : ContLock'[d] = t <=> pc'[t] = "send" /\ Dest(t)' = d
      BY <2>1, <2>2, <2>3, <2>4
    <2> QED  BY <2>5, <2>6
  <1>20. ASSUME NEW c \in Conn,
               NEW f \in Relays, NEW u \in User \cup {NoUser}, RecvRelay(c, f, u)
         PROVE  Locks'
    BY <1>20 DEF RecvRelay
  <1>21. ASSUME NEW c \in Conn, RecvOther(c) PROVE Locks'
    BY <1>21 DEF RecvOther
  <1>22. ASSUME NEW c \in Conn, RecvEnd(c) PROVE Locks'
    BY <1>22 DEF RecvEnd
  <1>23. ASSUME NEW c \in Conn, MessageSent(c) PROVE Locks'
    BY <1>23 DEF MessageSent, Unlock
  <1>24. ASSUME NEW c \in Conn, DeleteEmpfaenger(c) PROVE Locks'
    BY <1>24 DEF DeleteEmpfaenger
  <1>25. ASSUME NEW c \in Conn, QuestionSent(c) PROVE Locks'
    BY <1>25 DEF QuestionSent, Unlock
  <1>26. ASSUME NEW c \in Conn, EnterListToLeave(c) PROVE Locks'
    BY <1>26 DEF EnterListToLeave
  <1>27. ASSUME NEW c \in Conn, Erase(c) PROVE Locks'
    BY <1>27 DEF Erase
  <1>28. ASSUME NEW c \in Conn, DeleteClient(c) PROVE Locks'
    BY <1>28 DEF DeleteClient
  <1>29. ASSUME NEW c \in Conn, PeerStalls(c) PROVE Locks'
    BY <1>29 DEF PeerStalls, SetPeer
  <1>30. ASSUME NEW c \in Conn, PeerReads(c) PROVE Locks'
    BY <1>30 DEF PeerReads, SetPeer
  <1>31. ASSUME NEW c \in Conn, PeerGone(c) PROVE Locks'
    BY <1>31 DEF PeerGone, SetPeer
  <1>32. CASE UNCHANGED vars
    BY <1>32 DEF vars
  <1> QED
    BY <1>1, <1>2, <1>3, <1>4, <1>5, <1>6, <1>7, <1>8, <1>9, <1>10, <1>11,
       <1>12, <1>13, <1>14, <1>15, <1>16, <1>17, <1>18, <1>19, <1>20,
       <1>21, <1>22, <1>23, <1>24, <1>25, <1>26, <1>27, <1>28, <1>29, <1>30,
       <1>31, <1>32
    DEF Next, SignOn, Send, SendContacts, GetFromList, RecvCommand, Relay,
        SignOff, Peer, Finished

-----------------------------------------------------------------------------
\* Directory: entries are made and erased under the mutex, by the session's
\* own thread, and by it alone.
LEMMA DirInit == Init => Directory
  BY SessionAssumption DEF Init, Directory, ListedSessions, Listed, HasClient

\* Every step preserves the directory.
LEMMA DirStep == TypeOK /\ Locks /\ Directory /\ [Next]_vars => Directory'
  <1> SUFFICES ASSUME TypeOK, Locks, Directory, [Next]_vars PROVE Directory'
    OBVIOUS
  <1> USE SessionAssumption
      DEF TypeOK, Locks, Directory, ListedSessions, Listed, HasClient, Goto,
          contVars, listVars, netVars, threadVars
  <1>1. ASSUME NEW c \in Conn, Accept(c) PROVE Directory'
    BY <1>1 DEF Accept, NewUser
  <1>2. ASSUME NEW c \in Conn, AuthError(c) PROVE Directory'
    BY <1>2 DEF AuthError
  <1>3. ASSUME NEW c \in Conn, NEW u \in User \cup {NoUser}, AuthAnswer(c, u)
        PROVE  Directory'
    BY <1>3 DEF AuthAnswer
  <1>4. ASSUME NEW c \in Conn, NewClient(c) PROVE Directory'
    BY <1>4 DEF NewClient
  <1>5. ASSUME NEW c \in Conn, NoClient(c) PROVE Directory'
    BY <1>5 DEF NoClient
  <1>6. ASSUME NEW c \in Conn, Refuse(c) PROVE Directory'
    BY <1>6 DEF Refuse
  <1>7. ASSUME NEW c \in Conn, AddUserToList(c) PROVE Directory'
    BY <1>7 DEF AddUserToList
  <1>8. ASSUME NEW c \in Conn, DropCopy(c) PROVE Directory'
    <2>1. /\ ID' = ID /\ Userliste' = Userliste
          /\ \A t \in Conn : t # c => pc'[t] = pc[t]
          /\ pc[c] = "drop"
          /\ pc'[c] = IF Userliste[ID[c]] = c THEN "lock" ELSE "delete"
      BY <1>8 DEF DropCopy
    <2>2. ASSUME NEW u \in User, Userliste'[u] # NoConn
          PROVE  ID'[Userliste'[u]] = u /\ pc'[Userliste'[u]] \in Listed \cup {"drop"}
      <3>1. CASE Userliste[u] = c
        BY <2>1, <2>2, <3>1
      <3>2. CASE Userliste[u] # c
        BY <2>1, <2>2, <3>2
      <3> QED  BY <3>1, <3>2
    <2>3. \A t \in Conn : pc'[t] \in Listed => Userliste'[ID'[t]] = t
      BY <2>1
    <2>4. \A t \in Conn : /\ pc'[t] \in HasClient => ID'[t] # NoUser
                          /\ pc'[t] \in {"idle", "auth"} => ID'[t] = NoUser
      BY <2>1
    <2> QED  BY <2>2, <2>3, <2>4
  <1>9. ASSUME NEW c \in Conn, LockCont(c) PROVE Directory'
    BY <1>9 DEF LockCont
  <1>10. ASSUME NEW c \in Conn, SendPart(c) PROVE Directory'
    BY <1>10 DEF SendPart, Writing
  <1>11. ASSUME NEW c \in Conn, SendFails(c) PROVE Directory'
    BY <1>11 DEF SendFails, Writing
  <1>12. ASSUME NEW c \in Conn, OwnInformationSent(c) PROVE Directory'
    BY <1>12 DEF OwnInformationSent, Unlock
  <1>13. ASSUME NEW c \in Conn, NextContact(c) PROVE Directory'
    BY <1>13 DEF NextContact
  <1>14. ASSUME NEW c \in Conn, ReadContact(c) PROVE Directory'
    BY <1>14 DEF ReadContact
  <1>15. ASSUME NEW c \in Conn, ContactSent(c) PROVE Directory'
    BY <1>15 DEF ContactSent, Unlock
  <1>16. ASSUME NEW c \in Conn, ContactsDone(c) PROVE Directory'
    BY <1>16 DEF ContactsDone
  <1>17. ASSUME NEW c \in Conn, EnterList(c) PROVE Directory'
    BY <1>17 DEF EnterList
  <1>18. ASSUME NEW c \in Conn, Found(c) PROVE Directory'
    BY <1>18 DEF Found, Lookup
  <1>19. ASSUME NEW c \in Conn, NotFound(c) PROVE Directory'
    BY <1>19 DEF NotFound, Lookup
  <1>20. ASSUME NEW c \in Conn,
               NEW f \in Relays, NEW u \in User \cup {NoUser}, RecvRelay(c, f, u)
         PROVE  Directory'
    BY <1>20 DEF RecvRelay
  <1>21. ASSUME NEW c \in Conn, RecvOther(c) PROVE Directory'
    BY <1>21 DEF RecvOther
  <1>22. ASSUME NEW c \in Conn, RecvEnd(c) PROVE Directory'
    BY <1>22 DEF RecvEnd
  <1>23. ASSUME NEW c \in Conn, MessageSent(c) PROVE Directory'
    BY <1>23 DEF MessageSent, Unlock
  <1>24. ASSUME NEW c \in Conn, DeleteEmpfaenger(c) PROVE Directory'
    BY <1>24 DEF DeleteEmpfaenger
  <1>25. ASSUME NEW c \in Conn, QuestionSent(c) PROVE Directory'
    BY <1>25 DEF QuestionSent, Unlock
  <1>26. ASSUME NEW c \in Conn, EnterListToLeave(c) PROVE Directory'
    BY <1>26 DEF EnterListToLeave
  <1>27. ASSUME NEW c \in Conn, Erase(c) PROVE Directory'
    BY <1>27 DEF Erase
  <1>28. ASSUME NEW c \in Conn, DeleteClient(c) PROVE Directory'
    BY <1>28 DEF DeleteClient
  <1>29. ASSUME NEW c \in Conn, PeerStalls(c) PROVE Directory'
    BY <1>29 DEF PeerStalls, SetPeer
  <1>30. ASSUME NEW c \in Conn, PeerReads(c) PROVE Directory'
    BY <1>30 DEF PeerReads, SetPeer
  <1>31. ASSUME NEW c \in Conn, PeerGone(c) PROVE Directory'
    BY <1>31 DEF PeerGone, SetPeer
  <1>32. CASE UNCHANGED vars
    BY <1>32 DEF vars
  <1> QED
    BY <1>1, <1>2, <1>3, <1>4, <1>5, <1>6, <1>7, <1>8, <1>9, <1>10, <1>11,
       <1>12, <1>13, <1>14, <1>15, <1>16, <1>17, <1>18, <1>19, <1>20,
       <1>21, <1>22, <1>23, <1>24, <1>25, <1>26, <1>27, <1>28, <1>29, <1>30,
       <1>31, <1>32
    DEF Next, SignOn, Send, SendContacts, GetFromList, RecvCommand, Relay,
        SignOff, Peer, Finished

-----------------------------------------------------------------------------
\* Handles: a session in the directory has been listed for its user, and a
\* copy of its User outlives the entry without changing the user.
LEMMA HandlesInit == Init => Handles
  BY SessionAssumption DEF Init, Handles

\* Every step preserves the copies' users.
LEMMA HandlesStep ==
    TypeOK /\ Shape /\ Locks /\ Directory /\ Handles /\ [Next]_vars => Handles'
  <1> SUFFICES ASSUME TypeOK, Shape, Locks, Directory, Handles, [Next]_vars
      PROVE  Handles'
    OBVIOUS
  <1> USE SessionAssumption, FrameSet DEF TypeOK, Shape, Handles, Relays,
          Listed, HasClient, Goto, Begin, Forget,
          contVars, listVars, netVars, threadVars
  <1>1. ASSUME NEW c \in Conn, Accept(c) PROVE Handles'
    <2>1. /\ UNCHANGED <<Empfaenger, target, ID>> /\ pc[c] = "idle"
          /\ pc'[c] \in {"auth", "orphan"} /\ \A t \in Conn : t # c => pc'[t] = pc[t]
      BY <1>1 DEF Accept, NewUser
    <2> QED  BY <2>1
  <1>2. ASSUME NEW c \in Conn, AuthError(c) PROVE Handles'
    BY <1>2 DEF AuthError
  <1>3. ASSUME NEW c \in Conn, NEW u \in User \cup {NoUser}, AuthAnswer(c, u)
        PROVE  Handles'
    BY <1>3 DEF AuthAnswer
  <1>4. ASSUME NEW c \in Conn, NewClient(c) PROVE Handles'
    BY <1>4 DEF NewClient
  <1>5. ASSUME NEW c \in Conn, NoClient(c) PROVE Handles'
    BY <1>5 DEF NoClient
  <1>6. ASSUME NEW c \in Conn, Refuse(c) PROVE Handles'
    BY <1>6 DEF Refuse
  <1>7. ASSUME NEW c \in Conn, AddUserToList(c) PROVE Handles'
    BY <1>7 DEF AddUserToList
  <1>8. ASSUME NEW c \in Conn, DropCopy(c) PROVE Handles'
    BY <1>8 DEF DropCopy
  <1>9. ASSUME NEW c \in Conn, LockCont(c) PROVE Handles'
    BY <1>9 DEF LockCont
  <1>10. ASSUME NEW c \in Conn, SendPart(c) PROVE Handles'
    BY <1>10 DEF SendPart, Writing
  <1>11. ASSUME NEW c \in Conn, SendFails(c) PROVE Handles'
    BY <1>11 DEF SendFails, Writing
  <1>12. ASSUME NEW c \in Conn, OwnInformationSent(c) PROVE Handles'
    BY <1>12 DEF OwnInformationSent, Unlock
  <1>13. ASSUME NEW c \in Conn, NextContact(c) PROVE Handles'
    BY <1>13 DEF NextContact
  <1>14. ASSUME NEW c \in Conn, ReadContact(c) PROVE Handles'
    BY <1>14 DEF ReadContact
  <1>15. ASSUME NEW c \in Conn, ContactSent(c) PROVE Handles'
    BY <1>15 DEF ContactSent, Unlock
  <1>16. ASSUME NEW c \in Conn, ContactsDone(c) PROVE Handles'
    BY <1>16 DEF ContactsDone
  <1>17. ASSUME NEW c \in Conn, EnterList(c) PROVE Handles'
    BY <1>17 DEF EnterList
  <1>18. ASSUME NEW c \in Conn, Found(c) PROVE Handles'
    BY <1>18 DEF Found, Lookup, Directory, ListedSessions, Lookup
  <1>19. ASSUME NEW c \in Conn, NotFound(c) PROVE Handles'
    BY <1>19 DEF NotFound, Lookup, Lookup
  <1>20. ASSUME NEW c \in Conn,
               NEW f \in Relays, NEW u \in User \cup {NoUser}, RecvRelay(c, f, u)
         PROVE  Handles'
    BY <1>20 DEF RecvRelay
  <1>21. ASSUME NEW c \in Conn, RecvOther(c) PROVE Handles'
    BY <1>21 DEF RecvOther
  <1>22. ASSUME NEW c \in Conn, RecvEnd(c) PROVE Handles'
    BY <1>22 DEF RecvEnd
  <1>23. ASSUME NEW c \in Conn, MessageSent(c) PROVE Handles'
    BY <1>23 DEF MessageSent, Unlock
  <1>24. ASSUME NEW c \in Conn, DeleteEmpfaenger(c) PROVE Handles'
    BY <1>24 DEF DeleteEmpfaenger
  <1>25. ASSUME NEW c \in Conn, QuestionSent(c) PROVE Handles'
    BY <1>25 DEF QuestionSent, Unlock
  <1>26. ASSUME NEW c \in Conn, EnterListToLeave(c) PROVE Handles'
    BY <1>26 DEF EnterListToLeave
  <1>27. ASSUME NEW c \in Conn, Erase(c) PROVE Handles'
    BY <1>27 DEF Erase
  <1>28. ASSUME NEW c \in Conn, DeleteClient(c) PROVE Handles'
    BY <1>28 DEF DeleteClient
  <1>29. ASSUME NEW c \in Conn, PeerStalls(c) PROVE Handles'
    BY <1>29 DEF PeerStalls, SetPeer
  <1>30. ASSUME NEW c \in Conn, PeerReads(c) PROVE Handles'
    BY <1>30 DEF PeerReads, SetPeer
  <1>31. ASSUME NEW c \in Conn, PeerGone(c) PROVE Handles'
    BY <1>31 DEF PeerGone, SetPeer
  <1>32. CASE UNCHANGED vars
    BY <1>32 DEF vars
  <1> QED
    BY <1>1, <1>2, <1>3, <1>4, <1>5, <1>6, <1>7, <1>8, <1>9, <1>10, <1>11,
       <1>12, <1>13, <1>14, <1>15, <1>16, <1>17, <1>18, <1>19, <1>20,
       <1>21, <1>22, <1>23, <1>24, <1>25, <1>26, <1>27, <1>28, <1>29, <1>30,
       <1>31, <1>32
    DEF Next, SignOn, Send, SendContacts, GetFromList, RecvCommand, Relay,
        SignOff, Peer, Finished

\* Two threads never write to the same connection: the lock keeps writers of
\* frames apart, and nobody else knows a session that is still answering.
LEMMA OneWriter ==
  ASSUME TypeOK, Shape, Locks, Handles,
         NEW t \in Conn, NEW s \in Conn, NEW d \in Conn,
         WritesTo(t, d), WritesTo(s, d)
  PROVE  t = s
  <1>1. \A x \in Conn : pc[x] = "reply" => Dest(x) = x
    BY DEF Shape, Dest, Relays
  <1>2. \A x, y \in Conn : pc[x] = "send" /\ pc[y] = "reply" => Dest(x) # y
    <2> SUFFICES ASSUME NEW x \in Conn, NEW y \in Conn,
                        pc[x] = "send", pc[y] = "reply", Dest(x) = y
                 PROVE  FALSE
      OBVIOUS
    <2>1. frame[x] \in Relays /\ Empfaenger[x] = y
      BY DEF Dest
    <2>2. Empfaenger[x] # NoConn
      BY <2>1, SessionAssumption
    <2>3. pc[y] \in HasClient \cup {"done"}
      BY <2>1, <2>2 DEF Handles
    <2> QED  BY <2>3 DEF HasClient, Listed
  <1>3. CASE pc[t] = "send" /\ pc[s] = "send"
    BY <1>3, SessionAssumption DEF Locks, WritesTo
  <1>4. CASE pc[t] = "reply" /\ pc[s] = "reply"
    BY <1>1, <1>4 DEF WritesTo
  <1>5. CASE pc[t] = "send" /\ pc[s] = "reply"
    BY <1>1, <1>2, <1>5 DEF WritesTo
  <1>6. CASE pc[t] = "reply" /\ pc[s] = "send"
    BY <1>1, <1>2, <1>6 DEF WritesTo
  <1> QED  BY <1>3, <1>4, <1>5, <1>6 DEF WritesTo

-----------------------------------------------------------------------------
\* Streams: with one writer at a time, what is unfinished on a connection is
\* as long as its writer remembers.
LEMMA StreamsInit == Init => Streams
  BY SessionAssumption DEF Init, Streams, Whole, WritesTo

\* Every step preserves the streams.
LEMMA StreamsStep ==
    TypeOK /\ Shape /\ Locks /\ Handles /\ Streams /\ [Next]_vars => Streams'
  <1> SUFFICES ASSUME TypeOK, Shape, Locks, Handles, Streams, [Next]_vars
      PROVE  Streams'
    OBVIOUS
  <1>1. ASSUME NEW c \in Conn, Accept(c) PROVE Streams'
    BY <1>1, SessionAssumption, FrameSet, PartsNat
    DEF Accept, NewUser, TypeOK, Shape, Streams, WritesTo, Dest, Relays, Goto, contVars,
        listVars
  <1>2. ASSUME NEW c \in Conn, AuthError(c) PROVE Streams'
    BY <1>2, SessionAssumption, FrameSet, PartsNat
    DEF AuthError, TypeOK, Shape, Streams, WritesTo, Dest, Relays, Goto,
        contVars, listVars, netVars
  <1>3. ASSUME NEW c \in Conn, NEW u \in User \cup {NoUser}, AuthAnswer(c, u)
        PROVE  Streams'
    BY <1>3, SessionAssumption, FrameSet, PartsNat
    DEF AuthAnswer, TypeOK, Shape, Streams, WritesTo, Dest, Relays, Goto,
        Begin, listVars, netVars
  <1>4. ASSUME NEW c \in Conn, NewClient(c) PROVE Streams'
    BY <1>4, SessionAssumption, FrameSet, PartsNat
    DEF NewClient, TypeOK, Shape, Streams, WritesTo, Dest, Relays, Goto, Begin,
        Forget, listVars, netVars
  <1>5. ASSUME NEW c \in Conn, NoClient(c) PROVE Streams'
    BY <1>5, SessionAssumption, FrameSet, PartsNat
    DEF NoClient, TypeOK, Shape, Streams, WritesTo, Dest, Relays, Goto, Begin,
        Forget, contVars, listVars, netVars
  <1>6. ASSUME NEW c \in Conn, Refuse(c) PROVE Streams'
    BY <1>6, SessionAssumption, FrameSet, PartsNat
    DEF Refuse, TypeOK, Shape, Streams, WritesTo, Dest, Relays, Goto, contVars,
        listVars
  <1>7. ASSUME NEW c \in Conn, AddUserToList(c) PROVE Streams'
    BY <1>7, SessionAssumption, FrameSet, PartsNat
    DEF AddUserToList, TypeOK, Shape, Streams, WritesTo, Dest, Relays, Goto,
        netVars
  <1>8. ASSUME NEW c \in Conn, DropCopy(c) PROVE Streams'
    BY <1>8, SessionAssumption, FrameSet, PartsNat
    DEF DropCopy, TypeOK, Shape, Streams, WritesTo, Dest, Relays, Goto, Begin,
        listVars, netVars
  <1>9. ASSUME NEW c \in Conn, LockCont(c) PROVE Streams'
    BY <1>9, SessionAssumption, FrameSet, PartsNat
    DEF LockCont, TypeOK, Shape, Streams, WritesTo, Dest, Relays, Goto,
        listVars, netVars
  <1>10. ASSUME NEW c \in Conn, SendPart(c) PROVE Streams'
    <2> DEFINE d == Dest(c)
               n == part[c] + 1
    <2>1. /\ d \in Conn /\ part[c] \in Nat /\ Parts[frame[c]] \in Nat
          /\ part[c] < Parts[frame[c]] /\ peer[d] = "up"
      BY <1>10, DestInConn, PartsNat DEF SendPart, Writing, TypeOK
    <2>2. \A t \in Conn : WritesTo(t, d) => t = c
      BY <1>10, <2>1, OneWriter DEF SendPart, Writing, WritesTo
    <2>3. /\ \A t \in Conn, e \in Conn : WritesTo(t, e)' <=> WritesTo(t, e)
          /\ \A t \in Conn \ {c} : part'[t] = part[t]
          /\ part'[c] = n
          /\ UNCHANGED <<frame, peer, pc, Empfaenger>>
      BY <1>10 DEF SendPart, WritesTo, Dest, TypeOK
    <2>4. \A e \in Conn \ {d} : mid'[e] = mid[e]
      BY <1>10 DEF SendPart, TypeOK
    <2>5. mid'[d] = IF n = Parts[frame[c]] THEN Whole ELSE [by |-> c, part |-> n]
      BY <1>10, <2>1 DEF SendPart, TypeOK
    <2>6. WritesTo(c, d) /\ \A e \in Conn \ {d} : ~WritesTo(c, e)
      BY <1>10 DEF SendPart, Writing, WritesTo
    <2> HIDE DEF d
    <2>7. ASSUME NEW e \in Conn \ {d}, peer[e] # "gone"
          PROVE  /\ mid'[e] # Whole =>
                       /\ mid'[e].by \in Conn
                       /\ WritesTo(mid[e].by, e)
                       /\ mid'[e].part = part'[mid'[e].by]
                       /\ mid'[e].part > 0
                       /\ mid'[e].part < Parts[frame[mid'[e].by]]
                 /\ \A t \in Conn :
                       WritesTo(t, e) /\ part'[t] > 0 /\ part'[t] < Parts[frame[t]] =>
                          mid'[e] = [by |-> t, part |-> part'[t]]
      BY <2>3, <2>4, <2>6, <2>7 DEF Streams
    <2>8. /\ mid'[d] # Whole =>
                /\ mid'[d].by = c
                /\ mid'[d].part = n
                /\ n < Parts[frame[c]]
          /\ n > 0
          /\ n < Parts[frame[c]] => mid'[d] = [by |-> c, part |-> n]
      BY <2>1, <2>5
    <2>9. ASSUME NEW e \in Conn \ {d}, peer[e] # "gone", mid'[e] # Whole
          PROVE  WritesTo(mid'[e].by, e)
      BY <2>4, <2>9 DEF Streams
    <2> QED
      <3>1. \A e \in Conn : pc'[e] = "idle" => peer'[e] = "none"
        BY <2>3 DEF Streams
      <3>2. ASSUME NEW e \in Conn, peer'[e] # "gone"
            PROVE  /\ mid'[e] # Whole =>
                         /\ mid'[e].by \in Conn
                         /\ WritesTo(mid'[e].by, e)
                         /\ mid'[e].part = part'[mid'[e].by]
                         /\ mid'[e].part > 0
                         /\ mid'[e].part < Parts[frame'[mid'[e].by]]
                   /\ \A t \in Conn :
                         WritesTo(t, e) /\ part'[t] > 0 /\ part'[t] < Parts[frame'[t]] =>
                            mid'[e] = [by |-> t, part |-> part'[t]]
        <4>1. CASE e = d
          BY <2>1, <2>2, <2>3, <2>6, <2>8, <4>1
        <4>2. CASE e # d
          BY <2>3, <2>7, <2>9, <3>2, <4>2
        <4> QED  BY <4>1, <4>2
      <3> QED  BY <2>3, <3>1, <3>2 DEF Streams, WritesTo, Dest
  <1>11. ASSUME NEW c \in Conn, SendFails(c) PROVE Streams'
    BY <1>11, SessionAssumption, FrameSet, PartsNat
    DEF SendFails, Writing, TypeOK, Shape, Streams, WritesTo, Dest, Relays,
        contVars, listVars, netVars
  <1>12. ASSUME NEW c \in Conn, OwnInformationSent(c) PROVE Streams'
    BY <1>12, SessionAssumption, FrameSet, PartsNat
    DEF OwnInformationSent, Unlock, TypeOK, Shape, Streams, WritesTo, Dest,
        Relays, Goto, Begin, Forget, listVars, netVars
  <1>13. ASSUME NEW c \in Conn, NextContact(c) PROVE Streams'
    BY <1>13, SessionAssumption, FrameSet, PartsNat
    DEF NextContact, TypeOK, Shape, Streams, WritesTo, Dest, Relays, Goto,
        Begin, contVars, listVars, netVars
  <1>14. ASSUME NEW c \in Conn, ReadContact(c) PROVE Streams'
    BY <1>14, SessionAssumption, FrameSet, PartsNat
    DEF ReadContact, TypeOK, Shape, Streams, WritesTo, Dest, Relays, Goto,
        listVars, netVars
  <1>15. ASSUME NEW c \in Conn, ContactSent(c) PROVE Streams'
    BY <1>15, SessionAssumption, FrameSet, PartsNat
    DEF ContactSent, Unlock, TypeOK, Shape, Streams, WritesTo, Dest, Relays,
        Goto, Begin, Forget, listVars, netVars
  <1>16. ASSUME NEW c \in Conn, ContactsDone(c) PROVE Streams'
    BY <1>16, SessionAssumption, FrameSet, PartsNat
    DEF ContactsDone, TypeOK, Shape, Streams, WritesTo, Dest, Relays, Goto,
        contVars, listVars, netVars
  <1>17. ASSUME NEW c \in Conn, EnterList(c) PROVE Streams'
    BY <1>17, SessionAssumption, FrameSet, PartsNat
    DEF EnterList, TypeOK, Shape, Streams, WritesTo, Dest, Relays, Goto,
        contVars, netVars
  <1>18. ASSUME NEW c \in Conn, Found(c) PROVE Streams'
    BY <1>18, SessionAssumption, FrameSet, PartsNat
    DEF Found, Lookup, TypeOK, Shape, Streams, WritesTo, Dest, Relays, Goto,
        netVars
  <1>19. ASSUME NEW c \in Conn, NotFound(c) PROVE Streams'
    <2>1. /\ c # NoConn /\ pc[c] = "find" /\ pc'[c] \in {"act", "contacts", "lock"}
          /\ \A t \in Conn : t # c => /\ pc'[t] = pc[t] /\ Dest(t)' = Dest(t)
                                      /\ part'[t] = part[t] /\ frame'[t] = frame[t]
          /\ UNCHANGED <<peer, mid>>
      BY <1>19, SessionAssumption
      DEF NotFound, Goto, Begin, Forget, Dest, TypeOK, netVars
    <2>2. \A e \in Conn : ~WritesTo(c, e) /\ ~WritesTo(c, e)'
      BY <2>1 DEF WritesTo
    <2> QED  BY <2>1, <2>2 DEF Streams, WritesTo
  <1>20. ASSUME NEW c \in Conn,
               NEW f \in Relays, NEW u \in User \cup {NoUser}, RecvRelay(c, f, u)
         PROVE  Streams'
    BY <1>20, SessionAssumption, FrameSet, PartsNat
    DEF RecvRelay, TypeOK, Shape, Streams, WritesTo, Dest, Relays, Goto, Begin,
        contVars, listVars, netVars
  <1>21. ASSUME NEW c \in Conn, RecvOther(c) PROVE Streams'
    BY <1>21, SessionAssumption, FrameSet, PartsNat
    DEF RecvOther, TypeOK, Shape, Streams, WritesTo, Dest, Relays, contVars,
        listVars, netVars
  <1>22. ASSUME NEW c \in Conn, RecvEnd(c) PROVE Streams'
    BY <1>22, SessionAssumption, FrameSet, PartsNat
    DEF RecvEnd, TypeOK, Shape, Streams, WritesTo, Dest, Relays, Goto,
        contVars, listVars, netVars
  <1>23. ASSUME NEW c \in Conn, MessageSent(c) PROVE Streams'
    BY <1>23, SessionAssumption, FrameSet, PartsNat
    DEF MessageSent, Unlock, TypeOK, Shape, Streams, WritesTo, Dest, Relays,
        Goto, Begin, Forget, listVars, netVars
  <1>24. ASSUME NEW c \in Conn, DeleteEmpfaenger(c) PROVE Streams'
    BY <1>24, SessionAssumption, FrameSet, PartsNat
    DEF DeleteEmpfaenger, TypeOK, Shape, Streams, WritesTo, Dest, Relays, Goto,
        listVars, netVars
  <1>25. ASSUME NEW c \in Conn, QuestionSent(c) PROVE Streams'
    BY <1>25, SessionAssumption, FrameSet, PartsNat
    DEF QuestionSent, Unlock, TypeOK, Shape, Streams, WritesTo, Dest, Relays,
        Goto, Begin, Forget, listVars, netVars
  <1>26. ASSUME NEW c \in Conn, EnterListToLeave(c) PROVE Streams'
    BY <1>26, SessionAssumption, FrameSet, PartsNat
    DEF EnterListToLeave, TypeOK, Shape, Streams, WritesTo, Dest, Relays, Goto,
        contVars, netVars
  <1>27. ASSUME NEW c \in Conn, Erase(c) PROVE Streams'
    BY <1>27, SessionAssumption, FrameSet, PartsNat
    DEF Erase, TypeOK, Shape, Streams, WritesTo, Dest, Relays, Goto, netVars
  <1>28. ASSUME NEW c \in Conn, DeleteClient(c) PROVE Streams'
    BY <1>28, SessionAssumption, FrameSet, PartsNat
    DEF DeleteClient, TypeOK, Shape, Streams, WritesTo, Dest, Relays, Goto,
        listVars, netVars
  <1>29. ASSUME NEW c \in Conn, PeerStalls(c) PROVE Streams'
    BY <1>29, SessionAssumption, FrameSet, PartsNat
    DEF PeerStalls, SetPeer, TypeOK, Shape, Streams, WritesTo, Dest, Relays,
        contVars, listVars, netVars, threadVars
  <1>30. ASSUME NEW c \in Conn, PeerReads(c) PROVE Streams'
    BY <1>30, SessionAssumption, FrameSet, PartsNat
    DEF PeerReads, SetPeer, TypeOK, Shape, Streams, WritesTo, Dest, Relays,
        contVars, listVars, netVars, threadVars
  <1>31. ASSUME NEW c \in Conn, PeerGone(c) PROVE Streams'
    BY <1>31, SessionAssumption, FrameSet, PartsNat
    DEF PeerGone, SetPeer, TypeOK, Shape, Streams, WritesTo, Dest, Relays,
        contVars, listVars, netVars, threadVars
  <1>32. CASE UNCHANGED vars
    BY <1>32, SessionAssumption, FrameSet, PartsNat
    DEF vars, threadVars, contVars, netVars, Streams, WritesTo, Dest
  <1> QED
    BY <1>1, <1>2, <1>3, <1>4, <1>5, <1>6, <1>7, <1>8, <1>9, <1>10, <1>11,
       <1>12, <1>13, <1>14, <1>15, <1>16, <1>17, <1>18, <1>19, <1>20,
       <1>21, <1>22, <1>23, <1>24, <1>25, <1>26, <1>27, <1>28, <1>29, <1>30,
       <1>31, <1>32
    DEF Next, SignOn, Send, SendContacts, GetFromList, RecvCommand, Relay,
        SignOff, Peer, Finished

-----------------------------------------------------------------------------
\* Counts: a copy is counted when it is made, and the count of copies from
\* GetFromList is the cardinality of the set of their holders.
LEMMA BorrowersFinite ==
  ASSUME NEW c
  PROVE  IsFiniteSet(Borrowers(c)) /\ Cardinality(Borrowers(c)) \in Nat
  BY SessionAssumption, FS_Subset, FS_CardinalityType DEF Borrowers

\* GetFromList gives a thread a copy of the User of session d.
LEMMA Borrow ==
  ASSUME TypeOK, NEW t \in Conn, NEW d \in Conn, Empfaenger[t] = NoConn,
         Empfaenger' = [Empfaenger EXCEPT ![t] = d]
  PROVE  /\ Cardinality(Borrowers(d))' = Cardinality(Borrowers(d)) + 1
         /\ \A c \in Conn \ {d} : Borrowers(c)' = Borrowers(c)
  <1>1. d # NoConn
    BY SessionAssumption
  <1>2. Borrowers(d)' = Borrowers(d) \cup {t} /\ t \notin Borrowers(d)
    BY <1>1 DEF Borrowers, TypeOK
  <1>3. \A c \in Conn \ {d} : Borrowers(c)' = Borrowers(c)
    BY SessionAssumption DEF Borrowers, TypeOK
  <1> QED  BY <1>2, <1>3, BorrowersFinite, FS_AddElement

\* A thread gives up its copy of the User of session d.
LEMMA GiveBack ==
  ASSUME TypeOK, NEW t \in Conn, NEW d \in Conn, Empfaenger[t] = d,
         Empfaenger' = [Empfaenger EXCEPT ![t] = NoConn]
  PROVE  /\ Cardinality(Borrowers(d)) \in Nat
         /\ Cardinality(Borrowers(d)) > 0
         /\ Cardinality(Borrowers(d))' = Cardinality(Borrowers(d)) - 1
         /\ \A c \in Conn \ {d} : Borrowers(c)' = Borrowers(c)
  <1>1. Borrowers(d)' = Borrowers(d) \ {t} /\ t \in Borrowers(d)
    BY SessionAssumption DEF Borrowers, TypeOK
  <1>2. Cardinality(Borrowers(d)) # 0
    BY <1>1, BorrowersFinite, FS_EmptySet
  <1>3. \A c \in Conn \ {d} : Borrowers(c)' = Borrowers(c)
    BY SessionAssumption DEF Borrowers, TypeOK
  <1>4. Cardinality(Borrowers(d) \ {t}) = Cardinality(Borrowers(d)) - 1
    BY <1>1, BorrowersFinite, FS_RemoveElement
  <1> QED  BY <1>1, <1>2, <1>3, <1>4, BorrowersFinite

\* The labels before the thread makes its Client.
Early == {"idle", "auth", "reply", "refuse", "orphan"}

\* Steps that neither make nor destroy a User object.
LEMMA CountsKept ==
  ASSUME TypeOK, Counts,
         UNCHANGED <<ID, Userliste, Empfaenger, leaked, mnRefCnt, mpCont>>,
         \A c \in Conn : /\ pc'[c] \in HasClient <=> pc[c] \in HasClient
                         /\ pc'[c] = "drop" <=> pc[c] = "drop"
                         /\ pc'[c] \in Early => pc[c] \in Early
  PROVE  Counts'
  <1>1. \A c \in Conn : Borrowers(c)' = Borrowers(c)
    BY DEF Borrowers
  <1>2. \A c \in Conn : Copies(c)' = Copies(c)
    BY <1>1 DEF Copies, Count
  <1> QED  BY <1>2 DEF Counts, RefCountExact, Early

\* The number of User objects of a session is a natural number.
LEMMA CopiesNat ==
  ASSUME TypeOK, NEW c \in Conn
  PROVE  Copies(c) \in Nat
  BY BorrowersFinite DEF Copies, Count, TypeOK

\* Initially there are no User objects.
LEMMA CountsInit == Init => Counts
  <1> SUFFICES ASSUME Init PROVE Counts
    OBVIOUS
  <1>1. \A c \in Conn : Borrowers(c) = {}
    BY SessionAssumption DEF Init, Borrowers
  <1>2. ASSUME NEW c \in Conn PROVE Copies(c) = 0
    <2>1. pc[c] = "idle" /\ ID[c] = NoUser /\ leaked[c] = 0
      BY DEF Init
    <2>2. pc[c] \notin HasClient
      BY <2>1 DEF HasClient, Listed
    <2>3. Cardinality(Borrowers(c)) = 0
      BY <1>1, FS_EmptySet
    <2> QED  BY <2>1, <2>2, <2>3 DEF Copies, Count
  <1> QED  BY <1>2 DEF Init, Counts, RefCountExact

\* Every step preserves the counts.
LEMMA CountsStep == TypeOK /\ Shape /\ Directory /\ Counts /\ [Next]_vars => Counts'
  <1> SUFFICES ASSUME TypeOK, Shape, Directory, Counts, [Next]_vars
      PROVE  Counts'
    OBVIOUS
  <1>1. ASSUME NEW c \in Conn, Accept(c) PROVE Counts'
    BY <1>1, CountsKept
    DEF Accept, NewUser, Goto, HasClient, Listed, Early, contVars, listVars, TypeOK
  <1>2. ASSUME NEW c \in Conn, AuthError(c) PROVE Counts'
    BY <1>2, CountsKept
    DEF AuthError, Goto, HasClient, Listed, Early, contVars, listVars, netVars,
        TypeOK
  <1>3. ASSUME NEW c \in Conn, NEW u \in User \cup {NoUser}, AuthAnswer(c, u)
        PROVE  Counts'
    <2>1. \A d \in Conn : Borrowers(d)' = Borrowers(d)
      BY <1>3 DEF AuthAnswer, Borrowers
    <2>2. \A x \in User : Userliste[x] # c
      BY <1>3, SessionAssumption
      DEF AuthAnswer, Directory, ListedSessions, Listed
    <2>3. \A d \in Conn : Copies(d)' = Copies(d)
      BY <1>3, <2>1, <2>2
      DEF AuthAnswer, Copies, Count, listVars, netVars, Goto, Begin, TypeOK,
          HasClient, Listed, Labels
    <2> QED  BY <1>3, <2>3
    DEF AuthAnswer, Counts, RefCountExact, listVars, netVars, Goto, Begin,
        TypeOK, HasClient, Listed, Labels
  <1>4. ASSUME NEW c \in Conn, NewClient(c) PROVE Counts'
    <2>1. \A d \in Conn : Borrowers(d)' = Borrowers(d)
      BY <1>4 DEF NewClient, Borrowers
    <2>2. mpCont[c] = "none" /\ mnRefCnt[c] = Copies(c) /\ ~(mnRefCnt[c] > 0)
      BY <1>4 DEF NewClient, Counts, RefCountExact, TypeOK
    <2>3. Copies(c) = 0
      BY <2>2, CopiesNat
    <2>4. Copies(c)' = 1
      BY <1>4, <2>1, <2>3, BorrowersFinite
      DEF NewClient, Copies, Count, listVars, netVars, Goto, Begin, Forget,
          TypeOK, HasClient, Listed, Labels
    <2>5. \A d \in Conn \ {c} : Copies(d)' = Copies(d)
      BY <1>4, <2>1
      DEF NewClient, Copies, Count, listVars, netVars, Goto, Begin, Forget,
          TypeOK, HasClient, Listed, Labels
    <2> QED  BY <1>4, <2>4, <2>5
    DEF NewClient, Counts, RefCountExact, listVars, netVars, Goto, Begin,
        Forget, TypeOK, HasClient, Listed, Labels
  <1>5. ASSUME NEW c \in Conn, NoClient(c) PROVE Counts'
    BY <1>5, CountsKept
    DEF NoClient, Goto, HasClient, Listed, Early, contVars, listVars, netVars,
        TypeOK
  <1>6. ASSUME NEW c \in Conn, Refuse(c) PROVE Counts'
    BY <1>6, CountsKept
    DEF Refuse, Goto, HasClient, Listed, Early, contVars, listVars, TypeOK
  <1>7. ASSUME NEW c \in Conn, AddUserToList(c) PROVE Counts'
    <2> DEFINE fresh == Userliste[ID[c]] = NoConn
    <2>1. \A d \in Conn : Borrowers(d)' = Borrowers(d)
      BY <1>7 DEF AddUserToList, Borrowers
    <2>2. ID[c] \in User /\ \A x \in User : Userliste[x] # c
      BY <1>7, SessionAssumption
      DEF AddUserToList, Directory, ListedSessions, netVars, Goto, TypeOK,
          HasClient, Listed, Labels
    <2>3. Copies(c)' = Copies(c) + 1 + Count(fresh)
      <3>1. pc[c] = "insert" /\ pc'[c] = "drop"
        BY <1>7 DEF AddUserToList, Goto, TypeOK
      <3>2. Userliste[ID[c]] # c /\ (Userliste'[ID[c]] = c <=> fresh) /\ ID[c] # NoUser
        BY <1>7, <2>2, SessionAssumption DEF AddUserToList, TypeOK
      <3>3. Copies(c) = 1 + 0 + 0 + Cardinality(Borrowers(c)) + leaked[c]
        BY <3>1, <3>2 DEF Copies, Count, HasClient
      <3>4. Copies(c)' = 1 + 1 + Count(fresh) + Cardinality(Borrowers(c)) + leaked[c]
        BY <1>7, <2>1, <3>1, <3>2 DEF AddUserToList, Copies, Count, HasClient
      <3>5. Count(fresh) \in Nat /\ leaked[c] \in Nat
        BY DEF Count, TypeOK
      <3> QED  BY <3>3, <3>4, <3>5, BorrowersFinite
    <2>4. \A d \in Conn \ {c} : Copies(d)' = Copies(d)
      BY <1>7, <2>1, <2>2, SessionAssumption
      DEF AddUserToList, Copies, Count, netVars, Goto, TypeOK, HasClient,
          Listed, Labels
    <2>5. Copies(c) > 0
      BY <1>7, BorrowersFinite
      DEF AddUserToList, Copies, Count, netVars, Goto, TypeOK, HasClient,
          Listed, Labels
    <2> QED  BY <1>7, <2>3, <2>4, <2>5
    DEF AddUserToList, Counts, RefCountExact, Count, netVars, Goto, TypeOK,
        HasClient, Listed, Labels
  <1>8. ASSUME NEW c \in Conn, DropCopy(c) PROVE Counts'
    <2>1. \A d \in Conn : Borrowers(d)' = Borrowers(d)
      BY <1>8 DEF DropCopy, Borrowers
    <2>2. Copies(c)' = Copies(c) - 1 /\ Copies(c) > 0
      BY <1>8, <2>1, BorrowersFinite, SessionAssumption
      DEF DropCopy, Directory, ListedSessions, Copies, Count, listVars,
          netVars, Goto, Begin, TypeOK, HasClient, Listed, Labels
    <2>3. \A d \in Conn \ {c} : Copies(d)' = Copies(d)
      BY <1>8, <2>1, SessionAssumption
      DEF DropCopy, Directory, ListedSessions, Copies, Count, listVars,
          netVars, Goto, Begin, TypeOK, HasClient, Listed, Labels
    <2> QED  BY <1>8, <2>2, <2>3
    DEF DropCopy, Destroy, Counts, RefCountExact, listVars, netVars, Goto,
        Begin, TypeOK, HasClient, Listed, Labels
  <1>9. ASSUME NEW c \in Conn, LockCont(c) PROVE Counts'
    BY <1>9, CountsKept
    DEF LockCont, Goto, HasClient, Listed, Early, listVars, netVars, TypeOK
  <1>10. ASSUME NEW c \in Conn, SendPart(c) PROVE Counts'
    BY <1>10, CountsKept
    DEF SendPart, Writing, HasClient, Listed, Early, contVars, listVars, TypeOK
  <1>11. ASSUME NEW c \in Conn, SendFails(c) PROVE Counts'
    BY <1>11, CountsKept
    DEF SendFails, Writing, HasClient, Listed, Early, contVars, listVars,
        netVars, TypeOK
  <1>12. ASSUME NEW c \in Conn, OwnInformationSent(c) PROVE Counts'
    BY <1>12, CountsKept
    DEF OwnInformationSent, Unlock, Goto, HasClient, Listed, Early, listVars,
        netVars, TypeOK
  <1>13. ASSUME NEW c \in Conn, NextContact(c) PROVE Counts'
    BY <1>13, CountsKept
    DEF NextContact, Goto, HasClient, Listed, Early, contVars, listVars,
        netVars, TypeOK
  <1>14. ASSUME NEW c \in Conn, ReadContact(c) PROVE Counts'
    <2>1. PICK d \in Conn : d = Empfaenger[c]
      BY <1>14 DEF ReadContact, Unlock, Shape, Relays, TypeOK
    <2>2. /\ Cardinality(Borrowers(d)) \in Nat /\ Cardinality(Borrowers(d)) > 0
          /\ Cardinality(Borrowers(d))' = Cardinality(Borrowers(d)) - 1
          /\ \A e \in Conn \ {d} : Borrowers(e)' = Borrowers(e)
      BY <1>14, <2>1, GiveBack DEF ReadContact
    <2>3. Copies(d)' = Copies(d) 
      <3>1. /\ pc'[d] \in HasClient <=> pc[d] \in HasClient
            /\ pc'[d] = "drop" <=> pc[d] = "drop"
            /\ UNCHANGED <<ID, Userliste>>
        BY <1>14
        DEF ReadContact, Goto, TypeOK, HasClient, Listed, listVars
      <3>2. leaked[d] \in Nat /\ leaked'[d] = leaked[d] + 1
        BY <1>14, <2>1 DEF ReadContact, TypeOK
      <3> QED  BY <2>2, <3>1, <3>2 DEF Copies, Count
    <2>4. \A e \in Conn \ {d} : Copies(e)' = Copies(e)
      BY <1>14, <2>1, <2>2
      DEF ReadContact, Copies, Count, listVars, netVars, Goto, TypeOK,
          HasClient, Listed, Labels
    <2>5. Copies(d) > 0
      BY <2>1, <2>2 DEF Copies, Count, TypeOK
    <2> QED  BY <1>14, <2>1, <2>3, <2>4, <2>5
    DEF ReadContact, Counts, RefCountExact, listVars, netVars, Goto, TypeOK,
        HasClient, Listed, Labels
  <1>15. ASSUME NEW c \in Conn, ContactSent(c) PROVE Counts'
    BY <1>15, CountsKept
    DEF ContactSent, Unlock, Goto, HasClient, Listed, Early, listVars, netVars,
        TypeOK
  <1>16. ASSUME NEW c \in Conn, ContactsDone(c) PROVE Counts'
    BY <1>16, CountsKept
    DEF ContactsDone, Goto, HasClient, Listed, Early, contVars, listVars,
        netVars, TypeOK
  <1>17. ASSUME NEW c \in Conn, EnterList(c) PROVE Counts'
    BY <1>17, CountsKept
    DEF EnterList, Goto, HasClient, Listed, Early, contVars, netVars, TypeOK
  <1>18. ASSUME NEW c \in Conn, Found(c) PROVE Counts'
    <2>1. PICK d \in Conn : /\ d = Lookup(target[c]) /\ Empfaenger[c] = NoConn
                            /\ target[c] \in User /\ Userliste[target[c]] = d
      BY <1>18 DEF Found, Lookup, Shape, TypeOK
    <2>2. /\ Cardinality(Borrowers(d))' = Cardinality(Borrowers(d)) + 1
          /\ \A e \in Conn \ {d} : Borrowers(e)' = Borrowers(e)
      BY <1>18, <2>1, Borrow DEF Found
    <2>3. Copies(d)' = Copies(d) + 1 /\ Copies(d) > 0
      <3>1. /\ pc'[d] \in HasClient <=> pc[d] \in HasClient
            /\ pc'[d] = "drop" <=> pc[d] = "drop"
            /\ UNCHANGED <<ID, Userliste, leaked>>
        BY <1>18 DEF Found, Goto, TypeOK, HasClient, Listed
      <3>2. pc[d] \in HasClient /\ leaked[d] \in Nat
        BY <2>1, SessionAssumption
        DEF Directory, ListedSessions, HasClient, TypeOK
      <3>3. Copies(d)' = Copies(d) + 1
        BY <2>2, <3>1, <3>2, BorrowersFinite DEF Copies, Count
      <3> QED  BY <3>2, <3>3, BorrowersFinite DEF Copies, Count
    <2>4. \A e \in Conn \ {d} : Copies(e)' = Copies(e)
      BY <1>18, <2>1, <2>2
      DEF Found, Copies, Count, netVars, Goto, TypeOK, HasClient, Listed,
          Labels
    <2>5. mnRefCnt' = [mnRefCnt EXCEPT ![d] = mnRefCnt[d] + 1]
      BY <1>18, <2>1 DEF Found, Copy
    <2> QED  BY <1>18, <2>1, <2>3, <2>4, <2>5
    DEF Found, Counts, RefCountExact, netVars, Goto, TypeOK, HasClient, Listed,
        Labels
  <1>19. ASSUME NEW c \in Conn, NotFound(c) PROVE Counts'
    BY <1>19, CountsKept
    DEF NotFound, Goto, HasClient, Listed, Early, contVars, netVars, TypeOK
  <1>20. ASSUME NEW c \in Conn,
               NEW f \in Relays, NEW u \in User \cup {NoUser}, RecvRelay(c, f, u)
         PROVE  Counts'
    BY <1>20, CountsKept
    DEF RecvRelay, Goto, HasClient, Listed, Early, contVars, listVars, netVars,
        TypeOK
  <1>21. ASSUME NEW c \in Conn, RecvOther(c) PROVE Counts'
    BY <1>21, CountsKept
    DEF RecvOther, HasClient, Listed, Early, contVars, listVars, netVars,
        TypeOK
  <1>22. ASSUME NEW c \in Conn, RecvEnd(c) PROVE Counts'
    BY <1>22, CountsKept
    DEF RecvEnd, Goto, HasClient, Listed, Early, contVars, listVars, netVars,
        TypeOK
  <1>23. ASSUME NEW c \in Conn, MessageSent(c) PROVE Counts'
    BY <1>23, CountsKept
    DEF MessageSent, Unlock, Goto, HasClient, Listed, Early, listVars, netVars,
        TypeOK
  <1>24. ASSUME NEW c \in Conn, DeleteEmpfaenger(c) PROVE Counts'
    <2>1. PICK d \in Conn : d = Empfaenger[c]
      BY <1>24 DEF DeleteEmpfaenger, Shape, Relays, TypeOK
    <2>2. /\ Cardinality(Borrowers(d)) \in Nat /\ Cardinality(Borrowers(d)) > 0
          /\ Cardinality(Borrowers(d))' = Cardinality(Borrowers(d)) - 1
          /\ \A e \in Conn \ {d} : Borrowers(e)' = Borrowers(e)
      BY <1>24, <2>1, GiveBack DEF DeleteEmpfaenger
    <2>3. Copies(d)' = Copies(d) - 1
      <3>1. /\ pc'[d] \in HasClient <=> pc[d] \in HasClient
            /\ pc'[d] = "drop" <=> pc[d] = "drop"
            /\ UNCHANGED <<ID, Userliste>>
        BY <1>24
        DEF DeleteEmpfaenger, Goto, TypeOK, HasClient, Listed, listVars
      <3>2. leaked[d] \in Nat /\ leaked'[d] = leaked[d] 
        BY <1>24, <2>1 DEF DeleteEmpfaenger, TypeOK
      <3> QED  BY <2>2, <3>1, <3>2 DEF Copies, Count
    <2>4. \A e \in Conn \ {d} : Copies(e)' = Copies(e)
      BY <1>24, <2>1, <2>2
      DEF DeleteEmpfaenger, Copies, Count, listVars, netVars, Goto, TypeOK,
          HasClient, Listed, Labels
    <2>5. Copies(d) > 0
      BY <2>1, <2>2 DEF Copies, Count, TypeOK
    <2> QED  BY <1>24, <2>1, <2>3, <2>4, <2>5
    DEF DeleteEmpfaenger, Destroy, Counts, RefCountExact, listVars, netVars,
        Goto, TypeOK, HasClient, Listed, Labels
  <1>25. ASSUME NEW c \in Conn, QuestionSent(c) PROVE Counts'
    <2>1. PICK d \in Conn : d = Empfaenger[c]
      BY <1>25 DEF QuestionSent, Unlock, Shape, Relays, TypeOK
    <2>2. /\ Cardinality(Borrowers(d)) \in Nat /\ Cardinality(Borrowers(d)) > 0
          /\ Cardinality(Borrowers(d))' = Cardinality(Borrowers(d)) - 1
          /\ \A e \in Conn \ {d} : Borrowers(e)' = Borrowers(e)
      BY <1>25, <2>1, GiveBack DEF QuestionSent
    <2>3. Copies(d)' = Copies(d) 
      <3>1. /\ pc'[d] \in HasClient <=> pc[d] \in HasClient
            /\ pc'[d] = "drop" <=> pc[d] = "drop"
            /\ UNCHANGED <<ID, Userliste>>
        BY <1>25
        DEF QuestionSent, Unlock, Goto, TypeOK, HasClient, Listed, listVars
      <3>2. leaked[d] \in Nat /\ leaked'[d] = leaked[d] + 1
        BY <1>25, <2>1 DEF QuestionSent, TypeOK
      <3> QED  BY <2>2, <3>1, <3>2 DEF Copies, Count
    <2>4. \A e \in Conn \ {d} : Copies(e)' = Copies(e)
      BY <1>25, <2>1, <2>2
      DEF QuestionSent, Unlock, Copies, Count, listVars, netVars, Goto, Begin,
          Forget, TypeOK, HasClient, Listed, Labels
    <2>5. Copies(d) > 0
      BY <2>1, <2>2 DEF Copies, Count, TypeOK
    <2> QED  BY <1>25, <2>1, <2>3, <2>4, <2>5
    DEF QuestionSent, Unlock, Counts, RefCountExact, listVars, netVars, Goto,
        Begin, Forget, TypeOK, HasClient, Listed, Labels
  <1>26. ASSUME NEW c \in Conn, EnterListToLeave(c) PROVE Counts'
    BY <1>26, CountsKept
    DEF EnterListToLeave, Goto, HasClient, Listed, Early, contVars, netVars,
        TypeOK
  <1>27. ASSUME NEW c \in Conn, Erase(c) PROVE Counts'
    <2>1. \A d \in Conn : Borrowers(d)' = Borrowers(d)
      BY <1>27 DEF Erase, Borrowers
    <2>2. Copies(c)' = Copies(c) - 1 /\ Copies(c) > 0
      BY <1>27, <2>1, BorrowersFinite, SessionAssumption
      DEF Erase, Directory, ListedSessions, Copies, Count, netVars, Goto,
          TypeOK, HasClient, Listed, Labels
    <2>3. \A d \in Conn \ {c} : Copies(d)' = Copies(d)
      BY <1>27, <2>1, SessionAssumption
      DEF Erase, Directory, ListedSessions, Copies, Count, netVars, Goto,
          TypeOK, HasClient, Listed, Labels
    <2> QED  BY <1>27, <2>2, <2>3
    DEF Erase, Destroy, Counts, RefCountExact, netVars, Goto, TypeOK,
        HasClient, Listed, Labels
  <1>28. ASSUME NEW c \in Conn, DeleteClient(c) PROVE Counts'
    <2>1. \A d \in Conn : Borrowers(d)' = Borrowers(d)
      BY <1>28 DEF DeleteClient, Borrowers
    <2>2. Copies(c)' = Copies(c) - 1 /\ Copies(c) > 0
      <3>1. pc[c] = "delete" /\ pc'[c] = "done"
        BY <1>28 DEF DeleteClient, Goto, TypeOK
      <3>2. ~(ID[c] # NoUser /\ Userliste[ID[c]] = c)
        BY <3>1, SessionAssumption
        DEF Directory, ListedSessions, Listed, TypeOK
      <3>3. Copies(c) = 1 + 0 + 0 + Cardinality(Borrowers(c)) + leaked[c]
        BY <3>1, <3>2 DEF Copies, Count, HasClient
      <3>4. Copies(c)' = 0 + 0 + 0 + Cardinality(Borrowers(c)) + leaked[c]
        BY <1>28, <2>1, <3>1, <3>2
        DEF DeleteClient, Copies, Count, HasClient, Listed, listVars
      <3>5. leaked[c] \in Nat
        BY DEF TypeOK
      <3> QED  BY <3>3, <3>4, <3>5, BorrowersFinite
    <2>3. \A d \in Conn \ {c} : Copies(d)' = Copies(d)
      BY <1>28, <2>1, SessionAssumption
      DEF DeleteClient, Directory, ListedSessions, Copies, Count, listVars,
          netVars, Goto, TypeOK, HasClient, Listed, Labels
    <2> QED  BY <1>28, <2>2, <2>3
    DEF DeleteClient, Destroy, Counts, RefCountExact, listVars, netVars, Goto,
        TypeOK, HasClient, Listed, Labels
  <1>29. ASSUME NEW c \in Conn, PeerStalls(c) PROVE Counts'
    BY <1>29, CountsKept
    DEF PeerStalls, SetPeer, HasClient, Listed, Early, contVars, listVars,
        netVars, threadVars, TypeOK
  <1>30. ASSUME NEW c \in Conn, PeerReads(c) PROVE Counts'
    BY <1>30, CountsKept
    DEF PeerReads, SetPeer, HasClient, Listed, Early, contVars, listVars,
        netVars, threadVars, TypeOK
  <1>31. ASSUME NEW c \in Conn, PeerGone(c) PROVE Counts'
    BY <1>31, CountsKept
    DEF PeerGone, SetPeer, HasClient, Listed, Early, contVars, listVars,
        netVars, threadVars, TypeOK
  <1>32. CASE UNCHANGED vars
    BY CountsKept, <1>32
    DEF vars, threadVars, contVars, listVars, netVars, Early
  <1> QED
    BY <1>1, <1>2, <1>3, <1>4, <1>5, <1>6, <1>7, <1>8, <1>9, <1>10, <1>11,
       <1>12, <1>13, <1>14, <1>15, <1>16, <1>17, <1>18, <1>19, <1>20,
       <1>21, <1>22, <1>23, <1>24, <1>25, <1>26, <1>27, <1>28, <1>29, <1>30,
       <1>31, <1>32
    DEF Next, SignOn, Send, SendContacts, GetFromList, RecvCommand, Relay,
        SignOff, Peer, Finished

\* All of it together is inductive.
THEOREM Invariance == Spec => []IInv
<1>1. Init => IInv
  BY TypeInit, ShapeInit, LocksInit, DirInit, CountsInit, HandlesInit,
     StreamsInit
  DEF IInv
<1>2. IInv /\ [Next]_vars => IInv'
  BY TypeStep, ShapeStep, LocksStep, DirStep, CountsStep, HandlesStep,
     StreamsStep
  DEF IInv
<1> QED  BY <1>1, <1>2, PTL DEF Spec

-----------------------------------------------------------------------------

\* Every variable keeps its type, whatever the threads do.
THEOREM TypeCorrect == Spec => []TypeOK
<1>1. IInv => TypeOK
  BY DEF IInv
<1> QED  BY <1>1, Invariance, PTL

\* The count of a Cont is the number of User objects that refer to it, and it
\* is freed with the last of them, for any number of sessions and copies.
THEOREM RefCounting == Spec => []RefCountExact
<1>1. IInv => RefCountExact
  BY DEF IInv, Counts
<1> QED  BY <1>1, Invariance, PTL

\* No thread ever reaches a freed Cont: whoever refers to it is counted.
THEOREM NeverFreedInUse == Spec => []NoUseAfterFree
<1>1. IInv => NoUseAfterFree
  <2> SUFFICES ASSUME IInv PROVE NoUseAfterFree
    OBVIOUS
  <2> USE DEF IInv
  <2>1. \A c \in Conn : Copies(c) > 0 => mpCont[c] = "live"
    BY DEF Counts, RefCountExact
  <2>2. \A c \in Conn : leaked[c] \in Nat
    BY DEF TypeOK
  <2>3. \A t \in Conn : pc[t] \in HasClient => mpCont[t] = "live"
    BY <2>1, <2>2, BorrowersFinite DEF Copies, Count
  <2>4. \A t \in Conn : Empfaenger[t] # NoConn => mpCont[Empfaenger[t]] = "live"
    <3> SUFFICES ASSUME NEW t \in Conn, NEW c \in Conn, Empfaenger[t] = c
                 PROVE  mpCont[c] = "live"
      BY DEF TypeOK
    <3>1. t \in Borrowers(c)
      BY DEF Borrowers
    <3>2. Cardinality(Borrowers(c)) \in Nat /\ Cardinality(Borrowers(c)) # 0
      BY <3>1, BorrowersFinite, FS_EmptySet
    <3>3. Copies(c) > 0
      BY <2>2, <3>2 DEF Copies, Count
    <3> QED  BY <2>1, <3>3
  <2>5. \A u \in User : Userliste[u] # NoConn => mpCont[Userliste[u]] = "live"
    BY <2>3 DEF TypeOK, Directory, ListedSessions, HasClient
  <2> QED  BY <2>3, <2>4, <2>5 DEF NoUseAfterFree
<1> QED  BY <1>1, Invariance, PTL

\* The directory lists a session exactly while its thread serves it: a user
\* has at most one session, and signing off removes no other's entry.
THEOREM OneSessionPerUser == Spec => []ListedSessions
<1>1. IInv => ListedSessions
  BY DEF IInv, Directory
<1> QED  BY <1>1, Invariance, PTL

\* A relay is written to a session of the user it is addressed to, although
\* the directory may have changed since the session was looked up.
THEOREM RelayToAddressee == Spec => []RelayReachesUser
<1>1. IInv => RelayReachesUser
  BY DEF IInv, Shape, Handles, RelayReachesUser, HasClient, Listed, Relays
<1> QED  BY <1>1, Invariance, PTL

\* What is unfinished on a connection is the frame of the one thread that is
\* entitled to write there, as far as that thread has got.
THEOREM StreamsInStep == Spec => []StreamInStep
<1>1. IInv => StreamInStep
  <2> SUFFICES ASSUME IInv, NEW d \in Conn, peer[d] # "gone", mid[d] # Whole
               PROVE  \E t \in Conn :
                         /\ \/ pc[t] = "send" /\ ContLock[d] = t
                            \/ pc[t] = "reply" /\ t = d
                         /\ Dest(t) = d
                         /\ mid[d] = [by |-> t, part |-> part[t]]
                         /\ part[t] < Parts[frame[t]]
    BY DEF StreamInStep
  <2> DEFINE t == mid[d].by
  <2>1. /\ t \in Conn /\ WritesTo(t, d)
        /\ mid[d].part = part[t]
        /\ part[t] < Parts[frame[t]]
    BY DEF IInv, Streams
  <2>2. mid[d] = [by |-> t, part |-> part[t]]
    BY <2>1 DEF IInv, TypeOK
  <2>3. pc[t] = "send" => ContLock[d] = t
    BY <2>1 DEF IInv, Locks, WritesTo
  <2>4. pc[t] = "reply" => t = d
    BY <2>1 DEF IInv, Shape, WritesTo, Dest, Relays
  <2> QED  BY <2>1, <2>2, <2>3, <2>4 DEF WritesTo
<1> QED  BY <1>1, Invariance, PTL

\* Two threads' elements never mix within a frame, on any connection.
THEOREM FramesInOrder == Spec => FrameOrder
<1>1. IInv /\ [Next]_vars => [\A d \in Conn : FrameStep(d)]_vars
  <2> SUFFICES ASSUME IInv, [Next]_vars PROVE \A d \in Conn : FrameStep(d)
    OBVIOUS
  <2>1. CASE mid' = mid
    BY <2>1 DEF FrameStep
  <2>2. ASSUME NEW c \in Conn, SendPart(c) PROVE \A d \in Conn : FrameStep(d)
    <3>1. /\ WritesTo(c, Dest(c)) /\ peer[Dest(c)] = "up"
          /\ part[c] \in Nat /\ part[c] < Parts[frame[c]] /\ Dest(c) \in Conn
      BY <2>2, DestInConn DEF IInv, TypeOK, SendPart, Writing, WritesTo
    <3>2. part[c] > 0 => mid[Dest(c)] = [by |-> c, part |-> part[c]]
      BY <3>1 DEF IInv, Streams
    <3>3. part[c] = 0 => mid[Dest(c)] = Whole
      BY <3>1, OneWriter DEF IInv, Streams
    <3>4. \/ mid'[Dest(c)] = Whole
          \/ mid'[Dest(c)] = [by |-> c, part |-> part[c] + 1]
      BY <2>2, <3>1 DEF SendPart, IInv, TypeOK
    <3>5. \A d \in Conn : d # Dest(c) => mid'[d] = mid[d]
      BY <2>2 DEF SendPart, IInv, TypeOK
    <3> QED  BY <3>1, <3>2, <3>3, <3>4, <3>5 DEF FrameStep
  <2>3. mid' = mid \/ \E c \in Conn : SendPart(c)
    BY
    DEF Next, vars, netVars, SignOn, Send, SendContacts, GetFromList,
        RecvCommand, Relay, SignOff, Peer, Finished, Accept, AuthError,
        AuthAnswer, NewClient, NoClient, Refuse, AddUserToList, DropCopy,
        LockCont, SendFails, OwnInformationSent, NextContact,
        ReadContact, ContactSent, ContactsDone, EnterList, Found, NotFound,
        RecvRelay, RecvOther, RecvEnd, MessageSent, DeleteEmpfaenger,
        QuestionSent, EnterListToLeave, Erase, DeleteClient, PeerStalls,
        PeerReads, PeerGone, SetPeer
  <2> QED  BY <2>1, <2>2, <2>3
<1> QED  BY <1>1, Invariance, PTL DEF Spec, FrameOrder

=============================================================================
