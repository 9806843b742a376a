--------------------------- MODULE AccountsProofs ---------------------------
(***************************************************************************)
(* Accounts keeps its invariants, for any number of connections, any names *)
(* and passwords, any IDs.  The two kinds of steps that matter are those   *)
(* that make a row (Appended says what the table is then) and those that   *)
(* let a client in.                                                        *)
(***************************************************************************)
EXTENDS Accounts, TLAPS

Table == Seq([Name : {Stored[n] : n \in Name},
              Passwort : {Stored[p] : p \in Passwort}, by : Conn])

\* A table with one row more.
LEMMA Appended ==
  ASSUME TypeOK, NEW c \in Conn, NEW r \in Requests, user' = Append(user, Row(c, r))
  PROVE  /\ user' \in Table
         /\ Len(user) \in Nat /\ DOMAIN user = 1 .. Len(user)
         /\ DOMAIN user' = 1 .. Len(user) + 1
         /\ DOMAIN user \subseteq DOMAIN user'
         /\ \A i \in DOMAIN user : user'[i] = user[i]
         /\ user'[Len(user) + 1] = Row(c, r)
  <1>1. Row(c, r) \in [Name : {Stored[n] : n \in Name},
                       Passwort : {Stored[p] : p \in Passwort}, by : Conn]
    BY DEF Row, Requests
  <1>2. user \in Table
    BY DEF TypeOK, Table
  <1> QED  BY <1>1, <1>2 DEF Table

LEMMA RowBy ==
  ASSUME user \in Table, NEW i \in DOMAIN user
  PROVE  user[i].by \in Conn
  <1> DEFINE Rs == [Name : {Stored[n] : n \in Name},
                   Passwort : {Stored[p] : p \in Passwort}, by : Conn]
  <1>1. user \in Seq(Rs)
    BY DEF Table
  <1>2. user[i] \in Rs
    <2> HIDE DEF Rs
    <2> QED  BY <1>1
  <1> QED  BY <1>2

LEMMA TypeInit == Init => TypeOK
  BY AccountsAssumption DEF Init, TypeOK

LEMMA TypeStep == IInv /\ [Next]_vars => TypeOK'
  <1> SUFFICES ASSUME IInv, [Next]_vars PROVE TypeOK'
    OBVIOUS
  <1> USE DEF IInv, TypeOK, Goto, Sent, Reply, Fails, SetID, authVars, actVars
  <1>1. CASE UNCHANGED vars
    BY <1>1 DEF vars
  <1>2. ASSUME NEW c \in Conn, NEW r \in Requests,
               InsertUser(c, r) \/ InsertUnanswered(c, r)
        PROVE  TypeOK'
    <2>1. user' = Append(user, Row(c, r))
      BY <1>2 DEF InsertUser, InsertUnanswered
    <2>2. user' \in Table /\ DOMAIN user \subseteq DOMAIN user'
      BY <2>1, Appended
    <2>3. CASE InsertUser(c, r)
      BY <2>2, <2>3 DEF InsertUser, Table
    <2>4. CASE InsertUnanswered(c, r)
      BY <2>2, <2>4 DEF InsertUnanswered, Table
    <2> QED  BY <1>2, <2>3, <2>4
  <1>3. ASSUME NEW c \in Conn, NEW r \in Requests,
               FindName(c, r) \/ NoSuchName(c, r) \/ NameTaken(c, r)
        PROVE  TypeOK'
    <2>1. CASE FindName(c, r)
      BY <2>1 DEF FindName, Rows
    <2>2. CASE NoSuchName(c, r) \/ NameTaken(c, r)
      <3>1. failed' \subseteq Conn
        BY <2>2 DEF NoSuchName, NameTaken
      <3>2. \E flag \in {"U", "S"} : Refuse(c, r, flag)
        BY <2>2 DEF NoSuchName, NameTaken
      <3> QED  BY <3>1, <3>2 DEF Refuse
    <2> QED  BY <1>3, <2>1, <2>2
  <1>4. ASSUME NEW c \in Conn, \/ AuthError(c) \/ Login(c) \/ WrongPasswort(c)
                               \/ NewID(c) \/ NoNewID(c) \/ AddUserToList(c)
                               \/ ActReturns(c)
        PROVE  TypeOK'
    <2>1. CASE AuthError(c) \/ AddUserToList(c) \/ ActReturns(c)
      BY <2>1 DEF AuthError, AddUserToList, ActReturns
    <2>2. CASE Login(c) \/ WrongPasswort(c) \/ NoNewID(c)
      BY <2>2 DEF Login, WrongPasswort, NoNewID
    <2>3. CASE NewID(c)
      BY <2>3 DEF NewID, Rows
    <2> QED  BY <1>4, <2>1, <2>2, <2>3
  <1>5. ASSUME NEW c \in Conn, NEW i \in Ids, Message(c, i) PROVE TypeOK'
    <2>1. argID' \in [Conn -> Ids] /\ cmds' \in 0 .. MaxCmds
      BY <1>5, AccountsAssumption DEF Message, Command
    <2>2. UNCHANGED <<user, kontaktlisten, pc, request, ID, answer, failed>>
      BY <1>5 DEF Message, Command
    <2> QED  BY <2>1, <2>2
  <1>6. ASSUME NEW c \in Conn, NEW i \in Ids, AddUserOK(c, i) PROVE TypeOK'
    <2>1. ID[c] \in DOMAIN user
      BY <1>6 DEF AddUserOK, Command, Places, Identity
    <2>2. argID' \in [Conn -> Ids]
      BY <1>6, AccountsAssumption DEF AddUserOK
    <2>3. kontaktlisten' \subseteq [USER : {AsInt(j) : j \in Ids},
                                    EINTRAG : {AsInt(j) : j \in DOMAIN user}]
      <3>1. argID'[c] \in Ids
        BY <2>2
      <3> QED  BY <1>6, <2>1, <3>1 DEF AddUserOK, AddToContactList, Command
    <2> QED  BY <1>6, <2>2, <2>3, AccountsAssumption DEF AddUserOK, Command
  <1> QED  BY <1>1, <1>2, <1>3, <1>4, <1>5, <1>6 DEF Next

-----------------------------------------------------------------------------
\* What a thread does: one disjunct of Next.
Makes(c, r) == InsertUser(c, r) \/ InsertUnanswered(c, r)

Begins(c, r) == FindName(c, r) \/ NoSuchName(c, r) \/ NameTaken(c, r) \/ Makes(c, r)

Commands(c) ==
    \E i \in Ids : Message(c, i) \/ AddUserOK(c, i)

Acts(c) ==
    \/ AuthError(c)
    \/ \E r \in Requests : Begins(c, r)
    \/ Login(c) \/ WrongPasswort(c) \/ NewID(c) \/ NoNewID(c)
    \/ AddUserToList(c) \/ Commands(c) \/ ActReturns(c)

LEMMA NextActs == Next => \E c \in Conn : Acts(c)
  BY DEF Next, Acts, Begins, Makes, Commands

\* It changes its own place, request, ID and answer and no other thread's.
LEMMA Others ==
  ASSUME IInv, NEW c \in Conn, Acts(c), NEW d \in Conn, d # c
  PROVE  /\ pc'[d] = pc[d] /\ request'[d] = request[d]
         /\ answer'[d] = answer[d] /\ ID'[d] = ID[d]
         /\ d \in failed' <=> d \in failed
  <1> USE DEF IInv, TypeOK, Goto, Sent, Reply, Fails, SetID, authVars
  <1>1. ASSUME NEW r \in Requests, Begins(c, r)
        PROVE  /\ pc'[d] = pc[d] /\ request'[d] = request[d]
               /\ answer'[d] = answer[d] /\ ID'[d] = ID[d]
               /\ d \in failed' <=> d \in failed
    BY <1>1 DEF Begins, Makes, FindName, NoSuchName, InsertUser, NameTaken,
                InsertUnanswered, Refuse
  <1>2. CASE \/ AuthError(c) \/ Login(c) \/ WrongPasswort(c) \/ NewID(c) \/ NoNewID(c)
             \/ AddUserToList(c) \/ Commands(c) \/ ActReturns(c)
    BY <1>2 DEF AuthError, Login, WrongPasswort, NewID, NoNewID, AddUserToList,
                ActReturns, Commands, Message, AddUserOK, Command
  <1> QED  BY <1>1, <1>2 DEF Acts

\* Behind its first query its request stays, and it makes no row.
LEMMA Own ==
  ASSUME IInv, NEW c \in Conn, Acts(c)
  PROVE  /\ pc'[c] # "auth" /\ pc[c] # "over"
         /\ pc[c] # "auth" => /\ request'[c] = request[c] /\ user' = user
                              /\ pc'[c] \notin {"passwort", "newid"}
         /\ answer[c] = "O" => /\ pc[c] # "auth"
                               /\ answer'[c] = "O" /\ ID'[c] = ID[c]
         /\ \/ user' = user
            \/ \E r \in Requests : Makes(c, r)
         /\ pc'[c] = "newid" => \E r \in Requests : InsertUser(c, r)
  <1> USE DEF IInv, TypeOK, Goto, Sent, Reply, Fails, SetID, authVars, Places
  <1>1. ASSUME NEW r \in Requests, Begins(c, r)
        PROVE  /\ pc[c] = "auth" /\ pc'[c] # "auth"
               /\ user' = user \/ Makes(c, r)
               /\ pc'[c] = "newid" => InsertUser(c, r)
    BY <1>1 DEF Begins, Makes, FindName, NoSuchName, InsertUser, NameTaken,
                InsertUnanswered, Refuse
  <1>2. ASSUME \/ AuthError(c) \/ Login(c) \/ WrongPasswort(c) \/ NewID(c) \/ NoNewID(c)
               \/ AddUserToList(c) \/ Commands(c) \/ ActReturns(c)
        PROVE  /\ pc'[c] \notin {"auth", "passwort", "newid"} /\ pc[c] # "over"
               /\ request'[c] = request[c] /\ user' = user
               /\ answer[c] = "O" => answer'[c] = "O" /\ ID'[c] = ID[c]
    BY <1>2 DEF AuthError, Login, WrongPasswort, NewID, NoNewID, AddUserToList,
                ActReturns, Commands, Message, AddUserOK, Command
  <1>3. pc[c] = "auth" => answer[c] = "none"
    OBVIOUS
  <1> QED  BY <1>1, <1>2, <1>3 DEF Acts

\* The rows there are stay, and a new one is the thread's own and the first of
\* its name.
LEMMA Rowed ==
  ASSUME IInv, NEW c \in Conn, Acts(c)
  PROVE  /\ DOMAIN user \subseteq DOMAIN user'
         /\ \A i \in DOMAIN user : user'[i] = user[i]
         /\ \A i \in DOMAIN user' \ DOMAIN user :
               /\ pc[c] = "auth" /\ pc'[c] \in {"newid", "over"}
               /\ request'[c] \in Requests /\ user'[i] = Row(c, request'[c])
               /\ \A j \in DOMAIN user : user[j].Name # user'[i].Name /\ user[j].by # c
               /\ \A j \in DOMAIN user' \ DOMAIN user : j = i
  <1>1. CASE user' = user
    BY <1>1
  <1>2. ASSUME NEW r \in Requests, Makes(c, r)
        PROVE  /\ DOMAIN user \subseteq DOMAIN user'
               /\ \A i \in DOMAIN user : user'[i] = user[i]
               /\ \A i \in DOMAIN user' \ DOMAIN user :
                     /\ pc[c] = "auth" /\ pc'[c] \in {"newid", "over"}
                     /\ request'[c] \in Requests /\ user'[i] = Row(c, request'[c])
                     /\ \A j \in DOMAIN user : user[j].Name # user'[i].Name /\ user[j].by # c
                     /\ \A j \in DOMAIN user' \ DOMAIN user : j = i
    <2>1. /\ pc[c] = "auth" /\ pc'[c] \in {"newid", "over"}
          /\ request'[c] = r /\ user' = Append(user, Row(c, r)) /\ Rows(r.Name) = {}
      BY <1>2 DEF Makes, InsertUser, InsertUnanswered, Goto, Sent, IInv, TypeOK
    <2>2. /\ Len(user) \in Nat /\ DOMAIN user = 1 .. Len(user)
          /\ DOMAIN user' = 1 .. Len(user) + 1
          /\ \A i \in DOMAIN user : user'[i] = user[i]
          /\ user'[Len(user) + 1] = Row(c, r)
      BY <2>1, Appended DEF IInv
    <2>3. \A j \in DOMAIN user : user[j].Name # Row(c, r).Name /\ user[j].by # c
      BY <2>1 DEF Rows, Row, IInv, Makers
    <2>4. \A i \in DOMAIN user' \ DOMAIN user : i = Len(user) + 1
      BY <2>2
    <2> QED  BY <2>1, <2>2, <2>3, <2>4
  <1> QED  BY <1>1, <1>2, Own

-----------------------------------------------------------------------------
LEMMA MakersStep ==
  ASSUME IInv, NEW c \in Conn, Acts(c)
  PROVE  Makers'
  <1> USE DEF IInv, Makers
  <1>1. ASSUME NEW i \in DOMAIN user', NEW j \in DOMAIN user',
               user'[i].Name = user'[j].Name \/ user'[i].by = user'[j].by
        PROVE  i = j
    <2>1. CASE i \in DOMAIN user /\ j \in DOMAIN user
      BY <1>1, <2>1, Rowed
    <2>2. CASE i \notin DOMAIN user \/ j \notin DOMAIN user
      BY <1>1, <2>2, Rowed DEF Row
    <2> QED  BY <2>1, <2>2
  <1>2. ASSUME NEW i \in DOMAIN user'
        PROVE  /\ pc'[user'[i].by] \notin {"auth", "passwort"}
               /\ request'[user'[i].by] \in Requests
               /\ user'[i] = Row(user'[i].by, request'[user'[i].by])
    <2>1. CASE i \in DOMAIN user
      <3>1. /\ user'[i] = user[i] /\ user[i].by \in Conn
            /\ pc[user[i].by] \notin {"auth", "passwort"}
            /\ request[user[i].by] \in Requests
            /\ user[i] = Row(user[i].by, request[user[i].by])
        <4>1. user[i].by \in Conn
          <5>1. user \in Table
            BY DEF IInv, TypeOK, Table
          <5> HIDE DEF IInv, Makers
          <5> QED  BY <2>1, <5>1, RowBy
        <4>2. user'[i] = user[i]
          BY <2>1, Rowed
        <4> QED  BY <2>1, <4>1, <4>2
      <3>2. CASE user[i].by = c
        BY <3>1, <3>2, Own
      <3>3. CASE user[i].by # c
        BY <3>1, <3>3, Others
      <3> QED  BY <3>2, <3>3
    <2>2. CASE i \notin DOMAIN user
      <3>1. /\ user'[i] = Row(c, request'[c]) /\ request'[c] \in Requests
            /\ pc'[c] \in {"newid", "over"}
        BY <2>2, Rowed
      <3>2. user'[i].by = c
        BY <3>1 DEF Row
      <3> HIDE DEF IInv, Makers
      <3> QED  BY <3>1, <3>2
    <2> QED  BY <2>1, <2>2
  <1>3. ASSUME NEW d \in Conn, pc'[d] = "newid"
        PROVE  \E i \in DOMAIN user' : user'[i].by = d
    <2>1. CASE d # c
      BY <1>3, <2>1, Others, Rowed
    <2>2. CASE d = c
      <3>1. PICK r \in Requests : InsertUser(c, r)
        BY <1>3, <2>2, Own
      <3>2. user' = Append(user, Row(c, r))
        BY <3>1 DEF InsertUser
      <3> QED  BY <2>2, <3>2, Appended DEF Row
    <2> QED  BY <2>1, <2>2
  <1> QED  BY <1>1, <1>2, <1>3

LEMMA PlacesStep ==
  ASSUME IInv, NEW c \in Conn, Acts(c)
  PROVE  Places'
  <1> USE DEF Goto, Sent, Reply, SetID, authVars, Places
  <1> DEFINE P(d) == /\ pc'[d] = "auth" => request'[d] = NoRequest
                     /\ pc'[d] \in {"auth", "passwort", "newid"} => answer'[d] = "none"
                     /\ pc'[d] \in {"insert", "act"} => answer'[d] = "O"
                     /\ answer'[d] # "none" \/ pc'[d] = "passwort" => request'[d] \in Requests
                     /\ pc'[d] = "passwort" => ID'[d] \in Rows(request[d].Name)'
  <1> /\ Places /\ c \in Conn
      /\ pc \in [Conn -> {"auth", "passwort", "newid", "insert", "act", "over"}]
      /\ request \in [Conn -> Requests \cup {NoRequest}]
      /\ answer \in [Conn -> {"none", "O", "U", "P", "S"}]
      /\ ID \in [Conn -> {0} \cup DOMAIN user]
    BY DEF IInv, TypeOK
  <1>1. ASSUME NEW d \in Conn, d # c PROVE P(d)
    BY <1>1, Others, Rowed DEF Rows
  <1>2. ASSUME NEW r \in Requests, Begins(c, r) PROVE P(c)
    <2>1. CASE Makes(c, r)
      BY <2>1 DEF Makes, InsertUser, InsertUnanswered
    <2>2. CASE NoSuchName(c, r) \/ NameTaken(c, r)
      BY <2>2 DEF NoSuchName, NameTaken, Refuse
    <2>3. CASE FindName(c, r)
      BY <2>3 DEF FindName, Rows
    <2> QED  BY <1>2, <2>1, <2>2, <2>3 DEF Begins
  <1>3. ASSUME \/ AuthError(c) \/ Login(c) \/ WrongPasswort(c) \/ NewID(c) \/ NoNewID(c)
               \/ AddUserToList(c) \/ ActReturns(c)
        PROVE  P(c)
    <2>1. CASE AuthError(c) \/ AddUserToList(c) \/ ActReturns(c)
      BY <2>1 DEF AuthError, AddUserToList, ActReturns
    <2>2. CASE Login(c) \/ WrongPasswort(c)
      BY <2>2 DEF Login, WrongPasswort
    <2>3. CASE NewID(c) \/ NoNewID(c)
      <3>1. request[c] \in Requests
        BY <2>3 DEF NewID, NoNewID, IInv, Makers
      <3> QED  BY <2>3, <3>1 DEF NewID, NoNewID
    <2> QED  BY <1>3, <2>1, <2>2, <2>3
  <1>4. ASSUME Commands(c) PROVE P(c)
    BY <1>4 DEF Commands, Message, AddUserOK, Command
  <1>5. P(c)
    BY <1>2, <1>3, <1>4 DEF Acts
  <1> QED  BY <1>1, <1>5

LEMMA IdentityStep ==
  ASSUME IInv, NEW c \in Conn, Acts(c)
  PROVE  Identity'
  <1> SUFFICES ASSUME NEW d \in Conn, answer'[d] = "O"
               PROVE  /\ ID'[d] \in DOMAIN user'
                      /\ user'[ID'[d]].Name = Stored[request'[d].Name]
                      /\ user'[ID'[d]].Passwort = Stored[request'[d].Passwort]
                      /\ \A i \in DOMAIN user' : user'[i].by = d => i = ID'[d]
    BY DEF Identity
  <1> USE DEF IInv
  <1>1. CASE answer[d] = "O"
    <2>1. ID'[d] = ID[d] /\ request'[d] = request[d] /\ (d = c => user' = user)
      BY <1>1, Own, Others
    <2>2. \A i \in DOMAIN user' \ DOMAIN user : user'[i].by # d
      BY <1>1, Rowed, Own DEF Row
    <2> QED  BY <1>1, <2>1, <2>2, Rowed DEF Identity
  <1>2. CASE answer[d] # "O"
    <2>1. d = c
      BY <1>2, Others
    <2>2. CASE Login(c)
      <3>1. /\ pc[c] = "passwort" /\ user' = user /\ ID' = ID /\ request' = request
            /\ user[ID[c]].Passwort = Stored[request[c].Passwort]
        BY <2>2 DEF Login, Goto, PasswortRight
      <3>2. ID[c] \in DOMAIN user /\ user[ID[c]].Name = Stored[request[c].Name]
        BY <3>1 DEF Places, Rows
      <3>3. \A i \in DOMAIN user : user[i].by # c
        BY <3>1 DEF Makers
      <3> QED  BY <2>1, <3>1, <3>2, <3>3
    <2>3. CASE NewID(c)
      <3>1. PICK i \in Rows(request[c].Name) : ID'[c] = i
        BY <2>3 DEF NewID, SetID, TypeOK
      <3>2. pc[c] = "newid" /\ user' = user /\ request' = request
        BY <2>3 DEF NewID, Goto
      <3>3. PICK j \in DOMAIN user : user[j].by = c
        BY <3>2 DEF Makers
      <3>4. user[j] = Row(c, request[c])
        BY <3>3 DEF Makers
      <3>5. i = j
        BY <3>1, <3>3, <3>4 DEF Rows, Row, Makers
      <3> QED  BY <2>1, <3>1, <3>2, <3>3, <3>4, <3>5 DEF Row, Makers
    <2>4. Login(c) \/ NewID(c)
      BY <1>2, <2>1
      DEF Acts, Begins, Makes, FindName, NoSuchName, InsertUser, NameTaken,
          InsertUnanswered, Refuse, Reply, AuthError, WrongPasswort, NoNewID,
          AddUserToList, ActReturns, Commands, Message, AddUserOK, Command, authVars, TypeOK
    <2> QED  BY <2>2, <2>3, <2>4
  <1> QED  BY <1>1, <1>2

\* A refusal: either a query of the client's had no answer, or the tables say
\* so; and they go on saying so.
LEMMA RefusedRightlyStep ==
  ASSUME IInv, NEW c \in Conn, Acts(c)
  PROVE  RefusedRightly'
  <1> DEFINE R(d) ==
        /\ answer'[d] = "S" =>
               \E i \in DOMAIN user' : user'[i].Name = Stored[request'[d].Name] /\ user'[i].by # d
        /\ answer'[d] = "P" =>
               \E i \in DOMAIN user' : /\ user'[i].Name = Stored[request'[d].Name]
                                      /\ user'[i].Passwort # Stored[request'[d].Passwort]
  <1>0. \A d \in Conn \ failed :
          /\ answer[d] = "S" =>
                 \E i \in DOMAIN user : user[i].Name = Stored[request[d].Name] /\ user[i].by # d
          /\ answer[d] = "P" =>
                 \E i \in DOMAIN user : /\ user[i].Name = Stored[request[d].Name]
                                       /\ user[i].Passwort # Stored[request[d].Passwort]
    BY DEF IInv, RefusedRightly, Rows
  <1>1. ASSUME NEW d \in Conn, d \notin failed', d # c PROVE R(d)
    <2>1. answer'[d] = answer[d] /\ request'[d] = request[d] /\ d \notin failed
      BY <1>1, Others
    <2> QED  BY <1>0, <2>1, Rowed
  <1>2. ASSUME c \notin failed' PROVE R(c)
    <2>1. ASSUME NEW r \in Requests, NameTaken(c, r) PROVE R(c)
      <3>1. /\ Rows(r.Name) # {} /\ user' = user /\ pc[c] = "auth"
            /\ request'[c] = r /\ answer'[c] = "S"
        BY <1>2, <2>1 DEF NameTaken, Fails, Refuse, Sent, Reply, Goto, IInv, TypeOK
      <3>2. \A i \in DOMAIN user : user[i].by # c
        BY <3>1 DEF IInv, Makers
      <3> QED  BY <3>1, <3>2 DEF Rows
    <2>2. CASE WrongPasswort(c)
      <3>1. /\ pc[c] = "passwort" /\ ~PasswortRight(c) /\ user' = user
            /\ request' = request /\ answer'[c] = "P"
        BY <1>2, <2>2 DEF WrongPasswort, Fails, Reply, Goto, IInv, TypeOK
      <3>2. ID[c] \in Rows(request[c].Name)
        BY <3>1 DEF IInv, Places
      <3> QED  BY <3>1, <3>2 DEF Rows, PasswortRight
    <2>3. CASE ~(WrongPasswort(c) \/ \E r \in Requests : NameTaken(c, r))
      <3>1. answer'[c] \notin {"S", "P"}
        <4>1. pc[c] # "over"
          BY Own
        <4>2. pc[c] # "over" => answer[c] \in {"none", "O"}
          BY DEF IInv, TypeOK, Places
        <4> QED  BY <1>2, <2>3, <4>1, <4>2
              DEF Acts, Begins, Makes, FindName, NoSuchName, InsertUser, Fails,
                  InsertUnanswered, Refuse, Reply, AuthError, Login, NewID, NoNewID,
                  AddUserToList, ActReturns, Commands, Message, AddUserOK, Command,
                  authVars, IInv, TypeOK
      <3> QED  BY <3>1
    <2> QED  BY <2>1, <2>2, <2>3
  <1>3. \A d \in Conn \ failed' : R(d)
    BY <1>1, <1>2
  <1> QED  BY <1>3 DEF RefusedRightly, Rows

\* An entry is made by a thread that was let in, of its own ID; and its user
\* stays who it is.
LEMMA ListedByOwnerStep ==
  ASSUME IInv, NEW c \in Conn, Acts(c)
  PROVE  ListedByOwner'
  <1> DEFINE G(e) == \E d \in Conn : /\ answer'[d] = "O" /\ e.EINTRAG = AsInt(ID'[d])
                                     /\ ID'[d] \in Rows(request[d].Name)'
                                     /\ PasswortRight(d)'
  <1>1. ASSUME NEW d \in Conn, answer'[d] = "O"
        PROVE  ID'[d] \in Rows(request[d].Name)' /\ PasswortRight(d)'
    BY <1>1, IdentityStep DEF Identity, Rows, PasswortRight
  <1>2. ASSUME NEW e \in kontaktlisten PROVE G(e)
    <2>1. PICK d \in Conn : answer[d] = "O" /\ e.EINTRAG = AsInt(ID[d])
      BY DEF IInv, ListedByOwner
    <2>2. answer'[d] = "O" /\ ID'[d] = ID[d]
      BY <2>1, Own, Others
    <2> QED  BY <1>1, <2>1, <2>2
  <1>3. ASSUME NEW e \in kontaktlisten', e \notin kontaktlisten PROVE G(e)
    <2>1. PICK i \in Ids : AddUserOK(c, i)
      BY <1>3 DEF Acts, Begins, Makes, FindName, NoSuchName, InsertUser, NameTaken,
                  InsertUnanswered, Refuse, AuthError, Login, WrongPasswort, NewID,
                  NoNewID, AddUserToList, ActReturns, Commands, Message
    <2>2. e.EINTRAG = AsInt(ID[c])
      BY <1>3, <2>1 DEF AddUserOK, AddToContactList
    <2>3. answer' = answer /\ ID' = ID /\ pc[c] = "act"
      BY <2>1 DEF AddUserOK, Command, authVars
    <2>4. answer[c] = "O"
      BY <2>3 DEF IInv, Places
    <2> QED  BY <1>1, <2>2, <2>3, <2>4
  <1>4. \A e \in kontaktlisten' : G(e)
    BY <1>2, <1>3
  <1> QED  BY <1>4 DEF ListedByOwner

-----------------------------------------------------------------------------
LEMMA InvInit == Init => IInv
  <1> SUFFICES ASSUME Init PROVE IInv
    OBVIOUS
  <1>1. TypeOK
    BY TypeInit
  <1>2. DOMAIN user = {} /\ kontaktlisten = {}
    BY DEF Init
  <1>3. Makers /\ Places
    BY <1>2 DEF Init, Makers, Places
  <1>4. Identity /\ RefusedRightly /\ ListedByOwner
    BY <1>2 DEF Init, Identity, RefusedRightly, ListedByOwner
  <1> QED  BY <1>1, <1>3, <1>4 DEF IInv

LEMMA InvStep == IInv /\ [Next]_vars => IInv'
  <1> SUFFICES ASSUME IInv, [Next]_vars PROVE IInv'
    OBVIOUS
  <1>1. CASE Next
    <2>1. PICK c \in Conn : Acts(c)
      BY <1>1, NextActs
    <2>2. TypeOK'
      BY TypeStep
    <2> QED  BY <2>1, <2>2, MakersStep, PlacesStep, IdentityStep,
                RefusedRightlyStep, ListedByOwnerStep DEF IInv
  <1>2. CASE UNCHANGED vars
    <2>1. /\ UNCHANGED <<user, kontaktlisten, pc, request, ID, answer, failed>>
          /\ UNCHANGED <<argID, cmds>>
      BY <1>2 DEF vars, authVars, actVars
    <2> QED  BY <2>1 DEF IInv, TypeOK, Makers, Places, Identity,
                         RefusedRightly, ListedByOwner, PasswortRight, Rows, Row
  <1> QED  BY <1>1, <1>2

\* What the tables and the sessions have of one another holds whatever the
\* threads do between each other's queries and whichever of these fail.
THEOREM Invariance == Spec => []IInv
  BY InvInit, InvStep, PTL DEF Spec

\* A client that is let in is the user whose name and password it sent, the one
\* that it registered if it did (Auth's queries in main.cpp:49-154).
THEOREM OneIdentity == Spec => []Identity
  <1>1. IInv => Identity
    BY DEF IInv
  <1> QED  BY <1>1, Invariance, PTL

\* A client whose queries had answers is refused for what the tables have
\* (AddUserToDB and IsUserInDB, main.cpp:49-84).
THEOREM RefusalsAreRight == Spec => []RefusedRightly
  <1>1. IInv => RefusedRightly
    BY DEF IInv
  <1> QED  BY <1>1, Invariance, PTL

\* A user gets on a contact list only by a session that was let in as that user,
\* with its name and its password (ADDUSEROK, user.cpp:145, 189-197).
THEOREM ListedByOneself == Spec => []ListedByOwner
  <1>1. IInv => ListedByOwner
    BY DEF IInv
  <1> QED  BY <1>1, Invariance, PTL
=============================================================================
