------------------------------ MODULE Accounts ------------------------------
(***************************************************************************)
(* What the sessions do with the tables of the database: user, where a     *)
(* registration makes a row and a login looks for one, and kontaktlisten,  *)
(* where ADDUSEROK makes one.  A step is one query, with the receives and  *)
(* the answer around it, which touch nothing of another session.           *)
(*                                                                         *)
(* Other sessions' queries come between those of one Auth, and each may    *)
(* fail: its Query has no connection, or loses it (module ConnPool).  The  *)
(* code sees 0 or FALSE then, as it does when there is no row.             *)
(***************************************************************************)
EXTENDS Integers, Sequences, FiniteSets

CONSTANTS Conn,     \* connections, each used once
          Name,     \* names as clients send them
          Passwort, \* passwords, likewise
          Stored,   \* what the tables have for what a client sends; names
                    \* that they take for equal are equal there
          NoRequest,\* nothing was sent yet
          Ids,      \* IDs that clients send
          Ntohl,    \* ntohl, on the numbers in Ids
          FirstByte,\* the first byte of an ID on the wire
          Half,     \* 2^31: an unsigned int has twice as many values
          MaxCmds   \* bound: commands all clients send after their logins

Requests == [Name : Name, Passwort : Passwort]

ASSUME AccountsAssumption ==
    /\ DOMAIN Stored = Name \cup Passwort
    /\ NoRequest \notin Requests
    /\ Half \in Nat
    /\ 0 \in Ids /\ Ids \subseteq 0 .. 2 * Half - 1
    /\ Ntohl \in [Ids -> Ids]
    /\ FirstByte \in [Ids -> Nat]
    /\ MaxCmds \in Nat

VARIABLES
    user,          \* the table user; a row's ID is its place
    kontaktlisten, \* the table kontaktlisten
    pc,            \* what a thread does next
    request,       \* the name and the password that its client sent
    ID,            \* Auth's ID, then that of the session's User; 0 is none
    answer,        \* what the client was told: "none", or a flag
    failed,        \* threads that had a query without an answer
    argID,         \* Act's ID
    cmds           \* commands that may still arrive

authVars == <<request, ID, answer, failed>>
actVars  == <<argID, cmds>>
vars     == <<user, kontaktlisten, pc, authVars, actVars>>

Init ==
    /\ user = <<>>
    /\ kontaktlisten = {}
    /\ pc = [c \in Conn |-> "auth"]
    /\ request = [c \in Conn |-> NoRequest]
    /\ ID = [c \in Conn |-> 0]
    /\ answer = [c \in Conn |-> "none"]
    /\ failed = {}
    /\ argID = [c \in Conn |-> 0]
    /\ cmds = MaxCmds

Goto(c, from, to) ==
    /\ pc[c] = from
    /\ pc' = [pc EXCEPT ![c] = to]

Sent(c, r) == request' = [request EXCEPT ![c] = r]
Reply(c, flag) == answer' = [answer EXCEPT ![c] = flag]
Fails(c) == failed' = failed \cup {c}
SetID(c, i) == ID' = [ID EXCEPT ![c] = i]

Rows(n) == {i \in DOMAIN user : user[i].Name = Stored[n]}

\* The row that a thread's registration would make; by is not a column, it says
\* who made the row.
Row(c, r) == [Name |-> Stored[r.Name], Passwort |-> Stored[r.Passwort], by |-> c]

\* A refused client, or one that sent nothing usable, is given up.
Refuse(c, r, flag) ==
    /\ Goto(c, "auth", "over")
    /\ Sent(c, r) /\ Reply(c, flag)
    /\ UNCHANGED <<user, kontaktlisten, ID, actVars>>

AuthError(c) ==
    /\ Goto(c, "auth", "over")
    /\ UNCHANGED <<user, kontaktlisten, authVars, actVars>>

-----------------------------------------------------------------------------
(* LOGIN: IsUserInDB.                                                      *)

FindName(c, r) ==
    /\ Goto(c, "auth", "passwort")
    /\ \E i \in Rows(r.Name) : SetID(c, i)
    /\ Sent(c, r)
    /\ UNCHANGED <<user, kontaktlisten, answer, failed, actVars>>

NoSuchName(c, r) ==
    /\ \/ Rows(r.Name) = {} /\ UNCHANGED failed
       \/ Fails(c)
    /\ Refuse(c, r, "U")

\* Mutant: the column is compared with what the client sent.
PasswortAsSent(c) == user[ID[c]].Passwort = request[c].Passwort

PasswortRight(c) == user[ID[c]].Passwort = Stored[request[c].Passwort]

\* LoginAntwort 'O', and the User is made.
Login(c) ==
    /\ Goto(c, "passwort", "insert")
    /\ PasswortRight(c)
    /\ Reply(c, "O")
    /\ UNCHANGED <<user, kontaktlisten, request, ID, failed, actVars>>

\* Mutant: the early return is missing.
WrongPasswortGoesOn(c) ==
    /\ Goto(c, "passwort", "insert")
    /\ \/ ~PasswortRight(c) /\ UNCHANGED failed
       \/ Fails(c)
    /\ Reply(c, "P")
    /\ UNCHANGED <<user, kontaktlisten, request, ID, actVars>>

WrongPasswort(c) ==
    /\ Goto(c, "passwort", "over")
    /\ \/ ~PasswortRight(c) /\ UNCHANGED failed
       \/ Fails(c)
    /\ Reply(c, "P")
    /\ SetID(c, 0)
    /\ UNCHANGED <<user, kontaktlisten, request, actVars>>

-----------------------------------------------------------------------------
(* REGISTER: AddUserToDB.                                                  *)

InsertUser(c, r) ==
    /\ Goto(c, "auth", "newid")
    /\ Rows(r.Name) = {}
    /\ user' = Append(user, Row(c, r))
    /\ Sent(c, r)
    /\ UNCHANGED <<kontaktlisten, ID, answer, failed, actVars>>

\* The name has a row already, or the query failed.
NameTaken(c, r) ==
    /\ \/ Rows(r.Name) # {} /\ UNCHANGED failed
       \/ Fails(c)
    /\ Refuse(c, r, "S")

\* The connection is lost when the row is made and its answer still to come:
\* execute fails all the same.
InsertUnanswered(c, r) ==
    /\ Goto(c, "auth", "over")
    /\ Rows(r.Name) = {}
    /\ user' = Append(user, Row(c, r))
    /\ Fails(c) /\ Sent(c, r) /\ Reply(c, "S")
    /\ UNCHANGED <<kontaktlisten, ID, actVars>>

\* Mutant: the new ID is taken for the highest one.
NewIDHighest(c) ==
    /\ Goto(c, "newid", "insert")
    /\ SetID(c, Len(user))
    /\ Reply(c, "O")
    /\ UNCHANGED <<user, kontaktlisten, request, failed, actVars>>

\* The ID of the new row is asked for by its name.
NewID(c) ==
    /\ Goto(c, "newid", "insert")
    /\ \E i \in Rows(request[c].Name) : SetID(c, i)
    /\ Reply(c, "O")
    /\ UNCHANGED <<user, kontaktlisten, request, failed, actVars>>

\* There is no answer to that: the client is given up without one, registered.
NoNewID(c) ==
    /\ Goto(c, "newid", "over")
    /\ Fails(c)
    /\ UNCHANGED <<user, kontaktlisten, request, ID, answer, actVars>>

-----------------------------------------------------------------------------
(* The session.                                                            *)

Online == {ID[c] : c \in {d \in Conn : pc[d] = "act"}}

AddUserToList(c) ==
    /\ IF ID[c] \in Online THEN Goto(c, "insert", "over") ELSE Goto(c, "insert", "act")
    /\ UNCHANGED <<user, kontaktlisten, authVars, actVars>>

Command(c) ==
    /\ pc[c] = "act" /\ cmds > 0
    /\ cmds' = cmds - 1
    /\ UNCHANGED <<user, pc, authVars>>

\* MESSAGE leaves the recipient in Act's ID.
Message(c, i) ==
    /\ Command(c)
    /\ argID' = [argID EXCEPT ![c] = i]
    /\ UNCHANGED kontaktlisten

\* str(i, 10) takes an int: what an unsigned int of half its range or more is then.
AsInt(i) == IF i < Half THEN i ELSE i - 2 * Half

\* Mutant: the two columns change places.
AddToContactListSwapped(Kontakt, ListenBesitzer) ==
    kontaktlisten' = kontaktlisten \cup
        {[USER |-> AsInt(Kontakt), EINTRAG |-> AsInt(ListenBesitzer)]}

AddToContactList(Kontakt, ListenBesitzer) ==
    kontaktlisten' = kontaktlisten \cup
        {[USER |-> AsInt(ListenBesitzer), EINTRAG |-> AsInt(Kontakt)]}

\* The client sends the ID i and a flag.  None of i is received as an ID: Act's
\* own, of the last MESSAGE or ADDUSEROK, goes through ntohl once more, and
\* Flag is the first byte of i.  The other bytes of i and the flag that the
\* client means are read as commands.  The insert may fail.
AddUserOK(c, i) ==
    /\ Command(c)
    /\ argID' = [argID EXCEPT ![c] = Ntohl[@]]
    /\ \/ FirstByte[i] = 1 /\ AddToContactList(ID[c], argID'[c])
       \/ UNCHANGED kontaktlisten

ActReturns(c) ==
    /\ Goto(c, "act", "over")
    /\ UNCHANGED <<user, kontaktlisten, authVars, actVars>>

Next ==
    \E c \in Conn :
        \/ AuthError(c)
        \/ \E r \in Requests :
              \/ FindName(c, r) \/ NoSuchName(c, r)
              \/ InsertUser(c, r) \/ NameTaken(c, r) \/ InsertUnanswered(c, r)
        \/ Login(c) \/ WrongPasswort(c) \/ NewID(c) \/ NoNewID(c)
        \/ AddUserToList(c)
        \/ \E i \in Ids : Message(c, i) \/ AddUserOK(c, i)
        \/ ActReturns(c)

Spec == Init /\ [][Next]_vars

-----------------------------------------------------------------------------
TypeOK ==
    /\ user \in Seq([Name : {Stored[n] : n \in Name},
                     Passwort : {Stored[p] : p \in Passwort}, by : Conn])
    /\ kontaktlisten \subseteq [USER : {AsInt(i) : i \in Ids},
                                EINTRAG : {AsInt(i) : i \in DOMAIN user}]
    /\ pc \in [Conn -> {"auth", "passwort", "newid", "insert", "act", "over"}]
    /\ request \in [Conn -> Requests \cup {NoRequest}]
    /\ ID \in [Conn -> {0} \cup DOMAIN user]
    /\ answer \in [Conn -> {"none", "O", "U", "P", "S"}]
    /\ failed \subseteq Conn
    /\ argID \in [Conn -> Ids]
    /\ cmds \in 0 .. MaxCmds

\* Whoever is told 'O' is the user of the row whose name and password its client
\* sent, and if it registered, of the row that it made itself and nobody else,
\* although the ID, the password and the row are asked for one after the other
\* (main.cpp:49-84, 111-147).
Identity ==
    \A c \in Conn : answer[c] = "O" =>
        /\ ID[c] \in DOMAIN user
        /\ user[ID[c]].Name = Stored[request[c].Name]
        /\ user[ID[c]].Passwort = Stored[request[c].Passwort]
        /\ \A i \in DOMAIN user : user[i].by = c => i = ID[c]

\* A client whose queries were all answered is refused for the reason that it is
\* told: another client has registered the name, or the name has another
\* password (main.cpp:51-52, 70-71).
RefusedRightly ==
    \A c \in Conn \ failed :
        /\ answer[c] = "S" => \E i \in Rows(request[c].Name) : user[i].by # c
        /\ answer[c] = "P" => \E i \in Rows(request[c].Name) :
               user[i].Passwort # Stored[request[c].Passwort]

\* Nobody is entered in a contact list but by a session of its own, one whose
\* client sent the name and the password of that user's row and was told 'O',
\* whatever IDs and flags the clients' commands have (user.cpp:145, 189-197,
\* main.cpp:49-84).  In whose list is another matter: see AddUserOK.
ListedByOwner ==
    \A e \in kontaktlisten : \E c \in Conn :
        /\ answer[c] = "O"
        /\ ID[c] \in Rows(request[c].Name)
        /\ PasswortRight(c)
        /\ e.EINTRAG = AsInt(ID[c])

-----------------------------------------------------------------------------
(* The inductive invariant.                                                *)

\* A thread that has made a row asks for its ID, or is past that.
Makers ==
    /\ \A i, j \in DOMAIN user :
           user[i].Name = user[j].Name \/ user[i].by = user[j].by => i = j
    /\ \A i \in DOMAIN user :
           /\ pc[user[i].by] \notin {"auth", "passwort"}
           /\ request[user[i].by] \in Requests
           /\ user[i] = Row(user[i].by, request[user[i].by])
    /\ \A c \in Conn : pc[c] = "newid" => \E i \in DOMAIN user : user[i].by = c

Places ==
    \A c \in Conn :
        /\ pc[c] = "auth" => request[c] = NoRequest
        /\ pc[c] \in {"auth", "passwort", "newid"} => answer[c] = "none"
        /\ pc[c] \in {"insert", "act"} => answer[c] = "O"
        /\ answer[c] # "none" \/ pc[c] = "passwort" => request[c] \in Requests
        /\ pc[c] = "passwort" => ID[c] \in Rows(request[c].Name)

IInv == /\ TypeOK /\ Makers /\ Places
        /\ Identity /\ RefusedRightly /\ ListedByOwner
=============================================================================
