----------------------------- MODULE Messenger -----------------------------
(***************************************************************************)
(* What the sessions promise together, without threads, locks, reference   *)
(* counts or elements: a user is online with one session at most; a relay  *)
(* goes to the session the addressee was online with when it was looked    *)
(* up, and is given up only if there was none; whoever has the turn on a   *)
(* connection keeps it until the frame is whole or the client has left.    *)
(***************************************************************************)
CONSTANTS Conn, User, NoConn, NoUser

VARIABLES user,    \* whose session a connection is, once its login was answered
          online,  \* the session a user is online with
          request, \* the addressee of a session's relay, NoUser if there is none
          route,   \* the session that relay goes to
          turn,    \* who is writing a frame to a connection
          half,    \* the last frame on a connection is not whole
          left     \* the client has left

vars == <<user, online, request, route, turn, half, left>>

Init ==
    /\ user = [c \in Conn |-> NoUser]
    /\ online = [u \in User |-> NoConn]
    /\ request = [c \in Conn |-> NoUser]
    /\ route = [c \in Conn |-> NoConn]
    /\ turn = [c \in Conn |-> NoConn]
    /\ half = [c \in Conn |-> FALSE]
    /\ left = [c \in Conn |-> FALSE]

Online(c) == user[c] \in User /\ online[user[c]] = c

TakeTurn(t, d) ==
    /\ turn[d] = NoConn
    /\ turn' = [turn EXCEPT ![d] = t]

\* Not in the middle of a frame that somebody is there to read.
EndTurn(t, d) ==
    /\ turn[d] = t
    /\ half[d] => left[d]
    /\ turn' = [turn EXCEPT ![d] = NoConn]

\* The login of a client is answered; it may be refused (NoUser).
Answer(c, u) ==
    /\ user[c] = NoUser
    /\ user' = [user EXCEPT ![c] = u]
    /\ TakeTurn(c, c)
    /\ UNCHANGED <<online, request, route, half, left>>

SignOn(c) ==
    /\ user[c] \in User
    /\ online[user[c]] = NoConn
    /\ online' = [online EXCEPT ![user[c]] = c]
    /\ UNCHANGED <<user, request, route, turn, half, left>>

\* A session has finished what it was asked for.
SignOff(c) ==
    /\ Online(c)
    /\ request[c] = NoUser
    /\ online' = [online EXCEPT ![user[c]] = NoConn]
    /\ UNCHANGED <<user, request, route, turn, half, left>>

Ask(c, u) ==
    /\ Online(c)
    /\ request[c] = NoUser
    /\ request' = [request EXCEPT ![c] = u]
    /\ UNCHANGED <<user, online, route, turn, half, left>>

\* The relay's one look at who is online.
Pick(c) ==
    /\ request[c] \in User
    /\ route[c] = NoConn
    /\ online[request[c]] # NoConn
    /\ route' = [route EXCEPT ![c] = online[request[c]]]
    /\ UNCHANGED <<user, online, request, turn, half, left>>

GiveUp(c) ==
    /\ request[c] \in User
    /\ route[c] = NoConn
    /\ online[request[c]] = NoConn
    /\ request' = [request EXCEPT ![c] = NoUser]
    /\ UNCHANGED <<user, online, route, turn, half, left>>

\* A session writes to its own client, or its relay to the addressee's.
Begin(t, d) ==
    /\ IF request[t] = NoUser THEN d = t /\ Online(t)
       ELSE d = route[t] /\ user[d] = request[t]
    /\ TakeTurn(t, d)
    /\ UNCHANGED <<user, online, request, route, half, left>>

Write(t, d) ==
    /\ turn[d] = t
    /\ ~left[d]
    /\ half' \in {[half EXCEPT ![d] = b] : b \in BOOLEAN}
    /\ UNCHANGED <<user, online, request, route, turn, left>>

\* The frame is written: it was the session's own, or the relay is done with it.
End(t, d) ==
    /\ EndTurn(t, d)
    /\ IF request[t] = NoUser THEN UNCHANGED <<request, route>>
       ELSE /\ d = route[t]
            /\ request' = [request EXCEPT ![t] = NoUser]
            /\ route' = [route EXCEPT ![t] = NoConn]
    /\ UNCHANGED <<user, online, half, left>>

Leave(d) ==
    /\ left' = [left EXCEPT ![d] = TRUE]
    /\ UNCHANGED <<user, online, request, route, turn, half>>

Next ==
    \/ \E c \in Conn :
          \/ SignOn(c) \/ SignOff(c) \/ Pick(c) \/ GiveUp(c) \/ Leave(c)
          \/ \E u \in User \cup {NoUser} : Answer(c, u)
          \/ \E u \in User : Ask(c, u)
    \/ \E t, d \in Conn : Begin(t, d) \/ Write(t, d) \/ End(t, d)

Spec == Init /\ [][Next]_vars
=============================================================================
