----------------------------- MODULE WireClient -----------------------------
(***************************************************************************)
(* What the test client's receiver thread, RecvHandler, receives from the  *)
(* server.  "RS" is left out: nobody is sent it, see Session.  The thread  *)
(* unlocks a lock it never took, which is left out, too.                   *)
(***************************************************************************)
EXTENDS Wire

\* Befehl is compared as it is in memory.  What is not known is reported, too.
RecvFrame ==
    LET command == Overlay(Befehl, Got(2))
        Is(o)   == Got(2) > 0 /\ command = Letters[o]
        Reports(o) == acted' = Append(acted, [op |-> o, id |-> NoID, data |-> <<>>])
    IN  /\ pc = "frame" /\ CanRecvAll(2)
        /\ Take(Got(2))
        /\ Befehl' = command
        /\ strings' = <<>>
        /\ \E x \in Junk : ID' = <<x, x, x, x>>
        /\ \/ \E o \in {"LO", "LP", "LU"} :
                Is(o) /\ op' = o /\ Goto("frame") /\ Reports(o)
           \/ Is("RM") /\ op' = "RM" /\ Goto("id") /\ UNCHANGED acted
           \/ \E o \in {"AC", "AL"} :
                Is(o) /\ op' = o /\ Goto("length") /\ UNCHANGED acted
           \/ /\ Got(2) > 0
              /\ \A o \in {"LO", "LP", "LU", "RM", "AC", "AL"} : ~Is(o)
              /\ op' = "?" /\ Goto("frame") /\ Reports("?")
           \/ Got(2) = 0 /\ Goto("end") /\ UNCHANGED <<op, acted>>
        /\ UNCHANGED <<roles, senderVars, closed, length, whole, refused>>

\* Of the own information the time zone and the ID may be missing.
RecvZone ==
    /\ pc = "zone" /\ CanRecvAll(1)
    /\ Take(Got(1))
    /\ Goto("ownid")
    /\ UNCHANGED <<roles, senderVars, closed, op, Befehl, ID, length, strings, whole,
                   refused, acted>>

RecvOwnID ==
    /\ pc = "ownid" /\ CanRecvAll(4)
    /\ Take(Got(4))
    /\ ID' = Host(Overlay(ID, Got(4)))
    /\ CarryOut(Host(Overlay(ID, Got(4))), strings)
    /\ Goto("frame")
    /\ UNCHANGED <<roles, senderVars, closed, op, Befehl, length, strings, whole, refused>>

\* A contact's status, group and time zone: three receives of a byte each.
RecvBytes ==
    /\ pc = "bytes" /\ CanRecvAll(3)
    /\ Take(Got(3))
    /\ Goto(IF Got(3) = 3 THEN "contactid" ELSE "end")
    /\ UNCHANGED <<roles, senderVars, closed, op, Befehl, ID, length, strings, whole,
                   refused, acted>>

\* Its ID is received without MSG_WAITALL.
RecvContactID ==
    /\ pc = "contactid" /\ CanRecv
    /\ Take(Got(4))
    /\ whole' = (whole /\ Got(4) = 4)
    /\ \/ /\ Got(4) > 0
          /\ ID' = Host(Overlay(ID, Got(4)))
          /\ CarryOut(Host(Overlay(ID, Got(4))), strings)
          /\ Goto("frame")
       \/ Got(4) = 0 /\ Goto("end") /\ UNCHANGED <<ID, acted>>
    /\ UNCHANGED <<roles, senderVars, closed, op, Befehl, length, strings, refused>>

TestClient == RecvFrame \/ RecvZone \/ RecvOwnID \/ RecvBytes \/ RecvContactID
=============================================================================
