----------------------------- MODULE WireServer -----------------------------
(***************************************************************************)
(* What the server receives from a client: Auth, then Act.                 *)
(***************************************************************************)
EXTENDS Wire

\* The constants of Protodefines.h, most significant byte first.
Macro(o) == IF platform.i386 THEN Reverse(Letters[o]) ELSE Letters[o]

\* Auth receives its command without MSG_WAITALL and does not look at what the
\* receive returned; Befehl is not initialised.  It goes through ntohs.
RecvRequest ==
    /\ pc = "auth" /\ CanRecv
    /\ Take(Got(2))
    /\ whole' = (Got(2) = 2)
    /\ \E x, y \in Junk :
          LET request == Overlay(<<x, y>>, Got(2))
          IN  \/ /\ \E o \in {"LL", "RE"} : request = Macro(o) /\ op' = o
                 /\ Goto("length")
              \/ /\ request \notin {Macro("LL"), Macro("RE")}
                 /\ Goto("end")
                 /\ UNCHANGED op
    /\ UNCHANGED <<roles, senderVars, closed, Befehl, ID, length, strings, refused, acted>>

RecvStatus ==
    /\ pc = "status" /\ CanRecvAll(1)
    /\ Take(Got(1))
    /\ Goto(IF Got(1) = 1 THEN "answer" ELSE "end")
    /\ UNCHANGED <<roles, senderVars, closed, op, Befehl, ID, length, strings, whole,
                   refused, acted>>

\* The database accepts the client and Act begins, or it does not.
Answer ==
    /\ pc = "answer"
    /\ \/ Goto("act") /\ CarryOut(NoID, strings) /\ UNCHANGED refused
       \/ Goto("end") /\ refused' = TRUE /\ UNCHANGED acted
    /\ UNCHANGED <<roles, senderVars, wire, closed, op, Befehl, ID, length, strings, whole>>

\* Befehl does not go through ntohs here.  ADDUSEROK goes on to receive
\* sizeof(ID)<=0, that is no, bytes of ID.
RecvCommand ==
    LET command == Overlay(Befehl, Got(2))
        Is(o)   == Got(2) > 0 /\ Host(command) = Macro(o)
    IN  /\ pc = "act" /\ CanRecvAll(2)
        /\ Take(Got(2))
        /\ Befehl' = command
        /\ \/ /\ Is("MS")
              /\ Goto("id") /\ op' = "MS" /\ ID' = NoID /\ length' = 0
              /\ UNCHANGED strings
           \/ /\ Is("AU")
              /\ Goto("length") /\ op' = "AU" /\ strings' = <<>>
              /\ UNCHANGED <<ID, length>>
           \/ /\ Is("AO")
              /\ Goto("flag") /\ op' = "AO"
              /\ UNCHANGED <<ID, length, strings>>
           \/ /\ \A o \in {"MS", "AU", "AO"} : ~Is(o)
              /\ Goto(IF Got(2) > 0 THEN "act" ELSE "end")
              /\ UNCHANGED <<op, ID, length, strings>>
        /\ UNCHANGED <<roles, senderVars, closed, whole, refused, acted>>

\* ID is what the last MESSAGE or ADDUSEROK has left there.
RecvFlag ==
    /\ pc = "flag" /\ CanRecv
    /\ Take(Got(1))
    /\ \/ /\ Got(1) = 1
          /\ ID' = Host(ID)
          /\ IF wire[1] = 1 THEN CarryOut(Host(ID), <<>>) ELSE UNCHANGED acted
          /\ Goto("act")
       \/ Got(1) = 0 /\ Goto("end") /\ UNCHANGED <<ID, acted>>
    /\ UNCHANGED <<roles, senderVars, closed, op, Befehl, length, strings, whole, refused>>

Server == RecvRequest \/ RecvStatus \/ Answer \/ RecvCommand \/ RecvFlag
=============================================================================
