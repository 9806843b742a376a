-------------------------------- MODULE Wire --------------------------------
(***************************************************************************)
(* One direction of one connection: a sender, the network, and the         *)
(* receives of CSocket from which a receiver (WireServer, WireClient) is   *)
(* made.  TCP delivers bytes in pieces or loses the connection between any *)
(* two of them; nothing but the lengths of its receives keeps a receiver   *)
(* in step.  A step of a receiver is one receive and what follows up to    *)
(* the next.                                                               *)
(***************************************************************************)
EXTENDS Integers, Sequences, SequencesExt

CONSTANTS Platforms,  \* builds of the server, see Builds
          Junk,       \* bytes that uninitialised memory may hold
          Requests,   \* what a client may send first
          Commands,   \* what it may send then
          Frames,     \* what the server may send
          MaxCmds,    \* bound: commands or frames that are sent
          MaxBufferLength

\* Byte order, and whether the macro i386 is defined.
Builds == [littleEndian : BOOLEAN, i386 : BOOLEAN]

\* Commands and frames with these letters, and how many strings their data are.
Sends(ops) == [op : ops, id : [1 .. 4 -> 0 .. 255], data : Seq(Seq(0 .. 255))]

DataOf == [LL |-> 2, RE |-> 3, MS |-> 1, AU |-> 2, AO |-> 0,
           LO |-> 0, LP |-> 0, LU |-> 0, AR |-> 0, AC |-> 1, AL |-> 2, RM |-> 1, QU |-> 1]

NoID == <<0, 0, 0, 0>>

\* A client logs in or registers and then sends other commands; what carries no ID has
\* NoID.  The length of a message is 16 bits wide, and so its limit is below 2^16.
ASSUME WireAssumption ==
    /\ Platforms \subseteq Builds
    /\ Junk \subseteq 0 .. 255 /\ Junk # {}
    /\ MaxCmds \in Nat
    /\ MaxBufferLength \in Nat \ {0} /\ MaxBufferLength < 65536
    /\ Requests \subseteq Sends({"LL", "RE"})
    /\ Commands \subseteq Sends({"MS", "AU", "AO"})
    /\ Frames \subseteq Sends({"LO", "LP", "LU", "AR", "AC", "AL", "RM", "QU"})
    /\ \A c \in Requests \cup Commands \cup Frames :
           /\ Len(c.data) = DataOf[c.op]
           /\ c.op \notin {"MS", "AO", "AC", "AL", "RM", "QU"} => c.id = NoID

VARIABLES
    platform, \* the build
    receiver, \* "server", or "client" for the other direction
    cur,      \* the command or frame that is being sent or was sent last
    toSend,   \* its bytes that have not arrived
    wire,     \* bytes that arrived and were not received
    closed,   \* no more will arrive: the sender closed, or the connection broke
    sent,     \* commands or frames that arrived whole
    pc,       \* the receive the receiver waits in
    op,       \* the command or frame it is in
    Befehl,   \* the two bytes of Befehl, as they are in memory
    ID,       \* the bytes of ID, as they are in memory
    length,   \* of the message or string it receives
    strings,  \* the strings it received, <<>> for one that failed
    whole,    \* no receive without MSG_WAITALL got less than it asked for
    refused,  \* the database did not accept the client
    acted     \* commands the server carried out, or frames the client reported

senderVars == <<cur, toSend, sent>>
receiverVars == <<pc, op, Befehl, ID, length, strings, whole, refused, acted>>
roles == <<platform, receiver>>
vars == <<roles, senderVars, wire, closed, receiverVars>>

-----------------------------------------------------------------------------
(* Bytes.                                                                  *)

Letters == [LL |-> <<76, 76>>, RE |-> <<82, 69>>, MS |-> <<77, 83>>,
            AU |-> <<65, 85>>, AO |-> <<65, 79>>,
            LO |-> <<76, 79>>, LP |-> <<76, 80>>, LU |-> <<76, 85>>, AR |-> <<65, 82>>,
            AC |-> <<65, 67>>, AL |-> <<65, 76>>, RM |-> <<82, 77>>, QU |-> <<81, 85>>]

\* Between the order of the network and that of memory: ntohl and htonl.
Host(bytes) == IF platform.littleEndian THEN Reverse(bytes) ELSE bytes

\* What ntohs makes of two bytes from the network, and htons of a number.
Ntohs(bytes) == 256 * bytes[1] + bytes[2]
Htons(n) == <<n \div 256, n % 256>>

\* SendStringWBLen, which sends all of a string and its length modulo 256.
WithLength(s) == <<Len(s) % 256>> \o s

\* A message after its length, which is 16 bits wide.
WithLongLength(s) == Htons(Len(s) % 65536) \o s

\* A command as the test client (or the counterpart of Act) sends it.
EncodeCommand(c) ==
    Letters[c.op] \o
    CASE c.op = "LL" -> WithLength(c.data[1]) \o WithLength(c.data[2]) \o <<0>>
      [] c.op = "RE" -> WithLength(c.data[1]) \o WithLength(c.data[2]) \o WithLength(c.data[3])
      [] c.op = "MS" -> Host(c.id) \o WithLongLength(c.data[1])
      [] c.op = "AU" -> WithLength(c.data[1]) \o WithLength(c.data[2])
      [] c.op = "AO" -> Host(c.id) \o <<1>>

\* A frame as the server sends it; status, group and time zone are single bytes.
\* (Nobody is sent "RS", see Session.)
EncodeFrame(f) ==
    Letters[f.op] \o
    CASE f.op \in {"LO", "LP", "LU"} -> <<>>
      [] f.op = "AR" -> <<79>>
      [] f.op = "AC" -> WithLength(f.data[1]) \o <<1>> \o Host(f.id)
      [] f.op = "AL" -> WithLength(f.data[1]) \o WithLength(f.data[2]) \o <<0, 1, 1>> \o Host(f.id)
      [] f.op = "RM" -> Host(f.id) \o WithLongLength(f.data[1])
      [] f.op = "QU" -> Host(f.id) \o f.data[1]

NoCommand == [op |-> "", id |-> NoID, data |-> <<>>]

Init ==
    /\ platform \in Platforms
    /\ \/ receiver = "server" /\ pc = "auth"
       \/ receiver = "client" /\ pc = "frame"
    /\ cur = NoCommand
    /\ toSend = <<>>
    /\ wire = <<>>
    /\ closed = FALSE
    /\ sent = <<>>
    /\ op = ""
    /\ Befehl = <<0, 0>>
    /\ ID = NoID
    /\ length = 0
    /\ strings = <<>>
    /\ whole = TRUE
    /\ refused = FALSE
    /\ acted = <<>>

-----------------------------------------------------------------------------
(* The sender and the network.                                             *)

\* The sender does not wait for answers.
Start(c) ==
    /\ ~closed /\ toSend = <<>> /\ Len(sent) < MaxCmds
    /\ \/ /\ receiver = "server"
          /\ c \in IF sent = <<>> THEN Requests ELSE Commands
          /\ toSend' = EncodeCommand(c)
       \/ /\ receiver = "client"
          /\ c \in Frames
          /\ toSend' = EncodeFrame(c)
    /\ cur' = c
    /\ UNCHANGED <<roles, wire, closed, sent, receiverVars>>

Deliver ==
    /\ toSend # <<>>
    /\ wire' = Append(wire, Head(toSend))
    /\ toSend' = Tail(toSend)
    /\ sent' = IF Len(toSend) = 1 THEN Append(sent, cur) ELSE sent
    /\ UNCHANGED <<roles, cur, closed, receiverVars>>

\* The rest of what is being sent is lost.
Close ==
    /\ ~closed
    /\ closed' = TRUE
    /\ toSend' = <<>>
    /\ UNCHANGED <<roles, cur, wire, sent, receiverVars>>

Sender == (\E c \in Requests \cup Commands \cup Frames : Start(c)) \/ Deliver \/ Close

-----------------------------------------------------------------------------
(* Receiving.  A receive of n bytes returns how many it got: all of them   *)
(* with MSG_WAITALL, some without, and fewer, in the end 0, when no more   *)
(* arrive.                                                                 *)

Least(m, n) == IF m < n THEN m ELSE n

Got(n) == Least(n, Len(wire))

CanRecv == wire # <<>> \/ closed

\* Mutant: MSG_WAITALL is forgotten.
CanRecvSome(n) == CanRecv

CanRecvAll(n) == Len(wire) >= n \/ closed

Take(k) == wire' = SubSeq(wire, k + 1, Len(wire))

\* The variable that a receive filled with k bytes.
Overlay(old, k) == [i \in DOMAIN old |-> IF i <= k THEN wire[i] ELSE old[i]]

Goto(l) == pc' = l

CarryOut(id, data) == acted' = Append(acted, [op |-> op, id |-> id, data |-> data])

\* The first half of RecvStringWBLen; length is not initialised.
RecvLength ==
    /\ pc = "length" /\ CanRecvAll(1)
    /\ Take(Got(1))
    /\ \E x \in Junk : length' = Overlay(<<x>>, Got(1))[1]
    /\ Goto("string")
    /\ UNCHANGED <<roles, senderVars, closed, op, Befehl, ID, strings, whole, refused, acted>>

\* Mutant: a terminating 0 is expected.
LimitWithNul(n) == Least(n, MaxBufferLength) + 1

\* CSocket::recv asks for no more than fit into its buffer ...
Limit(n) == Least(n, MaxBufferLength)

\* Mutant: one byte counts as none.
CompleteIfLong(n) == n > 1 /\ Len(wire) >= n

\* ... and its result is an error if it got nothing, even if it asked for nothing.
Complete(n) == n > 0 /\ Len(wire) >= n

\* Mutant: ADDUSER is taken to have four strings.
StringsOfFour == [LL |-> 2, RE |-> 3, AU |-> 4, AC |-> 1, AL |-> 2]

StringsOf == [LL |-> 2, RE |-> 3, AU |-> 2, AC |-> 1, AL |-> 2]

AfterStrings == [LL |-> "status", RE |-> "answer", AU |-> "act", AC |-> "zone", AL |-> "bytes"]

\* A login's second string is received even when the first one failed.
GoesOn(ss) == <<>> \notin Range(ss) \/ (op = "LL" /\ Len(ss) = 1)

\* The second half, and what follows a command's last string.
RecvString ==
    LET n  == Limit(length)
        ss == Append(strings, IF Complete(n) THEN SubSeq(wire, 1, n) ELSE <<>>)
    IN  /\ pc = "string" /\ CanRecvAll(n)
        /\ Take(Got(n))
        /\ strings' = ss
        /\ \/ ~GoesOn(ss) /\ Goto("end") /\ UNCHANGED acted
           \/ GoesOn(ss) /\ Len(ss) < StringsOf[op] /\ Goto("length") /\ UNCHANGED acted
           \/ /\ GoesOn(ss) /\ Len(ss) = StringsOf[op]
              /\ Goto(AfterStrings[op])
              /\ IF op = "AU" THEN CarryOut(NoID, ss) ELSE UNCHANGED acted
        /\ UNCHANGED <<roles, senderVars, closed, op, Befehl, ID, length, whole, refused>>

RecvID ==
    /\ pc = "id" /\ CanRecvAll(4)
    /\ Take(Got(4))
    /\ ID' = Overlay(ID, Got(4))
    /\ Goto(IF Got(4) > 0 THEN "size" ELSE "end")
    /\ UNCHANGED <<roles, senderVars, closed, op, Befehl, length, strings, whole, refused, acted>>

\* Act has set length to 0, the test client has not (nor does it use the ID).
RecvSize ==
    /\ pc = "size" /\ CanRecvAll(2)
    /\ Take(Got(2))
    /\ \E x \in IF receiver = "server" THEN {0} ELSE Junk :
          length' = Ntohs(Overlay(<<x, x>>, Got(2)))
    /\ \/ Got(2) > 0 /\ Goto("message") /\ ID' = Host(ID)
       \/ Got(2) = 0 /\ Goto("end") /\ UNCHANGED ID
    /\ UNCHANGED <<roles, senderVars, closed, op, Befehl, strings, whole, refused, acted>>

\* A message for the server or from it; the loop of both forms of CSocket::recv.
RecvMessage ==
    LET n == Limit(length)
    IN  /\ pc = "message" /\ CanRecvAll(n)
        /\ Take(Got(n))
        /\ \/ /\ Complete(n)
              /\ CarryOut(ID, <<SubSeq(wire, 1, n)>>)
              /\ Goto(IF receiver = "server" THEN "act" ELSE "frame")
           \/ ~Complete(n) /\ Goto("end") /\ UNCHANGED acted
        /\ UNCHANGED <<roles, senderVars, closed, op, Befehl, ID, length, strings, whole, refused>>

Recv == RecvLength \/ RecvString \/ RecvID \/ RecvSize \/ RecvMessage
=============================================================================
