------------------------------- MODULE Dialog -------------------------------
(***************************************************************************)
(* The two directions of a connection, each for itself: commands of a      *)
(* client to the server, and frames of the server to the test client.      *)
(***************************************************************************)
EXTENDS WireServer, WireClient

Next == Sender \/ Recv \/ Server \/ TestClient

Spec == Init /\ [][Next]_vars

\* The receiving thread is scheduled, and TCP delivers what was sent.
FairSpec == Spec /\ WF_vars(Recv \/ Server \/ TestClient) /\ WF_vars(Deliver)

-----------------------------------------------------------------------------
Bytes == 0 .. 255
Words == 0 .. 65535

TypeOK ==
    /\ platform \in Platforms
    /\ receiver \in {"server", "client"}
    /\ toSend \in Seq(Bytes)
    /\ wire \in Seq(Bytes)
    /\ closed \in BOOLEAN
    /\ pc \in {"length", "string", "id", "size", "message", "end"} \cup
              (IF receiver = "server" THEN {"auth", "status", "answer", "act", "flag"}
               ELSE {"frame", "zone", "ownid", "bytes", "contactid"})
    /\ op \in {"", "?"} \cup DOMAIN Letters
    /\ Befehl \in [1 .. 2 -> Bytes]
    /\ ID \in [1 .. 4 -> Bytes]
    /\ length \in Words
    /\ strings \in Seq(Seq(Bytes)) /\ Len(strings) <= 3
    /\ whole \in BOOLEAN
    /\ refused \in BOOLEAN

\* The receiver recognises the letters: Auth after ntohs, Act without it, and the
\* test client, which knows neither "AR" nor "QU", in any case.
Known(o) ==
    CASE o \in {"LL", "RE"} -> Letters[o] = Macro(o)
      [] o \in {"MS", "AU", "AO"} -> Host(Letters[o]) = Macro(o)
      [] o \in {"AR", "QU"} -> FALSE
      [] OTHER -> TRUE

\* A command or frame that the protocol can carry: no ADDUSEROK, no empty string
\* or message and none that is longer than the receiver's buffer.
Plain(c) ==
    /\ c.op # "AO" /\ Known(c.op)
    /\ \A s \in Range(c.data) :
          Len(s) \in 1 .. (IF c.op \in {"MS", "RM"} THEN MaxBufferLength
                           ELSE Least(255, MaxBufferLength))

\* So far the sender has kept to such, and no receive without MSG_WAITALL was cut
\* short.
Proper == whole /\ \A c \in Range(sent) \cup {cur} : c = NoCommand \/ Plain(c)

\* The test client reports its own information even if it was cut off, and compares
\* two bytes of Befehl even if only one was received; the other is an older one.  So
\* when the connection ends, its last report may be one more than was sent.
Reported ==
    IF /\ receiver = "client" /\ closed
       /\ Len(acted) > Len(sent)
       /\ Last(acted).op \in {"AC", "LO", "LP", "LU", "?"}
    THEN Front(acted) ELSE acted

\* The receiver carries out what was sent, in order, with the ID and the contents
\* it was sent with, and, but for what Reported leaves out, nothing of which a part
\* is missing when the connection ends, although short receives are accepted
\* (main.cpp:87-154, user.cpp:149-202, SmallTest/main.cpp:60-153).
InStep == Proper => IsPrefix(Reported, sent)

\* The receiver ends only when the sender has gone or was refused.
EndsForCause == pc = "end" /\ Proper => closed \/ refused

\* All that arrived whole is carried out in the end, also in front of the end of
\* the connection: no receive waits for more bytes than were sent.
Served == <>[](Proper => refused \/ Reported = sent)

\* "Der user *this  will/ will nicht das der User ID ihn adden darf"
\* (user.cpp:191): the ID that is added is one that the client sent.
AddsWhoWasAccepted ==
    \A i \in DOMAIN acted :
        acted[i].op = "AO" => \E c \in Range(sent) \cup {cur} : c.op = "AO" /\ c.id = acted[i].id
=============================================================================
