---------------------------- MODULE DialogProofs ----------------------------
(***************************************************************************)
(* A receiver stays in step with its sender for any commands and frames,   *)
(* any buffer and any build, as long as what is sent is what the protocol  *)
(* can carry.  The invariant says what is still to come: wherever the      *)
(* receiver is, the bytes that it has not received are the rest of the     *)
(* command it is in and the commands that were sent after that one.        *)
(***************************************************************************)
EXTENDS WireProofs

Encoded(c) == IF receiver = "server" THEN EncodeCommand(c) ELSE EncodeFrame(c)

\* What may be sent as the i-th.
Sendable(i) ==
    IF receiver = "client" THEN Frames ELSE IF i = 1 THEN Requests ELSE Commands

Sending ==
    /\ sent \in Seq(Requests \cup Commands \cup Frames)
    /\ \A i \in 1 .. Len(sent) : sent[i] \in Sendable(i)
    /\ toSend # <<>> => ~closed /\ cur \in Sendable(Len(sent) + 1)
    /\ toSend = <<>> /\ ~closed => cur = NoCommand \/ cur \in Range(sent)
    /\ pc = "auth" => whole

\* The i-th that was sent, and how many were if lost is what has not arrived of the
\* last one, and never will if the connection is closed.
Nth(i) == IF i <= Len(sent) THEN sent[i] ELSE cur
Count(lost) == IF lost = <<>> THEN Len(sent) ELSE Len(sent) + 1

\* The bytes of all that was sent after the i-th are t[i].
Stream(lost, t) ==
    /\ lost \in Seq(Bytes)
    /\ lost # <<>> => cur \in Sendable(Len(sent) + 1)
    /\ ~closed => lost = toSend
    /\ t \in [0 .. Count(lost) -> Seq(Bytes)]
    /\ t[Count(lost)] = <<>>
    /\ \A i \in 1 .. Count(lost) :
           /\ t[i - 1] = Encoded(Nth(i)) \o t[i]
           /\ Len(lost) <= Len(t[i - 1])

\* What comes behind a command's strings, and from the one behind the j-th on.
Ending(c) ==
    CASE c.op = "LL" -> <<0>>
      [] c.op = "AC" -> <<1>> \o Host(c.id)
      [] c.op = "AL" -> <<0, 1, 1>> \o Host(c.id)
      [] OTHER -> <<>>
FromThird(c) ==
    IF StringsOf[c.op] = 2 THEN Ending(c) ELSE WithLength(c.data[3]) \o Ending(c)
FromSecond(c) ==
    IF StringsOf[c.op] = 1 THEN Ending(c) ELSE WithLength(c.data[2]) \o FromThird(c)
From(c, j) ==
    CASE j = 0 -> WithLength(c.data[1]) \o FromSecond(c)
      [] j = 1 -> FromSecond(c)
      [] j = 2 -> FromThird(c)
      [] OTHER -> Ending(c)

\* What a receiver in the midst of a command has still to receive of it.
ToCome(c) ==
    CASE pc = "length" -> From(c, Len(strings))
      [] pc = "string" -> c.data[Len(strings) + 1] \o From(c, Len(strings) + 1)
      [] pc \in {"status", "zone", "bytes"} -> Ending(c)
      [] pc \in {"ownid", "contactid"} -> Host(c.id)
      [] pc = "id" -> Host(c.id) \o WithLongLength(c.data[1])
      [] pc = "size" -> WithLongLength(c.data[1])
      [] pc = "message" -> c.data[1]
      [] OTHER -> <<>>

\* And what it has of it.
Holds(c) ==
    /\ op = c.op
    /\ pc \in {"length", "string"} =>
          \A j \in 1 .. Len(strings) : strings[j] = c.data[j]
    /\ pc = "string" => length = Len(c.data[Len(strings) + 1])
    /\ pc \in {"status", "answer", "zone", "ownid", "bytes", "contactid"} => strings = c.data
    /\ pc = "status" => op = "LL"
    /\ pc = "answer" => op \in {"LL", "RE"}
    /\ pc \in {"zone", "ownid"} => op = "AC"
    /\ pc \in {"bytes", "contactid"} => op = "AL"
    /\ pc \in {"id", "size", "message"} => op \in {"MS", "RM"}
    /\ pc = "size" => ID = Host(c.id)
    /\ pc = "message" => ID = c.id /\ length = Len(c.data[1])

\* What was carried out was sent, in that order.
Kept ==
    /\ acted \in Seq(Requests \cup Commands \cup Frames)
    /\ Len(acted) <= Len(sent)
    /\ \A i \in 1 .. Len(acted) : acted[i] = sent[i]

Midst == {"length", "string", "status", "answer", "zone", "ownid", "bytes", "contactid",
          "id", "size", "message"}

Mid(lost, t, c) ==
    /\ Stream(lost, t) /\ Kept
    /\ pc \in Midst
    /\ Len(acted) < Count(lost)
    /\ c = Nth(Len(acted) + 1)
    /\ Holds(c)
    /\ wire \o lost = ToCome(c) \o t[Len(acted) + 1]

Between(lost, t) ==
    /\ Stream(lost, t) /\ Kept
    /\ pc \in {"auth", "act", "frame"}
    /\ pc = "auth" => Len(acted) = 0
    /\ pc = "act" => Len(acted) # 0
    /\ wire \o lost = t[Len(acted)]

Following ==
    \E lost \in Seq(Bytes) : \E t \in [0 .. Count(lost) -> Seq(Bytes)] :
        Between(lost, t) \/ \E c \in Requests \cup Commands \cup Frames : Mid(lost, t, c)

\* The last report may be one that was not sent.
Over ==
    /\ receiver = "client" /\ pc \in {"frame", "end"}
    /\ acted # <<>> /\ Len(acted) = Len(sent) + 1
    /\ acted[Len(acted)].op \in {"AC", "LO", "LP", "LU", "?"}
    /\ \A i \in 1 .. Len(sent) : acted[i] = sent[i]

\* Nothing is left to receive and nothing will arrive.
Adrift ==
    /\ closed /\ wire = <<>>
    /\ pc \in {"length", "string", "id", "size", "message", "act", "flag", "frame", "ownid", "end"}
    /\ Kept \/ Over
    /\ pc = "ownid" => op = "AC" /\ Len(acted) = Len(sent)

Refused == refused /\ receiver = "server" /\ pc = "end" /\ Kept

Follow == Sending /\ (Proper => Following \/ Adrift \/ Refused)

-----------------------------------------------------------------------------
(* Bytes and lengths.                                                      *)

LEMMA Assoc ==
  ASSUME NEW s \in Seq(Bytes), NEW t \in Seq(Bytes), NEW u \in Seq(Bytes)
  PROVE  (s \o t) \o u = s \o (t \o u)
  BY ConcatAssociative

LEMMA Cancel ==
  ASSUME NEW s \in Seq(Bytes), NEW t \in Seq(Bytes), NEW u \in Seq(Bytes), s \o t = s \o u
  PROVE  t = u
  <1>1. Len(s \o t) = Len(s) + Len(t) /\ Len(s \o u) = Len(s) + Len(u)
    BY ConcatProperties
  <1>2. Len(t) = Len(u)
    BY <1>1
  <1>3. ASSUME NEW i \in 1 .. Len(t) PROVE t[i] = u[i]
    <2>1. (s \o t)[Len(s) + i] = t[i] /\ (s \o u)[Len(s) + i] = u[i]
      BY <1>2, ConcatProperties
    <2> QED  BY <2>1
  <1> QED  BY <1>2, <1>3, SeqEqual

LEMMA Halved ==
  ASSUME NEW s \in Seq(Bytes), NEW n \in Nat, n <= Len(s)
  PROVE  SubSeq(s, 1, n) \o SubSeq(s, n + 1, Len(s)) = s
  <1>1. 1 \in 1 .. Len(s) + 1 /\ n \in 1 - 1 .. Len(s) /\ Len(s) \in n .. Len(s)
    OBVIOUS
  <1>2. SubSeq(s, 1, n) \o SubSeq(s, n + 1, Len(s)) = SubSeq(s, 1, Len(s))
    BY <1>1, ConcatAdjacentSubSeq, Zenon
  <1>3. SubSeq(s, 1, Len(s)) = s
    BY SubSeqFull, Zenon
  <1> QED  BY <1>2, <1>3

LEMMA ReverseTwice ==
  ASSUME NEW n \in Nat, NEW s \in Row(n)
  PROVE  Reverse(Reverse(s)) = s
  BY Rows DEF Reverse, Row

LEMMA HostTwice ==
  ASSUME NEW n \in Nat, NEW s \in Row(n)
  PROVE  Host(Host(s)) = s
  BY ReverseTwice DEF Host

LEMMA LengthFits ==
  ASSUME NEW s \in Seq(Bytes), Len(s) \in 1 .. Least(255, MaxBufferLength)
  PROVE  /\ Len(s) \in 1 .. 255 /\ Limit(Len(s)) = Len(s)
         /\ WithLength(s) = <<Len(s)>> \o s
  <1> DEFINE n == Len(s)
  <1>0. MaxBufferLength \in Nat
    BY WireAssumption
  <1>1. n \in 1 .. 255 /\ n <= MaxBufferLength
    <2>1. n \in 1 .. Least(255, MaxBufferLength)
      OBVIOUS
    <2> HIDE DEF n
    <2> QED  BY <1>0, <2>1 DEF Least
  <1>2. n % 256 = n /\ Limit(n) = n
    <2> HIDE DEF n
    <2> QED  BY <1>0, <1>1 DEF Limit, Least
  <1> QED  BY <1>1, <1>2 DEF WithLength

LEMMA NtohsHtons ==
  ASSUME NEW n \in Nat, n <= 65535
  PROVE  Ntohs(Htons(n)) = n
  <1>1. 256 * (n \div 256) + (n % 256) = n
    OBVIOUS
  <1> QED  BY <1>1 DEF Ntohs, Htons

LEMMA MessageFits ==
  ASSUME NEW s \in Seq(Bytes), Len(s) \in 1 .. MaxBufferLength
  PROVE  /\ Limit(Len(s)) = Len(s)
         /\ Len(s) \in Words
         /\ WithLongLength(s) = Htons(Len(s)) \o s
         /\ Ntohs(Htons(Len(s))) = Len(s)
  <1> DEFINE n == Len(s)
  <1>1. n \in Nat /\ n # 0 /\ n <= MaxBufferLength
    BY WireAssumption
  <1>2. MaxBufferLength \in Nat /\ MaxBufferLength <= 65535
    BY WireAssumption
  <1>3. n <= 65535
    <2> HIDE DEF n
    <2> QED  BY <1>1, <1>2
  <1>4. n % 65536 = n
    <2> HIDE DEF n
    <2> QED  BY <1>1, <1>3
  <1>5. Limit(n) = n
    <2> HIDE DEF n
    <2> QED  BY <1>1, <1>2 DEF Limit, Least
  <1>6. Ntohs(Htons(n)) = n /\ n \in Words
    <2> HIDE DEF n
    <2> QED  BY <1>1, <1>3, NtohsHtons, WordsFrom
  <1> QED  BY <1>4, <1>5, <1>6 DEF WithLongLength

LEMMA NotEmpty ==
  ASSUME NEW s \in Seq(Bytes), Len(s) \in 1 .. 255
  PROVE  s # <<>>
  <1>1. Len(<<>>) = 0
    OBVIOUS
  <1>2. PICK k \in 1 .. 255 : k = Len(s)
    OBVIOUS
  <1>3. k # 0
    OBVIOUS
  <1> QED  BY <1>1, <1>2, <1>3, Zenon

\* The front of what is still to come, if that much has arrived ...
LEMMA Arrived ==
  ASSUME NEW s \in Seq(Bytes), NEW p \in Seq(Bytes), NEW q \in Seq(Bytes),
         NEW lost \in Seq(Bytes), s \o lost = p \o q, Len(s) >= Len(p)
  PROVE  SubSeq(s, 1, Len(p)) = p /\ \A i \in 1 .. Len(p) : s[i] = p[i]
  <1> DEFINE n == Len(p)
  <1>1. n \in Nat /\ n <= Len(s)
    OBVIOUS
  <1>2. \A i \in 1 .. n : s[i] = p[i]
    <2>1. \A i \in 1 .. n : (s \o lost)[i] = s[i] /\ (p \o q)[i] = p[i]
      OBVIOUS
    <2> QED  BY <2>1
  <1>3. SubSeq(s, 1, n) = p
    <2>1. SubSeq(s, 1, n) \in Seq(Bytes) /\ Len(SubSeq(s, 1, n)) = n
      OBVIOUS
    <2>2. \A i \in 1 .. n : SubSeq(s, 1, n)[i] = p[i]
      BY <1>2
    <2> QED  BY <2>1, <2>2, SeqEqual
  <1> QED  BY <1>2, <1>3

\* (then what is behind it is what comes after it)
LEMMA Behind ==
  ASSUME NEW s \in Seq(Bytes), NEW p \in Seq(Bytes), NEW q \in Seq(Bytes),
         NEW lost \in Seq(Bytes), s \o lost = p \o q, Len(s) >= Len(p)
  PROVE  SubSeq(s, Len(p) + 1, Len(s)) \o lost = q
  <1> DEFINE n == Len(p)
             w == SubSeq(s, n + 1, Len(s))
  <1>1. n \in Nat /\ n <= Len(s)
    OBVIOUS
  <1>3. SubSeq(s, 1, n) = p
    BY Arrived
  <1>4. w \in Seq(Bytes)
    OBVIOUS
  <1>5. s = p \o w
    <2>1. SubSeq(s, 1, n) \o w = s
      BY <1>1, Halved
    <2> QED  BY <1>3, <2>1
  <1>6. w \o lost = q
    <2> HIDE DEF w
    <2>1. w \o lost \in Seq(Bytes)
      BY <1>4
    <2>2. (p \o w) \o lost = p \o (w \o lost)
      BY <1>4, Assoc
    <2>3. p \o (w \o lost) = p \o q
      BY <1>5, <2>2, Zenon
    <2> QED  BY <2>1, <2>3, Cancel, Zenon
  <1> QED  BY <1>6

\* ... and if not.
LEMMA TooShort ==
  ASSUME NEW s \in Seq(Bytes), NEW p \in Seq(Bytes), NEW q \in Seq(Bytes),
         NEW lost \in Seq(Bytes), s \o lost = p \o q, Len(s) < Len(p)
  PROVE  Len(q) < Len(lost)
  <1>1. Len(s \o lost) = Len(s) + Len(lost) /\ Len(p \o q) = Len(p) + Len(q)
    BY ConcatProperties
  <1> QED  BY <1>1

-----------------------------------------------------------------------------
(* What is sent.                                                           *)

Limits(o) == IF o \in {"MS", "RM"} THEN MaxBufferLength ELSE Least(255, MaxBufferLength)

\* A command that the protocol can carry.
Good(c) ==
    /\ c = [op |-> c.op, id |-> c.id, data |-> c.data]
    /\ c.op \in IF receiver = "server" THEN {"LL", "RE", "MS", "AU"}
                ELSE {"LO", "LP", "LU", "AC", "AL", "RM"}
    /\ Known(c.op)
    /\ c.id \in Row(4)
    /\ c.op \notin {"MS", "AC", "AL", "RM"} => c.id = NoID
    /\ c.data \in Seq(Seq(Bytes)) /\ Len(c.data) = DataOf[c.op]
    /\ \A j \in 1 .. Len(c.data) : Len(c.data[j]) \in 1 .. Limits(c.op)

LEMMA SentTyped ==
  ASSUME NEW c \in Requests \cup Commands \cup Frames
  PROVE  /\ c = [op |-> c.op, id |-> c.id, data |-> c.data]
         /\ c.op \in DOMAIN DataOf /\ c # NoCommand
         /\ c.id \in Row(4)
         /\ c.data \in Seq(Seq(Bytes)) /\ Len(c.data) = DataOf[c.op]
         /\ c.op \notin {"MS", "AO", "AC", "AL", "RM", "QU"} => c.id = NoID
         /\ c \in Requests => c.op \in {"LL", "RE"}
         /\ c \in Commands => c.op \in {"MS", "AU", "AO"}
         /\ c \in Frames => c.op \in {"LO", "LP", "LU", "AR", "AC", "AL", "RM", "QU"}
  <1>1. c \in Sends({"LL", "RE"}) \/ c \in Sends({"MS", "AU", "AO"})
        \/ c \in Sends({"LO", "LP", "LU", "AR", "AC", "AL", "RM", "QU"})
    BY WireAssumption
  <1>2. /\ c = [op |-> c.op, id |-> c.id, data |-> c.data]
        /\ c.id \in Row(4) /\ c.data \in Seq(Seq(Bytes))
    BY <1>1 DEF Sends, Row, Bytes
  <1>3. /\ c \in Requests => c.op \in {"LL", "RE"}
        /\ c \in Commands => c.op \in {"MS", "AU", "AO"}
        /\ c \in Frames => c.op \in {"LO", "LP", "LU", "AR", "AC", "AL", "RM", "QU"}
    BY WireAssumption DEF Sends
  <1>4. c.op \in DOMAIN DataOf /\ c # NoCommand
    <2>1. c.op \in {"LL", "RE", "MS", "AU", "AO", "LO", "LP", "LU", "AR", "AC", "AL", "RM", "QU"}
      BY <1>3
    <2>2. c.op \in DOMAIN DataOf
      BY <2>1 DEF DataOf
    <2>3. c.op # "" /\ NoCommand.op = ""
      BY <2>1 DEF NoCommand
    <2> QED  BY <2>2, <2>3
  <1>5. /\ Len(c.data) = DataOf[c.op]
        /\ c.op \notin {"MS", "AO", "AC", "AL", "RM", "QU"} => c.id = NoID
    BY WireAssumption
  <1> QED  BY <1>2, <1>3, <1>4, <1>5

LEMMA EncodedTyped ==
  ASSUME NEW i, NEW c \in Sendable(i), receiver \in {"server", "client"}
  PROVE  Encoded(c) \in Seq(Bytes) /\ Encoded(c) # <<>>
  <1>1. receiver = "server" => c \in Requests \cup Commands
    BY DEF Sendable
  <1>2. receiver = "client" => c \in Frames
    BY DEF Sendable
  <1> QED  BY <1>1, <1>2, CommandTyped, FrameTyped DEF Encoded

\* All that was started is good as long as the sender keeps to the protocol.
LEMMA NthGood ==
  ASSUME TypeOK, Sending, NEW lost, NEW t, Stream(lost, t), NEW i \in 1 .. Count(lost)
  PROVE  /\ Nth(i) \in Sendable(i)
         /\ Nth(i) \in Requests \cup Commands \cup Frames
         /\ Proper => Good(Nth(i))
  <1> DEFINE c == Nth(i)
  <1>1. Len(sent) \in Nat
    BY DEF Sending
  <1>2. i <= Len(sent) \/ (i = Len(sent) + 1 /\ lost # <<>>)
    BY <1>1 DEF Count
  <1>3. c \in Sendable(i)
    BY <1>1, <1>2 DEF Nth, Sending, Stream
  <1>4. c \in Requests \cup Commands \cup Frames
    BY <1>3 DEF Sendable
  <1>5. c \in Range(sent) \cup {cur}
    BY <1>1, <1>2 DEF Nth, Range, Sending
  <1>6. receiver \in {"server", "client"}
    BY DEF TypeOK
  <1> HIDE DEF c
  <1>7. ASSUME Proper PROVE Good(c)
    <2>1. Plain(c)
      BY <1>4, <1>5, <1>7, SentTyped DEF Proper
    <2>2. c.op # "AO" /\ Known(c.op)
      BY <2>1 DEF Plain
    <2>3. ASSUME NEW j \in 1 .. Len(c.data) PROVE Len(c.data[j]) \in 1 .. Limits(c.op)
      <3>1. c.data[j] \in Range(c.data)
        BY <1>4, SentTyped DEF Range
      <3> QED  BY <2>1, <3>1 DEF Plain, Limits
    <2>4. receiver = "server" => c.op \in {"LL", "RE", "MS", "AU"}
      BY <1>3, <1>4, <2>2, SentTyped DEF Sendable
    <2>5. receiver = "client" => c.op \in {"LO", "LP", "LU", "AC", "AL", "RM"}
      BY <1>3, <1>4, <2>2, SentTyped DEF Sendable, Known
    <2> QED  BY <1>4, <1>6, <2>2, <2>3, <2>4, <2>5, SentTyped DEF Good
  <1> QED  BY <1>3, <1>4, <1>7 DEF c

\* A command with strings, piece by piece.
LEMMA EndingTyped ==
  ASSUME NEW c, Good(c)
  PROVE  Ending(c) \in Seq(Bytes)
  <1>1. Host(c.id) \in Seq(Bytes)
    BY HostTyped DEF Good
  <1>2. <<0>> \in Seq(Bytes) /\ <<1>> \in Seq(Bytes) /\ <<0, 1, 1>> \in Seq(Bytes)
    BY DEF Bytes
  <1> QED  BY <1>1, <1>2, Empty DEF Ending

LEMMA Counted ==
  ASSUME NEW c, Good(c), c.op \in Strings(receiver)
  PROVE  StringsOf[c.op] \in 1 .. 3 /\ Len(c.data) = StringsOf[c.op]
  BY DEF Good, Strings, StringsOf, DataOf

LEMMA Stringed ==
  ASSUME NEW c, Good(c), c.op \in Strings(receiver)
  PROVE  /\ StringsOf[c.op] \in 1 .. 3 /\ Len(c.data) = StringsOf[c.op]
         /\ \A j \in 1 .. StringsOf[c.op] :
               /\ c.data[j] \in Seq(Bytes)
               /\ Len(c.data[j]) \in 1 .. 255 /\ Limit(Len(c.data[j])) = Len(c.data[j])
               /\ WithLength(c.data[j]) = <<Len(c.data[j])>> \o c.data[j]
  <1>1. StringsOf[c.op] \in 1 .. 3 /\ Len(c.data) = StringsOf[c.op]
    BY Counted
  <1>2. ASSUME NEW j \in 1 .. StringsOf[c.op]
        PROVE  c.data[j] \in Seq(Bytes) /\ Len(c.data[j]) \in 1 .. Least(255, MaxBufferLength)
    BY <1>1 DEF Good, Limits, Strings
  <1> QED  BY <1>1, <1>2, LengthFits

LEMMA LengthIsByte == \A n \in 1 .. 255 : n \in Bytes /\ <<n>> \in Seq(Bytes)
  BY DEF Bytes

LEMMA FromTyped ==
  ASSUME NEW c, Good(c), c.op \in Strings(receiver), NEW j \in 0 .. StringsOf[c.op]
  PROVE  From(c, j) \in Seq(Bytes)
  <1>1. StringsOf[c.op] \in 1 .. 3
    BY Counted
  <1>2. \A i \in 1 .. StringsOf[c.op] : WithLength(c.data[i]) \in Seq(Bytes)
    BY Stringed, LengthTyped
  <1>3. Ending(c) \in Seq(Bytes)
    BY EndingTyped
  <1>4. StringsOf[c.op] # 1 => FromThird(c) \in Seq(Bytes)
    <2>1. StringsOf[c.op] = 3 => WithLength(c.data[3]) \in Seq(Bytes)
      BY <1>2
    <2> QED  BY <1>1, <1>3, <2>1 DEF FromThird
  <1>5. FromSecond(c) \in Seq(Bytes)
    <2>1. StringsOf[c.op] # 1 => WithLength(c.data[2]) \in Seq(Bytes)
      BY <1>1, <1>2
    <2> QED  BY <1>1, <1>3, <1>4, <2>1 DEF FromSecond
  <1>6. WithLength(c.data[1]) \in Seq(Bytes)
    BY <1>1, <1>2
  <1>7. j = 2 => StringsOf[c.op] # 1
    BY <1>1
  <1> QED  BY <1>1, <1>3, <1>4, <1>5, <1>6, <1>7 DEF From

LEMMA FromNext ==
  ASSUME NEW c, Good(c), c.op \in Strings(receiver), NEW j \in 0 .. StringsOf[c.op] - 1
  PROVE  /\ c.data[j + 1] \in Seq(Bytes)
         /\ From(c, j + 1) \in Seq(Bytes)
         /\ From(c, j) = <<Len(c.data[j + 1])>> \o (c.data[j + 1] \o From(c, j + 1))
  <1>1. StringsOf[c.op] \in 1 .. 3 /\ j + 1 \in 1 .. StringsOf[c.op]
    BY Counted
  <1>2. /\ c.data[j + 1] \in Seq(Bytes)
        /\ Len(c.data[j + 1]) \in 1 .. 255
        /\ WithLength(c.data[j + 1]) = <<Len(c.data[j + 1])>> \o c.data[j + 1]
    BY <1>1, Stringed
  <1>3. From(c, j + 1) \in Seq(Bytes)
    BY <1>1, FromTyped
  <1>4. From(c, j) = WithLength(c.data[j + 1]) \o From(c, j + 1)
    <2>1. CASE j = 0
      BY <2>1 DEF From
    <2>2. CASE j = 1
      <3>1. StringsOf[c.op] # 1
        BY <1>1, <2>2
      <3> QED  BY <2>2, <3>1 DEF From, FromSecond
    <2>3. CASE j = 2
      <3>1. StringsOf[c.op] # 2
        BY <1>1, <2>3
      <3> QED  BY <2>3, <3>1 DEF From, FromThird
    <2> QED  BY <1>1, <2>1, <2>2, <2>3
  <1>5. <<Len(c.data[j + 1])>> \in Seq(Bytes)
    <2>1. Len(c.data[j + 1]) \in 1 .. 255
      BY <1>2
    <2> QED  BY <2>1, LengthIsByte
  <1>6. (<<Len(c.data[j + 1])>> \o c.data[j + 1]) \o From(c, j + 1)
        = <<Len(c.data[j + 1])>> \o (c.data[j + 1] \o From(c, j + 1))
    BY <1>2, <1>3, <1>5, Assoc
  <1> QED  BY <1>2, <1>3, <1>4, <1>6

LEMMA FromEnd ==
  ASSUME NEW c, Good(c), c.op \in Strings(receiver)
  PROVE  From(c, StringsOf[c.op]) = Ending(c)
  <1>1. StringsOf[c.op] \in 1 .. 3
    BY Counted
  <1>2. CASE StringsOf[c.op] = 1
    BY <1>2 DEF From, FromSecond
  <1>3. CASE StringsOf[c.op] = 2
    BY <1>3 DEF From, FromThird
  <1>4. CASE StringsOf[c.op] = 3
    BY <1>4 DEF From
  <1> QED  BY <1>1, <1>2, <1>3, <1>4

\* What follows the letters of a command.
Rest(c) ==
    CASE c.op \in {"MS", "RM"} -> Host(c.id) \o WithLongLength(c.data[1])
      [] c.op \in {"LO", "LP", "LU"} -> <<>>
      [] OTHER -> From(c, 0)

LEMMA RestTyped ==
  ASSUME NEW c, Good(c), receiver \in {"server", "client"}
  PROVE  Rest(c) \in Seq(Bytes)
  <1>1. CASE c.op \in {"MS", "RM"}
    <2>1. c.data[1] \in Seq(Bytes)
      BY <1>1 DEF Good, DataOf
    <2>2. Host(c.id) \in Seq(Bytes) /\ WithLongLength(c.data[1]) \in Seq(Bytes)
      BY <2>1, HostTyped, LongLengthTyped DEF Good
    <2> QED  BY <1>1, <2>2 DEF Rest
  <1>2. CASE c.op \in {"LO", "LP", "LU"}
    BY <1>2, Empty DEF Rest
  <1>3. CASE c.op \in Strings(receiver)
    <2>1. 0 \in 0 .. StringsOf[c.op]
      BY <1>3, Counted
    <2>2. From(c, 0) \in Seq(Bytes)
      BY <1>3, <2>1, FromTyped
    <2> QED  BY <1>3, <2>2 DEF Rest, Strings
  <1> QED  BY <1>1, <1>2, <1>3 DEF Good, Strings

LEMMA EncodedGood ==
  ASSUME NEW c, Good(c), receiver \in {"server", "client"}
  PROVE  /\ Letters[c.op] \in Row(2) /\ Letters[c.op] \in Seq(Bytes)
         /\ Encoded(c) = Letters[c.op] \o Rest(c)
  <1>1. c.op \in DOMAIN Letters
    BY DEF Good, Letters
  <1>2. Letters[c.op] \in Row(2) /\ Letters[c.op] \in Seq(Bytes)
    BY <1>1, LettersTyped
  <1>3. CASE c.op \in {"MS", "RM", "LO", "LP", "LU"}
    <2>1. receiver = "server" => c.op = "MS"
      BY <1>3 DEF Good
    <2>2. receiver = "client" => c.op # "MS"
      BY <1>3 DEF Good
    <2>3. c.op = "MS" => EncodeCommand(c) = Letters[c.op] \o Rest(c)
      BY DEF EncodeCommand, Rest
    <2>4. c.op = "RM" => EncodeFrame(c) = Letters[c.op] \o Rest(c)
      BY DEF EncodeFrame, Rest
    <2>5. c.op \in {"LO", "LP", "LU"} => EncodeFrame(c) = Letters[c.op] \o Rest(c)
      BY DEF EncodeFrame, Rest
    <2> QED  BY <1>2, <1>3, <2>1, <2>2, <2>3, <2>4, <2>5 DEF Encoded
  <1>4. ASSUME c.op \in Strings(receiver)
        PROVE  Encoded(c) = Letters[c.op] \o Rest(c)
    <2> DEFINE L == Letters[c.op]
               A == WithLength(c.data[1])
               B == WithLength(c.data[2])
               C == WithLength(c.data[3])
               H == Host(c.id)
    <2>1. \A i \in 1 .. StringsOf[c.op] : WithLength(c.data[i]) \in Seq(Bytes)
      BY <1>4, Stringed, LengthTyped
    <2>2. H \in Seq(Bytes)
      BY HostTyped DEF Good
    <2>3. Rest(c) = A \o FromSecond(c)
      BY <1>4 DEF Rest, Strings, From
    <2>4. <<0>> \in Seq(Bytes) /\ <<1>> \in Seq(Bytes) /\ <<0, 1, 1>> \in Seq(Bytes)
      BY DEF Bytes
    <2>5. CASE c.op = "LL"
      <3>1. A \in Seq(Bytes) /\ B \in Seq(Bytes)
        BY <2>1, <2>5 DEF StringsOf
      <3>2. Rest(c) = A \o (B \o <<0>>)
        BY <2>3, <2>5 DEF FromSecond, FromThird, Ending, StringsOf
      <3>3. Encoded(c) = L \o (A \o B \o <<0>>)
        BY <1>4, <2>5 DEF Encoded, EncodeCommand, Strings
      <3> HIDE DEF A, B
      <3> QED  BY <2>4, <3>1, <3>2, <3>3, Assoc
    <2>6. CASE c.op = "RE"
      <3>1. A \in Seq(Bytes) /\ B \in Seq(Bytes) /\ C \in Seq(Bytes)
        BY <2>1, <2>6 DEF StringsOf
      <3>2. Rest(c) = A \o (B \o (C \o <<>>))
        BY <2>3, <2>6 DEF FromSecond, FromThird, Ending, StringsOf
      <3>3. Encoded(c) = L \o (A \o B \o C)
        BY <1>4, <2>6 DEF Encoded, EncodeCommand, Strings
      <3> HIDE DEF A, B, C
      <3>4. C \o <<>> = C
        BY <3>1
      <3>5. (A \o B) \o C = A \o (B \o C)
        BY <3>1, Assoc
      <3> QED  BY <3>2, <3>3, <3>4, <3>5
    <2>7. CASE c.op = "AU"
      <3>1. A \in Seq(Bytes) /\ B \in Seq(Bytes)
        BY <2>1, <2>7 DEF StringsOf
      <3>2. Rest(c) = A \o (B \o <<>>)
        BY <2>3, <2>7 DEF FromSecond, FromThird, Ending, StringsOf
      <3>3. Encoded(c) = L \o (A \o B)
        BY <1>4, <2>7 DEF Encoded, EncodeCommand, Strings
      <3> HIDE DEF A, B
      <3>4. B \o <<>> = B
        BY <3>1
      <3> QED  BY <3>2, <3>3, <3>4
    <2>8. CASE c.op = "AC"
      <3>1. A \in Seq(Bytes)
        BY <2>1, <2>8 DEF StringsOf
      <3>2. Rest(c) = A \o (<<1>> \o H)
        BY <2>3, <2>8 DEF FromSecond, Ending, StringsOf
      <3>3. Encoded(c) = L \o (A \o <<1>> \o H)
        BY <1>4, <2>8 DEF Encoded, EncodeFrame, Strings
      <3> HIDE DEF A, H
      <3> QED  BY <2>2, <2>4, <3>1, <3>2, <3>3, Assoc
    <2>9. CASE c.op = "AL"
      <3> DEFINE Z == <<0, 1, 1>>
      <3>1. A \in Seq(Bytes) /\ B \in Seq(Bytes) /\ Z \in Seq(Bytes)
        BY <2>1, <2>4, <2>9 DEF StringsOf
      <3>2. Rest(c) = A \o (B \o (Z \o H))
        BY <2>3, <2>9 DEF FromSecond, FromThird, Ending, StringsOf
      <3>3. Encoded(c) = L \o (A \o B \o Z \o H)
        BY <1>4, <2>9 DEF Encoded, EncodeFrame, Strings
      <3> HIDE DEF A, B, H, Z
      <3>4. A \o B \o Z \o H = (A \o B) \o (Z \o H)
        <4>1. A \o B \in Seq(Bytes)
          BY <3>1
        <4> QED  BY <2>2, <3>1, <4>1, Assoc
      <3>5. (A \o B) \o (Z \o H) = A \o (B \o (Z \o H))
        <4>1. Z \o H \in Seq(Bytes)
          BY <2>2, <3>1
        <4> QED  BY <3>1, <4>1, Assoc
      <3> QED  BY <3>2, <3>3, <3>4, <3>5
    <2> QED  BY <1>4, <2>5, <2>6, <2>7, <2>8, <2>9 DEF Strings
  <1> QED  BY <1>2, <1>3, <1>4 DEF Good, Strings

LEMMA LettersDiffer ==
  /\ \A o, p \in {"LL", "RE", "MS", "AU", "AO"} : Letters[o] = Letters[p] => o = p
  /\ \A o, p \in {"LO", "LP", "LU", "AC", "AL", "RM"} : Letters[o] = Letters[p] => o = p
  BY DEF Letters

LEMMA MacrosDiffer ==
  ASSUME NEW o \in {"LL", "RE", "MS", "AU", "AO"}, NEW p \in {"LL", "RE", "MS", "AU", "AO"},
         Macro(o) = Macro(p)
  PROVE  o = p
  <1>1. Letters[o] \in Row(2) /\ Letters[p] \in Row(2)
    BY LettersTyped DEF Letters
  <1>2. Reverse(Reverse(Letters[o])) = Letters[o] /\ Reverse(Reverse(Letters[p])) = Letters[p]
    BY <1>1, ReverseTwice
  <1>3. Letters[o] = Letters[p]
    BY <1>2 DEF Macro
  <1> QED  BY <1>3, LettersDiffer

-----------------------------------------------------------------------------
(* What a receive leaves alone.                                            *)

LEMMA PiecesStay ==
  ASSUME UNCHANGED roles, NEW c
  PROVE  /\ Encoded(c)' = Encoded(c)
         /\ \A s : Host(s)' = Host(s)
         /\ Ending(c)' = Ending(c)
         /\ \A j : From(c, j)' = From(c, j)
  BY DEF roles, Encoded, EncodeCommand, EncodeFrame, Host, Ending, From, FromSecond, FromThird

LEMMA HostStays ==
  ASSUME UNCHANGED roles, NEW c
  PROVE  Host(c.id)' = Host(c.id)
  BY DEF roles, Host

LEMMA StreamStays ==
  ASSUME UNCHANGED <<roles, senderVars, closed>>, NEW lost, NEW t, Stream(lost, t)
  PROVE  /\ Stream(lost, t)'
         /\ Count(lost)' = Count(lost)
         /\ \A i : Nth(i)' = Nth(i)
  <1>1. UNCHANGED <<cur, toSend, sent, receiver, closed>>
    BY DEF roles, senderVars
  <1>2. Count(lost)' = Count(lost)
    BY <1>1 DEF Count
  <1>3. \A i : Nth(i)' = Nth(i) /\ Sendable(i)' = Sendable(i)
    BY <1>1 DEF Nth, Sendable
  <1>4. ASSUME NEW i \in 1 .. Count(lost)
        PROVE  t[i - 1] = Encoded(Nth(i))' \o t[i]
    <2>1. Encoded(Nth(i))' = Encoded(Nth(i))
      BY <1>1 DEF roles, Encoded, EncodeCommand, EncodeFrame, Host, Nth
    <2> QED  BY <2>1 DEF Stream
  <1> QED  BY <1>1, <1>2, <1>3, <1>4 DEF Stream

LEMMA SendingStays ==
  ASSUME UNCHANGED <<roles, senderVars, closed>>, Sending, pc' # "auth"
  PROVE  Sending'
  <1>1. UNCHANGED <<cur, toSend, sent, receiver, closed>>
    BY DEF roles, senderVars
  <1>2. \A i : Sendable(i)' = Sendable(i)
    BY <1>1 DEF Sendable
  <1> QED  BY <1>1, <1>2 DEF Sending

LEMMA ProperStays ==
  ASSUME UNCHANGED <<roles, senderVars>>, whole' => whole, Proper'
  PROVE  Proper
  <1>1. UNCHANGED <<cur, sent, platform>>
    BY DEF roles, senderVars
  <1>2. \A c : Plain(c)' = Plain(c)
    BY <1>1 DEF Plain, Known, Macro, Host
  <1> QED  BY <1>1, <1>2 DEF Proper

-----------------------------------------------------------------------------
(* The end of what was sent.                                               *)

LEMMA StreamTyped ==
  ASSUME Sending, NEW lost, NEW t, Stream(lost, t)
  PROVE  /\ Count(lost) \in Nat
         /\ \A m \in 0 .. Count(lost) : t[m] \in Seq(Bytes)
  <1>1. Len(sent) \in Nat
    BY DEF Sending
  <1>2. t \in [0 .. Count(lost) -> Seq(Bytes)]
    BY DEF Stream
  <1> QED  BY <1>1, <1>2 DEF Count

\* A command all of which was received is one all of which arrived ...
LEMMA ArrivedWhole ==
  ASSUME Sending, NEW lost \in Seq(Bytes), NEW t, Stream(lost, t),
         NEW m \in 1 .. Count(lost), NEW w \in Seq(Bytes), w \o lost = t[m]
  PROVE  m <= Len(sent)
  <1> SUFFICES ASSUME m > Len(sent) PROVE FALSE
    BY DEF Sending
  <1>1. lost # <<>> /\ m = Count(lost)
    BY DEF Count, Sending
  <1>2. w \o lost = <<>>
    BY <1>1 DEF Stream
  <1>3. Len(w \o lost) = Len(w) + Len(lost)
    BY ConcatProperties
  <1> QED  BY <1>1, <1>2, <1>3

\* ... and one that breaks off is the last.
LEMMA BrokeOff ==
  ASSUME Sending, NEW lost \in Seq(Bytes), NEW t, Stream(lost, t),
         NEW m \in 1 .. Count(lost), NEW r \in Seq(Bytes), Len(r \o t[m]) < Len(lost)
  PROVE  m = Len(sent) + 1 /\ lost # <<>>
  <1>1. Count(lost) \in Nat /\ t[m] \in Seq(Bytes)
    BY StreamTyped
  <1>2. Len(t[m]) < Len(lost)
    <2>1. Len(r \o t[m]) = Len(r) + Len(t[m])
      BY <1>1, ConcatProperties
    <2> QED  BY <1>1, <2>1
  <1>3. lost # <<>> /\ Count(lost) = Len(sent) + 1
    BY <1>1, <1>2 DEF Count
  <1>4. ASSUME m # Count(lost) PROVE FALSE
    <2>1. m + 1 \in 1 .. Count(lost)
      BY <1>1, <1>4
    <2>2. Len(lost) <= Len(t[(m + 1) - 1])
      BY <2>1 DEF Stream
    <2> QED  BY <1>1, <1>2, <2>2
  <1> QED  BY <1>3, <1>4

\* After a receive these bytes are still to come.
Left(lost, b) == wire' \in Seq(Bytes) /\ wire' \o lost = b

\* A receive in the midst of a command that gets what it asked for gets the next piece;
LEMMA MidTyped ==
  ASSUME Sending, NEW lost, NEW t, NEW c, Mid(lost, t, c)
  PROVE  /\ Len(acted) \in Nat /\ Len(acted) + 1 \in 1 .. Count(lost)
         /\ t[Len(acted) + 1] \in Seq(Bytes)
  <1> DEFINE m == Len(acted) + 1
  <1>1. Len(acted) \in Nat /\ Count(lost) \in Nat /\ m \in 1 .. Count(lost)
    BY DEF Mid, Kept, Sending, Count
  <1>2. t[m] \in Seq(Bytes)
    <2>1. Stream(lost, t)
      BY DEF Mid
    <2> HIDE DEF m
    <2> QED  BY <1>1, <2>1, StreamTyped
  <1> QED  BY <1>1, <1>2

LEMMA PieceLeft ==
  ASSUME TypeOK, Sending, NEW lost \in Seq(Bytes), NEW t, NEW c, Mid(lost, t, c),
         NEW n \in Nat, NEW p \in Seq(Bytes), NEW r \in Seq(Bytes),
         Len(p) = n, ToCome(c) = p \o r, Take(Got(n)), Len(wire) >= n
  PROVE  Left(lost, r \o t[Len(acted) + 1])
  <1>1. PICK s \in Seq(Bytes) : s = wire
    BY DEF TypeOK
  <1>2. PICK q \in Seq(Bytes) : q = r \o t[Len(acted) + 1] /\ wire \o lost = p \o q
    <2>1. t[Len(acted) + 1] \in Seq(Bytes)
      BY MidTyped
    <2>2. (p \o r) \o t[Len(acted) + 1] = p \o (r \o t[Len(acted) + 1])
      BY <2>1, Assoc
    <2>3. r \o t[Len(acted) + 1] \in Seq(Bytes)
      BY <2>1
    <2> QED  BY <2>2, <2>3 DEF Mid
  <1>3. Got(n) = n
    BY <1>1 DEF Got, Least
  <1>4. wire' = SubSeq(wire, n + 1, Len(wire))
    BY <1>3 DEF Take
  <1>5. s \o lost = p \o q /\ Len(s) >= Len(p)
    BY <1>1, <1>2
  <1>6. SubSeq(s, Len(p) + 1, Len(s)) \o lost = q
    BY <1>5, Behind, Zenon
  <1>7. SubSeq(s, Len(p) + 1, Len(s)) \in Seq(Bytes)
    OBVIOUS
  <1> QED  BY <1>1, <1>2, <1>4, <1>6, <1>7 DEF Left

LEMMA PieceIs ==
  ASSUME TypeOK, Sending, NEW lost \in Seq(Bytes), NEW t, NEW c, Mid(lost, t, c),
         NEW p \in Seq(Bytes), NEW r \in Seq(Bytes),
         ToCome(c) = p \o r, Len(wire) >= Len(p)
  PROVE  \A i \in 1 .. Len(p) : wire[i] = p[i]
  <1>1. PICK s \in Seq(Bytes) : s = wire
    BY DEF TypeOK
  <1>2. PICK q \in Seq(Bytes) : q = r \o t[Len(acted) + 1] /\ wire \o lost = p \o q
    <2>1. t[Len(acted) + 1] \in Seq(Bytes)
      BY MidTyped
    <2>2. (p \o r) \o t[Len(acted) + 1] = p \o (r \o t[Len(acted) + 1])
      BY <2>1, Assoc
    <2>3. r \o t[Len(acted) + 1] \in Seq(Bytes)
      BY <2>1
    <2> QED  BY <2>2, <2>3 DEF Mid
  <1>5. s \o lost = p \o q /\ Len(s) >= Len(p)
    BY <1>1, <1>2
  <1>6. \A i \in 1 .. Len(p) : s[i] = p[i]
    BY <1>5, Arrived
  <1> QED  BY <1>1, <1>6

LEMMA GotThat ==
  ASSUME NEW n \in Nat, wire \in Seq(Bytes)
  PROVE  /\ Len(wire) \in Nat
         /\ Len(wire) >= n => Got(n) = n
         /\ Len(wire) < n => Got(n) = Len(wire)
  BY DEF Got, Least

\* and one that gets less gets all there is of the last command.
LEMMA PieceShort ==
  ASSUME TypeOK, Sending, NEW lost \in Seq(Bytes), NEW t, NEW c, Mid(lost, t, c),
         NEW n \in Nat, NEW p \in Seq(Bytes), NEW r \in Seq(Bytes),
         Len(p) = n, ToCome(c) = p \o r, Take(Got(n)), Len(wire) < n
  PROVE  wire' = <<>> /\ Len(acted) = Len(sent)
  <1>1. PICK s \in Seq(Bytes) : s = wire
    BY DEF TypeOK
  <1>2. PICK q \in Seq(Bytes) : q = r \o t[Len(acted) + 1] /\ wire \o lost = p \o q
    <2>1. t[Len(acted) + 1] \in Seq(Bytes)
      BY MidTyped
    <2>2. (p \o r) \o t[Len(acted) + 1] = p \o (r \o t[Len(acted) + 1])
      BY <2>1, Assoc
    <2>3. r \o t[Len(acted) + 1] \in Seq(Bytes)
      BY <2>1
    <2> QED  BY <2>2, <2>3 DEF Mid
  <1>3. Len(acted) \in Nat
    BY MidTyped
  <1>4. PICK m \in 1 .. Count(lost) : m = Len(acted) + 1
    BY MidTyped
  <1>5. Got(n) = Len(wire)
    BY <1>1 DEF Got, Least
  <1>6. wire' = <<>>
    BY <1>1, <1>5 DEF Take
  <1>7. Len(r \o t[m]) < Len(lost)
    <2>1. s \o lost = p \o q /\ Len(s) < Len(p)
      BY <1>1, <1>2
    <2> QED  BY <1>2, <1>4, <2>1, TooShort
  <1>8. m = Len(sent) + 1
    BY <1>7, BrokeOff DEF Mid
  <1>9. Len(sent) \in Nat
    BY DEF Sending
  <1> QED  BY <1>3, <1>4, <1>6, <1>8, <1>9

LEMMA MidOf ==
  ASSUME TypeOK, Sending, Proper, NEW lost \in Seq(Bytes), NEW t, NEW c, Mid(lost, t, c)
  PROVE  /\ Good(c) /\ c \in Requests \cup Commands \cup Frames
         /\ Len(acted) \in Nat /\ Len(acted) + 1 \in 1 .. Count(lost)
         /\ t[Len(acted) + 1] \in Seq(Bytes)
  <1>1. /\ Len(acted) \in Nat /\ Len(acted) + 1 \in 1 .. Count(lost)
        /\ t[Len(acted) + 1] \in Seq(Bytes)
    BY MidTyped
  <1>2. Stream(lost, t) /\ c = Nth(Len(acted) + 1)
    BY DEF Mid
  <1>3. Good(c) /\ c \in Requests \cup Commands \cup Frames
    BY <1>1, <1>2, NthGood
  <1> QED  BY <1>1, <1>3

\* The receiver goes on in the command it is in, ...
LEMMA GoesOnIn ==
  ASSUME TypeOK, Sending, Proper, NEW lost \in Seq(Bytes), NEW t, NEW c, Mid(lost, t, c),
         UNCHANGED <<roles, senderVars, closed, acted>>,
         pc' \in Midst, Holds(c)', NEW r, ToCome(c)' = r,
         Left(lost, r \o t[Len(acted) + 1])
  PROVE  Following'
  <1>1. Stream(lost, t)' /\ Count(lost)' = Count(lost) /\ \A i : Nth(i)' = Nth(i)
    BY StreamStays DEF Mid
  <1>2. Mid(lost, t, c)'
    <2>1. Kept'
      BY DEF Mid, Kept, senderVars
    <2>2. c = Nth(Len(acted) + 1)' /\ Len(acted') < Count(lost)'
      BY <1>1 DEF Mid
    <2> QED  BY <1>1, <2>1, <2>2 DEF Mid, Left
  <1>3. t \in [0 .. Count(lost)' -> Seq(Bytes)] /\ c \in Requests \cup Commands \cup Frames
    BY <1>1, MidOf DEF Mid, Stream
  <1> QED  BY <1>2, <1>3 DEF Following

\* ... is done with it, ...
LEMMA Done ==
  ASSUME Sending, NEW lost \in Seq(Bytes), NEW t, Stream(lost, t), Kept,
         Len(acted) + 1 \in 1 .. Count(lost),
         NEW c \in Requests \cup Commands \cup Frames, c = Nth(Len(acted) + 1),
         UNCHANGED <<roles, senderVars, closed>>,
         pc' \in {"act", "frame"}, acted' = Append(acted, c),
         Left(lost, t[Len(acted) + 1])
  PROVE  Following'
  <1>1. Stream(lost, t)' /\ Count(lost)' = Count(lost)
    BY StreamStays
  <1>2. Len(acted) \in Nat /\ acted \in Seq(Requests \cup Commands \cup Frames)
    BY DEF Kept
  <1>4. /\ acted' \in Seq(Requests \cup Commands \cup Frames)
        /\ Len(acted') = Len(acted) + 1 /\ acted'[Len(acted) + 1] = c
        /\ \A i \in 1 .. Len(acted) : acted'[i] = acted[i]
    BY <1>2
  <1>5. Len(acted) + 1 <= Len(sent)
    <2>1. PICK w \in Seq(Bytes) : w = wire'
      BY DEF Left
    <2>2. PICK m \in 1 .. Count(lost) : m = Len(acted) + 1
      OBVIOUS
    <2>3. w \o lost = t[m]
      BY <2>1, <2>2 DEF Left
    <2> QED  BY <2>2, <2>3, ArrivedWhole
  <1>6. c = sent[Len(acted) + 1]
    BY <1>5 DEF Nth
  <1>7. Kept'
    <2>1. UNCHANGED sent
      BY DEF senderVars
    <2>2. ASSUME NEW i \in 1 .. Len(acted') PROVE acted'[i] = sent[i]
      BY <1>2, <1>4, <1>6 DEF Kept
    <2> QED  BY <1>4, <1>5, <2>1, <2>2 DEF Kept
  <1>8. Between(lost, t)'
    BY <1>1, <1>2, <1>4, <1>7 DEF Between, Left
  <1>9. t \in [0 .. Count(lost)' -> Seq(Bytes)]
    BY <1>1 DEF Stream
  <1> QED  BY <1>8, <1>9 DEF Following

LEMMA IsDone ==
  ASSUME TypeOK, Sending, Proper, NEW lost \in Seq(Bytes), NEW t, NEW c, Mid(lost, t, c),
         UNCHANGED <<roles, senderVars, closed>>,
         pc' \in {"act", "frame"}, acted' = Append(acted, c),
         Left(lost, t[Len(acted) + 1])
  PROVE  Following'
  <1>1. c \in Requests \cup Commands \cup Frames /\ Len(acted) + 1 \in 1 .. Count(lost)
    BY MidOf
  <1>2. Stream(lost, t) /\ Kept /\ c = Nth(Len(acted) + 1)
    BY DEF Mid
  <1> QED  BY <1>1, <1>2, Done

\* ... or was cut short, for good.
LEMMA CutShort ==
  ASSUME UNCHANGED <<roles, senderVars, closed, acted>>, closed, Kept, wire' = <<>>,
         pc' \in {"length", "string", "id", "size", "message", "act", "flag", "frame", "end"}
  PROVE  Adrift'
  BY DEF Adrift, Kept, senderVars

-----------------------------------------------------------------------------
(* The receives of a command's or frame's parts.                           *)

LEMMA NextPiece ==
  ASSUME UNCHANGED roles, NEW c
  PROVE  /\ pc' = "length" => ToCome(c)' = From(c, Len(strings'))
         /\ pc' = "string" =>
               ToCome(c)' = c.data[Len(strings') + 1] \o From(c, Len(strings') + 1)
         /\ pc' \in {"status", "zone", "bytes"} => ToCome(c)' = Ending(c)
         /\ pc' \in {"ownid", "contactid"} => ToCome(c)' = Host(c.id)
         /\ pc' = "id" => ToCome(c)' = Host(c.id) \o WithLongLength(c.data[1])
         /\ pc' = "size" => ToCome(c)' = WithLongLength(c.data[1])
         /\ pc' = "message" => ToCome(c)' = c.data[1]
         /\ pc' = "answer" => ToCome(c)' = <<>>
  <1>1. UNCHANGED <<platform, receiver>>
    BY DEF roles
  <1>2. CASE pc' = "length"
    BY <1>1, <1>2 DEF ToCome, From, FromSecond, FromThird, Ending, Host
  <1>3. CASE pc' = "string"
    BY <1>1, <1>3 DEF ToCome, From, FromSecond, FromThird, Ending, Host
  <1>4. CASE pc' \in {"status", "zone", "bytes"}
    BY <1>1, <1>4 DEF ToCome, Ending, Host
  <1>5. CASE pc' \in {"ownid", "contactid"}
    BY <1>1, <1>5 DEF ToCome, Host
  <1>6. CASE pc' \in {"id", "size", "message", "answer"}
    BY <1>1, <1>6 DEF ToCome, Host
  <1>7. CASE pc' \notin Midst
    BY <1>7 DEF Midst
  <1> QED  BY <1>2, <1>3, <1>4, <1>5, <1>6, <1>7 DEF Midst

LEMMA MidLength ==
  ASSUME IInv, Sending, Proper, NEW lost \in Seq(Bytes), NEW t, NEW c, Mid(lost, t, c),
         RecvLength
  PROVE  Following' \/ Adrift'
  <1>1. /\ UNCHANGED <<roles, senderVars, closed, acted, strings, op>>
        /\ pc = "length" /\ pc' = "string" /\ CanRecvAll(1) /\ Take(Got(1))
        /\ \E x \in Junk : length' = Overlay(<<x>>, Got(1))[1]
    BY DEF RecvLength, Goto
  <1>2. TypeOK /\ op \in Strings(receiver) /\ Len(strings) < StringsOf[op] /\ Len(strings) \in Nat
    <2>1. TypeOK /\ Stage
      BY DEF IInv
    <2>2. strings \in Seq(Seq(Bytes))
      BY <2>1 DEF TypeOK
    <2> QED  BY <1>1, <2>1, <2>2 DEF Stage
  <1>3. Good(c) /\ c.op = op /\ Holds(c) /\ Kept
    BY <1>2, MidOf DEF Mid, Holds
  <1>4. PICK j \in 0 .. StringsOf[c.op] - 1 : j = Len(strings)
    <2>1. StringsOf[c.op] \in 1 .. 3
      BY <1>2, <1>3, Counted
    <2> QED  BY <1>2, <1>3, <2>1
  <1>5. Len(c.data[j + 1]) \in 1 .. 255
    <2>1. StringsOf[c.op] \in 1 .. 3
      BY <1>2, <1>3, Counted
    <2>2. j + 1 \in 1 .. StringsOf[c.op]
      BY <1>4, <2>1
    <2> QED  BY <1>2, <1>3, <2>2, Stringed
  <1>6. PICK p \in Seq(Bytes) : p = <<Len(c.data[j + 1])>>
    <2>1. <<Len(c.data[j + 1])>> \in Seq(Bytes)
      BY <1>5, LengthIsByte
    <2> QED  BY <2>1
  <1>7. PICK r \in Seq(Bytes) : r = c.data[j + 1] \o From(c, j + 1) /\ From(c, j) = p \o r
    <2>1. /\ c.data[j + 1] \in Seq(Bytes) /\ From(c, j + 1) \in Seq(Bytes)
          /\ From(c, j) = <<Len(c.data[j + 1])>> \o (c.data[j + 1] \o From(c, j + 1))
      BY <1>2, <1>3, FromNext
    <2>2. c.data[j + 1] \o From(c, j + 1) \in Seq(Bytes)
      BY <2>1
    <2> QED  BY <1>6, <2>1, <2>2
  <1>8. ToCome(c) = p \o r /\ Len(p) = 1
    BY <1>1, <1>4, <1>6, <1>7 DEF ToCome
  <1>11. wire \in Seq(Bytes) /\ Len(wire) \in Nat
    <2>1. wire \in Seq(Bytes)
      BY <1>2 DEF TypeOK
    <2> QED  BY <2>1
  <1>9. CASE Len(wire) >= 1
    <2>1. Got(1) = 1 /\ Left(lost, r \o t[Len(acted) + 1]) /\ wire[1] = p[1]
      <3>1. Left(lost, r \o t[Len(acted) + 1])
        BY <1>1, <1>2, <1>8, <1>9, PieceLeft
      <3>2. \A i \in 1 .. Len(p) : wire[i] = p[i]
        <4>1. Len(wire) >= Len(p)
          BY <1>8, <1>9
        <4>2. TypeOK /\ ToCome(c) = p \o r
          BY <1>2, <1>8
        <4> QED  BY <4>1, <4>2, PieceIs
      <3> QED  BY <1>8, <1>9, <1>11, <3>1, <3>2, GotThat
    <2>2. length' = Len(c.data[j + 1])
      <3>1. p[1] = Len(c.data[j + 1])
        BY <1>6
      <3> QED  BY <1>1, <2>1, <3>1 DEF Overlay
    <2>3. Holds(c)'
      BY <1>1, <1>3, <1>4, <2>2 DEF Holds
    <2>4. ToCome(c)' = r
      <3>1. pc' = "string" /\ Len(strings') = j
        BY <1>1, <1>4
      <3> QED  BY <1>1, <1>7, <3>1, NextPiece
    <2>5. pc' \in Midst
      BY <1>1 DEF Midst
    <2> QED  BY <1>1, <1>2, <2>1, <2>3, <2>4, <2>5, GoesOnIn
  <1>10. CASE Len(wire) < 1
    <2>1. wire' = <<>>
      BY <1>1, <1>2, <1>8, <1>10, PieceShort
    <2>2. closed
      BY <1>1, <1>10 DEF CanRecvAll
    <2> QED  BY <1>1, <1>3, <2>1, <2>2, CutShort
  <1> QED  BY <1>9, <1>10, <1>11

\* A string that is not complete counts as empty.
LEMMA StringFailed ==
  ASSUME RecvString, ~Complete(Limit(length)), strings \in Seq(Seq(Bytes))
  PROVE  pc' \in {"length", "end"} /\ UNCHANGED acted
  <1> DEFINE ss == Append(strings, <<>>)
  <1>1. \/ ~GoesOn(ss) /\ Goto("end") /\ UNCHANGED acted
        \/ GoesOn(ss) /\ Len(ss) < StringsOf[op] /\ Goto("length") /\ UNCHANGED acted
        \/ GoesOn(ss) /\ Len(ss) = StringsOf[op]
    BY DEF RecvString
  <1>2. <<>> \in Range(ss)
    <2>1. Len(ss) = Len(strings) + 1 /\ Len(ss) \in DOMAIN ss /\ ss[Len(ss)] = <<>>
      OBVIOUS
    <2> QED  BY <2>1 DEF Range
  <1>3. ~(GoesOn(ss) /\ Len(ss) = StringsOf[op])
    BY <1>2 DEF GoesOn, StringsOf
  <1> QED  BY <1>1, <1>3 DEF Goto

LEMMA MidString ==
  ASSUME IInv, Sending, Proper, NEW lost \in Seq(Bytes), NEW t, NEW c, Mid(lost, t, c),
         RecvString
  PROVE  Following' \/ Adrift'
  <1>1. /\ UNCHANGED <<roles, senderVars, closed, op, length>>
        /\ pc = "string" /\ CanRecvAll(Limit(length)) /\ Take(Got(Limit(length)))
    BY DEF RecvString
  <1>2. TypeOK /\ op \in Strings(receiver) /\ Len(strings) < StringsOf[op] /\ Len(strings) \in Nat
        /\ strings \in Seq(Seq(Bytes)) /\ wire \in Seq(Bytes)
    <2>1. TypeOK /\ Stage
      BY DEF IInv
    <2>2. strings \in Seq(Seq(Bytes)) /\ wire \in Seq(Bytes)
      BY <2>1 DEF TypeOK
    <2> QED  BY <1>1, <2>1, <2>2 DEF Stage
  <1>3. Good(c) /\ c.op = op /\ Holds(c) /\ Kept
    BY <1>2, MidOf DEF Mid, Holds
  <1>4. StringsOf[c.op] \in 1 .. 3 /\ Len(c.data) = StringsOf[c.op] /\ c.op \in Strings(receiver)
        /\ c.data \in Seq(Seq(Bytes))
    BY <1>2, <1>3, Stringed DEF Good
  <1>5. PICK j \in 0 .. StringsOf[c.op] - 1 : j = Len(strings)
    BY <1>2, <1>3, <1>4
  <1>6. j + 1 \in 1 .. StringsOf[c.op]
    BY <1>4, <1>5
  <1>7. PICK p \in Seq(Bytes) : p = c.data[j + 1]
    BY <1>3, <1>4, <1>6, Stringed
  <1>8. PICK n \in Nat : Len(p) = n
    OBVIOUS
  <1>9. n > 0 /\ Limit(length) = n
    <2>1. Len(p) \in 1 .. 255 /\ Limit(Len(p)) = Len(p)
      BY <1>3, <1>4, <1>6, <1>7, Stringed
    <2>2. length = Len(p)
      BY <1>1, <1>3, <1>5, <1>7 DEF Holds
    <2> QED  BY <1>8, <2>1, <2>2
  <1>10. PICK r \in Seq(Bytes) : r = From(c, j + 1)
    BY <1>3, <1>4, <1>5, FromNext
  <1>11. ToCome(c) = p \o r /\ Take(Got(n))
    BY <1>1, <1>5, <1>7, <1>9, <1>10 DEF ToCome
  <1>12. CASE Len(wire) >= n
    <2>1. Got(n) = n /\ SubSeq(wire, 1, n) = p /\ Left(lost, r \o t[Len(acted) + 1])
      <3>1. TypeOK
        BY <1>2
      <3>2. ToCome(c) = p \o r /\ Take(Got(n)) /\ Len(p) = n /\ Len(wire) >= n
        BY <1>8, <1>11, <1>12
      <3>3. Got(n) = n
        BY <1>2, <3>2, GotThat
      <3>4. \A i \in 1 .. n : wire[i] = p[i]
        BY <3>1, <3>2, PieceIs
      <3>5. Left(lost, r \o t[Len(acted) + 1])
        BY <3>1, <3>2, PieceLeft
      <3>6. SubSeq(wire, 1, n) = p
        <4>1. SubSeq(wire, 1, n) \in Seq(Bytes) /\ Len(SubSeq(wire, 1, n)) = n
              /\ \A i \in 1 .. n : SubSeq(wire, 1, n)[i] = wire[i]
          BY <1>2, <1>12
        <4> QED  BY <3>2, <3>4, <4>1, SeqEqual
      <3> QED  BY <3>3, <3>5, <3>6
    <2>2. PICK ss : ss = Append(strings, p)
      OBVIOUS
    <2>3. /\ strings' = ss
          /\ \/ ~GoesOn(ss)
             \/ GoesOn(ss) /\ Len(ss) < StringsOf[op] /\ pc' = "length" /\ UNCHANGED acted
             \/ /\ GoesOn(ss) /\ Len(ss) = StringsOf[op] /\ pc' = AfterStrings[op]
                /\ IF op = "AU" THEN CarryOut(NoID, ss) ELSE UNCHANGED acted
      <3>1. Complete(n)
        BY <1>9, <1>12 DEF Complete
      <3> QED  BY <1>9, <2>1, <2>2, <3>1 DEF RecvString, Goto
    <2>4. /\ ss \in Seq(Seq(Bytes)) /\ Len(ss) = j + 1
          /\ \A i \in 1 .. j + 1 : ss[i] = c.data[i]
      <3>1. ss \in Seq(Seq(Bytes)) /\ Len(ss) = j + 1 /\ ss[j + 1] = p
            /\ \A i \in 1 .. j : ss[i] = strings[i]
        BY <1>2, <1>5, <2>2
      <3>2. \A i \in 1 .. j : strings[i] = c.data[i]
        BY <1>1, <1>3, <1>5 DEF Holds
      <3>3. \A i \in 1 .. j + 1 : i \in 1 .. j \/ i = j + 1
        BY <1>4, <1>5
      <3> QED  BY <1>7, <3>1, <3>2, <3>3
    <2>5. GoesOn(ss)
      <3>1. ASSUME NEW i \in 1 .. j + 1 PROVE ss[i] # <<>>
        <4>1. i \in 1 .. StringsOf[c.op]
          BY <1>4, <1>5
        <4>2. c.data[i] \in Seq(Bytes) /\ Len(c.data[i]) \in 1 .. 255
          BY <1>3, <1>4, <4>1, Stringed
        <4>3. ss[i] = c.data[i]
          BY <2>4
        <4>4. c.data[i] # <<>>
          BY <4>2, NotEmpty
        <4> QED  BY <4>3, <4>4, Zenon
      <3>2. DOMAIN ss = 1 .. j + 1
        BY <2>4
      <3> QED  BY <3>1, <3>2 DEF GoesOn, Range
    <2>6. CASE j + 1 < StringsOf[c.op]
      <3>1. pc' = "length" /\ UNCHANGED acted
        BY <1>3, <1>4, <1>5, <2>3, <2>4, <2>5, <2>6
      <3>2. Holds(c)'
        BY <1>1, <1>3, <2>3, <2>4, <3>1 DEF Holds
      <3>3. ToCome(c)' = r
        <4>1. Len(strings') = j + 1
          BY <2>3, <2>4
        <4> QED  BY <1>1, <1>10, <3>1, <4>1, NextPiece
      <3>4. pc' \in Midst
        BY <3>1 DEF Midst
      <3> QED  BY <1>1, <1>2, <2>1, <3>1, <3>2, <3>3, <3>4, GoesOnIn
    <2>7. CASE j + 1 = StringsOf[c.op]
      <3>1. pc' = AfterStrings[op] /\ IF op = "AU" THEN CarryOut(NoID, ss) ELSE UNCHANGED acted
        BY <1>3, <1>4, <1>5, <2>3, <2>4, <2>5, <2>7
      <3>2. ss = c.data
        BY <1>4, <2>4, <2>7, SeqEqual
      <3>3. r = Ending(c)
        BY <1>3, <1>4, <1>10, <2>7, FromEnd
      <3>4. CASE op = "AU"
        <4>1. acted' = Append(acted, c) /\ pc' = "act"
          <5>1. c = [op |-> op, id |-> NoID, data |-> ss]
            BY <1>3, <3>2, <3>4 DEF Good
          <5> QED  BY <3>1, <3>4, <5>1 DEF CarryOut, AfterStrings
        <4>2. Left(lost, t[Len(acted) + 1])
          <5>1. r = <<>>
            BY <1>3, <3>3, <3>4 DEF Ending
          <5>2. t[Len(acted) + 1] \in Seq(Bytes)
            BY MidTyped
          <5>3. <<>> \o t[Len(acted) + 1] = t[Len(acted) + 1]
            BY <5>2
          <5> QED  BY <2>1, <5>1, <5>3
        <4> QED  BY <1>1, <1>2, <4>1, <4>2, IsDone
      <3>5. CASE op # "AU"
        <4>1. op \in {"LL", "RE", "AC", "AL"}
          BY <1>2, <3>5 DEF Strings
        <4>2. pc' = (CASE op = "LL" -> "status" [] op = "RE" -> "answer"
                       [] op = "AC" -> "zone" [] OTHER -> "bytes")
              /\ UNCHANGED acted
          BY <3>1, <4>1 DEF AfterStrings
        <4>3. Holds(c)'
          BY <1>1, <1>3, <2>3, <3>2, <4>1, <4>2 DEF Holds
        <4>4. ToCome(c)' = r
          <5>1. op = "RE" => r = <<>>
            BY <1>3, <3>3 DEF Ending
          <5> QED  BY <1>1, <3>3, <4>1, <4>2, <5>1, NextPiece
        <4>5. pc' \in Midst
          BY <4>1, <4>2 DEF Midst
        <4> QED  BY <1>1, <1>2, <2>1, <4>2, <4>3, <4>4, <4>5, GoesOnIn
      <3> QED  BY <3>4, <3>5
    <2> QED  BY <1>4, <1>6, <2>6, <2>7
  <1>13. CASE Len(wire) < n
    <2>1. wire' = <<>>
      BY <1>2, <1>8, <1>11, <1>13, PieceShort
    <2>2. closed
      BY <1>1, <1>2, <1>9, <1>13 DEF CanRecvAll
    <2>3. ~Complete(Limit(length))
      BY <1>2, <1>9, <1>13 DEF Complete
    <2> QED  BY <1>1, <1>2, <1>3, <2>1, <2>2, <2>3, StringFailed, CutShort
  <1> QED  BY <1>2, <1>12, <1>13

LEMMA OverlayAll ==
  ASSUME NEW n \in Nat, NEW old \in Row(n), NEW s \in Row(n), \A i \in 1 .. n : wire[i] = s[i]
  PROVE  Overlay(old, n) = s
  BY DEF Overlay, Row

\* A command or frame that is done with when nothing of it is to come.
LEMMA NothingLeft ==
  ASSUME Sending, NEW lost \in Seq(Bytes), NEW t, NEW c, Mid(lost, t, c),
         NEW r \in Seq(Bytes), r = <<>>, Left(lost, r \o t[Len(acted) + 1])
  PROVE  Left(lost, t[Len(acted) + 1])
  <1>1. t[Len(acted) + 1] \in Seq(Bytes)
    BY MidTyped
  <1>2. <<>> \o t[Len(acted) + 1] = t[Len(acted) + 1]
    BY <1>1
  <1> QED  BY <1>2

\* The last report, of something that was cut off.
LEMMA OneMore ==
  ASSUME UNCHANGED <<roles, senderVars>>, Kept, receiver = "client", pc' \in {"frame", "end"},
         Len(acted) = Len(sent), NEW b, acted' = Append(acted, b),
         b.op \in {"AC", "LO", "LP", "LU", "?"}
  PROVE  Over'
  <1>1. acted \in Seq(Requests \cup Commands \cup Frames)
    BY DEF Kept
  <1>2. /\ Len(acted') = Len(acted) + 1 /\ acted' # <<>> /\ acted'[Len(acted) + 1] = b
        /\ \A i \in 1 .. Len(acted) : acted'[i] = acted[i]
    BY <1>1
  <1> QED  BY <1>2 DEF Over, Kept, roles, senderVars

LEMMA MidStatus ==
  ASSUME IInv, Sending, Proper, NEW lost \in Seq(Bytes), NEW t, NEW c, Mid(lost, t, c),
         RecvStatus
  PROVE  Following' \/ Adrift'
  <1>1. /\ UNCHANGED <<roles, senderVars, closed, op, strings, acted>>
        /\ pc = "status" /\ CanRecvAll(1) /\ Take(Got(1))
        /\ pc' = IF Got(1) = 1 THEN "answer" ELSE "end"
    BY DEF RecvStatus, Goto
  <1>2. TypeOK /\ wire \in Seq(Bytes)
    BY DEF IInv, TypeOK
  <1>3. c.op = "LL" /\ Holds(c) /\ Kept
    BY <1>1 DEF Mid, Holds
  <1>4. PICK p \in Seq(Bytes) : p = <<0>>
    <2>1. <<0>> \in Seq(Bytes)
      BY DEF Bytes
    <2> QED  BY <2>1
  <1>5. PICK r \in Seq(Bytes) : r = <<>>
    BY Empty
  <1>6. ToCome(c) = p \o r /\ Len(p) = 1
    <2>1. p \o r = p /\ Len(p) = 1
      BY <1>4, <1>5
    <2> QED  BY <1>1, <1>3, <1>4, <2>1 DEF ToCome, Ending
  <1>7. CASE Len(wire) >= 1
    <2>1. Left(lost, r \o t[Len(acted) + 1])
      BY <1>1, <1>2, <1>6, <1>7, PieceLeft
    <2>2. pc' = "answer"
      BY <1>1, <1>2, <1>7, GotThat
    <2>3. Holds(c)'
      BY <1>1, <1>3, <2>2 DEF Holds
    <2>4. ToCome(c)' = r
      BY <1>1, <1>5, <2>2, NextPiece
    <2>5. pc' \in Midst
      BY <2>2 DEF Midst
    <2> QED  BY <1>1, <1>2, <2>1, <2>3, <2>4, <2>5, GoesOnIn
  <1>8. CASE Len(wire) < 1
    <2>1. wire' = <<>>
      BY <1>1, <1>2, <1>6, <1>8, PieceShort
    <2>2. closed /\ pc' = "end"
      BY <1>1, <1>2, <1>8, GotThat DEF CanRecvAll
    <2> QED  BY <1>1, <1>3, <2>1, <2>2, CutShort
  <1> QED  BY <1>2, <1>7, <1>8, GotThat

LEMMA MidAnswer ==
  ASSUME IInv, Sending, Proper, NEW lost \in Seq(Bytes), NEW t, NEW c, Mid(lost, t, c),
         Answer
  PROVE  Following' \/ Refused'
  <1>1. UNCHANGED <<roles, senderVars, closed, wire>> /\ pc = "answer"
    BY DEF Answer
  <1>2. TypeOK /\ wire \in Seq(Bytes) /\ receiver = "server"
    BY <1>1 DEF IInv, TypeOK
  <1>3. c.op \in {"LL", "RE"} /\ c.op = op /\ strings = c.data /\ Kept
    BY <1>1 DEF Mid, Holds
  <1>4. CASE pc' = "act" /\ CarryOut(NoID, strings)
    <2>1. acted' = Append(acted, c)
      <3>1. c = [op |-> op, id |-> NoID, data |-> strings]
        BY <1>2, <1>3, MidOf DEF Good
      <3> QED  BY <1>4, <3>1 DEF CarryOut
    <2>2. Left(lost, t[Len(acted) + 1])
      <3>1. t[Len(acted) + 1] \in Seq(Bytes)
        BY MidTyped
      <3>2. <<>> \o t[Len(acted) + 1] = t[Len(acted) + 1]
        BY <3>1
      <3>3. ToCome(c) = <<>>
        BY <1>1 DEF ToCome
      <3> QED  BY <1>1, <1>2, <3>2, <3>3 DEF Left, Mid
    <2> QED  BY <1>1, <1>2, <1>4, <2>1, <2>2, IsDone
  <1>5. CASE pc' = "end" /\ refused' = TRUE /\ UNCHANGED acted
    BY <1>1, <1>2, <1>3, <1>5 DEF Refused, Kept, roles, senderVars
  <1> QED  BY <1>4, <1>5 DEF Answer, Goto

LEMMA MidZone ==
  ASSUME IInv, Sending, Proper, NEW lost \in Seq(Bytes), NEW t, NEW c, Mid(lost, t, c),
         RecvZone
  PROVE  Following' \/ Adrift'
  <1>1. /\ UNCHANGED <<roles, senderVars, closed, op, strings, acted>>
        /\ pc = "zone" /\ CanRecvAll(1) /\ Take(Got(1)) /\ pc' = "ownid"
    BY DEF RecvZone, Goto
  <1>2. TypeOK /\ wire \in Seq(Bytes)
    BY DEF IInv, TypeOK
  <1>3. Good(c) /\ c.op = "AC" /\ Holds(c) /\ Kept
    BY <1>1, <1>2, MidOf DEF Mid, Holds
  <1>4. PICK p \in Seq(Bytes) : p = <<1>>
    <2>1. <<1>> \in Seq(Bytes)
      BY DEF Bytes
    <2> QED  BY <2>1
  <1>5. PICK r \in Seq(Bytes) : r = Host(c.id)
    BY <1>3, HostTyped DEF Good
  <1>6. ToCome(c) = p \o r /\ Len(p) = 1
    BY <1>1, <1>3, <1>4, <1>5 DEF ToCome, Ending
  <1>7. CASE Len(wire) >= 1
    <2>1. Left(lost, r \o t[Len(acted) + 1])
      BY <1>1, <1>2, <1>6, <1>7, PieceLeft
    <2>2. Holds(c)'
      BY <1>1, <1>3 DEF Holds
    <2>3. ToCome(c)' = r
      BY <1>1, <1>5, NextPiece
    <2>4. pc' \in Midst
      BY <1>1 DEF Midst
    <2> QED  BY <1>1, <1>2, <2>1, <2>2, <2>3, <2>4, GoesOnIn
  <1>8. CASE Len(wire) < 1
    <2>1. wire' = <<>> /\ Len(acted) = Len(sent)
      BY <1>1, <1>2, <1>6, <1>8, PieceShort
    <2>2. closed
      BY <1>1, <1>8 DEF CanRecvAll
    <2>3. op = "AC"
      BY <1>1 DEF Mid, Holds
    <2> QED  BY <1>1, <1>3, <2>1, <2>2, <2>3 DEF Adrift, Kept, senderVars
  <1> QED  BY <1>2, <1>7, <1>8, GotThat

LEMMA MidOwnID ==
  ASSUME IInv, Sending, Proper, NEW lost \in Seq(Bytes), NEW t, NEW c, Mid(lost, t, c),
         RecvOwnID
  PROVE  Following' \/ Adrift'
  <1>1. /\ UNCHANGED <<roles, senderVars, closed, op, strings>>
        /\ pc = "ownid" /\ CanRecvAll(4) /\ Take(Got(4)) /\ pc' = "frame"
        /\ CarryOut(Host(Overlay(ID, Got(4))), strings)
    BY DEF RecvOwnID, Goto
  <1>2. TypeOK /\ wire \in Seq(Bytes) /\ ID \in Row(4) /\ receiver = "client"
    BY <1>1 DEF IInv, TypeOK, Row
  <1>3. Good(c) /\ c.op = "AC" /\ c.op = op /\ strings = c.data /\ Kept /\ c.id \in Row(4)
    BY <1>1, <1>2, MidOf DEF Mid, Holds, Good
  <1>4. Host(c.id) \in Row(4) /\ Host(c.id) \in Seq(Bytes)
    BY <1>3, HostTyped
  <1>5. PICK p \in Seq(Bytes) : p = Host(c.id)
    BY <1>4
  <1>6. PICK r \in Seq(Bytes) : r = <<>>
    BY Empty
  <1>7. ToCome(c) = p \o r /\ Len(p) = 4
    <2>1. p \o r = p
      BY <1>6
    <2>2. Len(p) = 4
      BY <1>4, <1>5, Rows
    <2> QED  BY <1>1, <1>5, <2>1, <2>2 DEF ToCome
  <1>8. CASE Len(wire) >= 4
    <2>1. Left(lost, r \o t[Len(acted) + 1])
      BY <1>1, <1>2, <1>7, <1>8, PieceLeft
    <2>2. Host(Overlay(ID, Got(4))) = c.id
      <3>1. \A i \in 1 .. 4 : wire[i] = p[i]
        <4>1. \A i \in 1 .. Len(p) : wire[i] = p[i]
          <5>1. Len(wire) >= Len(p)
            BY <1>7, <1>8
          <5>2. TypeOK /\ ToCome(c) = p \o r
            BY <1>2, <1>7
          <5> QED  BY <5>1, <5>2, PieceIs
        <4> QED  BY <1>7, <4>1
      <3>2. Overlay(ID, 4) = p
        BY <1>2, <1>4, <1>5, <3>1, OverlayAll
      <3>3. Got(4) = 4
        BY <1>2, <1>8, GotThat
      <3> QED  BY <1>3, <1>5, <3>2, <3>3, HostTwice
    <2>3. acted' = Append(acted, c)
      <3>1. c = [op |-> op, id |-> c.id, data |-> strings]
        BY <1>3 DEF Good
      <3> QED  BY <1>1, <2>2, <3>1 DEF CarryOut
    <2>4. Left(lost, t[Len(acted) + 1])
      BY <1>6, <2>1, NothingLeft
    <2> QED  BY <1>1, <1>2, <2>3, <2>4, IsDone
  <1>9. CASE Len(wire) < 4
    <2>1. wire' = <<>> /\ Len(acted) = Len(sent)
      BY <1>1, <1>2, <1>7, <1>9, PieceShort
    <2>2. closed
      BY <1>1, <1>9 DEF CanRecvAll
    <2>3. Over'
      <3>1. PICK b : acted' = Append(acted, b) /\ b.op = "AC"
        BY <1>1, <1>3 DEF CarryOut
      <3> QED  BY <1>1, <1>2, <1>3, <2>1, <3>1, OneMore
    <2> QED  BY <1>1, <2>1, <2>2, <2>3 DEF Adrift
  <1> QED  BY <1>2, <1>8, <1>9, GotThat

LEMMA MidBytes ==
  ASSUME IInv, Sending, Proper, NEW lost \in Seq(Bytes), NEW t, NEW c, Mid(lost, t, c),
         RecvBytes
  PROVE  Following' \/ Adrift'
  <1>1. /\ UNCHANGED <<roles, senderVars, closed, op, strings, acted>>
        /\ pc = "bytes" /\ CanRecvAll(3) /\ Take(Got(3))
        /\ pc' = IF Got(3) = 3 THEN "contactid" ELSE "end"
    BY DEF RecvBytes, Goto
  <1>2. TypeOK /\ wire \in Seq(Bytes)
    BY DEF IInv, TypeOK
  <1>3. Good(c) /\ c.op = "AL" /\ Holds(c) /\ Kept
    BY <1>1, <1>2, MidOf DEF Mid, Holds
  <1>4. PICK p \in Seq(Bytes) : p = <<0, 1, 1>>
    <2>1. <<0, 1, 1>> \in Seq(Bytes)
      BY DEF Bytes
    <2> QED  BY <2>1
  <1>5. PICK r \in Seq(Bytes) : r = Host(c.id)
    BY <1>3, HostTyped DEF Good
  <1>6. ToCome(c) = p \o r /\ Len(p) = 3
    BY <1>1, <1>3, <1>4, <1>5 DEF ToCome, Ending
  <1>7. CASE Len(wire) >= 3
    <2>1. Left(lost, r \o t[Len(acted) + 1])
      BY <1>1, <1>2, <1>6, <1>7, PieceLeft
    <2>2. pc' = "contactid"
      BY <1>1, <1>2, <1>7, GotThat
    <2>3. Holds(c)'
      BY <1>1, <1>3, <2>2 DEF Holds
    <2>4. ToCome(c)' = r
      BY <1>1, <1>5, <2>2, NextPiece
    <2>5. pc' \in Midst
      BY <2>2 DEF Midst
    <2> QED  BY <1>1, <1>2, <2>1, <2>3, <2>4, <2>5, GoesOnIn
  <1>8. CASE Len(wire) < 3
    <2>1. wire' = <<>>
      BY <1>1, <1>2, <1>6, <1>8, PieceShort
    <2>2. closed /\ pc' = "end"
      BY <1>1, <1>2, <1>8, GotThat DEF CanRecvAll
    <2> QED  BY <1>1, <1>3, <2>1, <2>2, CutShort
  <1> QED  BY <1>2, <1>7, <1>8, GotThat

\* (the ID is received without MSG_WAITALL)
LEMMA MidContactID ==
  ASSUME IInv, Sending, Proper, NEW lost \in Seq(Bytes), NEW t, NEW c, Mid(lost, t, c),
         RecvContactID, whole'
  PROVE  Following'
  <1>1. /\ UNCHANGED <<roles, senderVars, closed, op, strings>>
        /\ pc = "contactid" /\ Take(Got(4)) /\ Got(4) = 4
    BY DEF RecvContactID
  <1>2. TypeOK /\ wire \in Seq(Bytes) /\ ID \in Row(4)
    BY DEF IInv, TypeOK, Row
  <1>3. pc' = "frame" /\ CarryOut(Host(Overlay(ID, Got(4))), strings)
    BY <1>1 DEF RecvContactID, Goto
  <1>4. Good(c) /\ c.op = op /\ strings = c.data /\ c.id \in Row(4)
    BY <1>1, <1>2, MidOf DEF Mid, Holds, Good
  <1>5. Host(c.id) \in Row(4) /\ Host(c.id) \in Seq(Bytes)
    BY <1>4, HostTyped
  <1>6. PICK p \in Seq(Bytes) : p = Host(c.id)
    BY <1>5
  <1>7. PICK r \in Seq(Bytes) : r = <<>>
    BY Empty
  <1>8. ToCome(c) = p \o r /\ Len(p) = 4
    <2>1. p \o r = p
      BY <1>7
    <2>2. Len(p) = 4
      BY <1>5, <1>6, Rows
    <2> QED  BY <1>1, <1>6, <2>1, <2>2 DEF ToCome
  <1>9. Len(wire) >= 4
    BY <1>1, <1>2, GotThat
  <1>10. Left(lost, r \o t[Len(acted) + 1])
    BY <1>1, <1>2, <1>8, <1>9, PieceLeft
  <1>11. Host(Overlay(ID, Got(4))) = c.id
    <2>1. \A i \in 1 .. 4 : wire[i] = p[i]
      <3>1. \A i \in 1 .. Len(p) : wire[i] = p[i]
        <4>1. Len(wire) >= Len(p)
          BY <1>8, <1>9
        <4>2. TypeOK /\ ToCome(c) = p \o r
          BY <1>2, <1>8
        <4> QED  BY <4>1, <4>2, PieceIs
      <3> QED  BY <1>8, <3>1
    <2>2. Overlay(ID, 4) = p
      BY <1>2, <1>5, <1>6, <2>1, OverlayAll
    <2> QED  BY <1>1, <1>4, <1>6, <2>2, HostTwice
  <1>12. acted' = Append(acted, c)
    <2>1. c = [op |-> op, id |-> c.id, data |-> strings]
      BY <1>4 DEF Good
    <2> QED  BY <1>3, <1>11, <2>1 DEF CarryOut
  <1>13. Left(lost, t[Len(acted) + 1])
    BY <1>7, <1>10, NothingLeft
  <1> QED  BY <1>1, <1>2, <1>3, <1>12, <1>13, IsDone

LEMMA Messaged ==
  ASSUME NEW c, Good(c), c.op \in {"MS", "RM"}
  PROVE  /\ c.data[1] \in Seq(Bytes) /\ c.data = <<c.data[1]>>
         /\ Limit(Len(c.data[1])) = Len(c.data[1]) /\ Len(c.data[1]) # 0
         /\ WithLongLength(c.data[1]) = Htons(Len(c.data[1])) \o c.data[1]
         /\ Ntohs(Htons(Len(c.data[1]))) = Len(c.data[1])
         /\ Htons(Len(c.data[1])) \in Seq(Bytes) /\ Len(Htons(Len(c.data[1]))) = 2
  <1>1. c.data \in Seq(Seq(Bytes)) /\ Len(c.data) = 1 /\ Limits(c.op) = MaxBufferLength
    BY DEF Good, DataOf, Limits
  <1>2. c.data[1] \in Seq(Bytes) /\ Len(c.data[1]) \in 1 .. MaxBufferLength
    BY <1>1 DEF Good
  <1>3. Len(c.data[1]) # 0
    BY <1>2, WireAssumption
  <1>4. c.data = <<c.data[1]>>
    BY <1>1
  <1>5. Htons(Len(c.data[1])) \in Seq(Bytes)
    BY <1>2, MessageFits, HtonsTyped
  <1>6. Len(Htons(Len(c.data[1]))) = 2
    BY DEF Htons
  <1> QED  BY <1>2, <1>3, <1>4, <1>5, <1>6, MessageFits

LEMMA MidID ==
  ASSUME IInv, Sending, Proper, NEW lost \in Seq(Bytes), NEW t, NEW c, Mid(lost, t, c),
         RecvID
  PROVE  Following' \/ Adrift'
  <1>1. /\ UNCHANGED <<roles, senderVars, closed, op, strings, acted>>
        /\ pc = "id" /\ CanRecvAll(4) /\ Take(Got(4)) /\ ID' = Overlay(ID, Got(4))
        /\ pc' = IF Got(4) > 0 THEN "size" ELSE "end"
    BY DEF RecvID, Goto
  <1>2. TypeOK /\ wire \in Seq(Bytes) /\ ID \in Row(4)
    BY DEF IInv, TypeOK, Row
  <1>3. Good(c) /\ c.op \in {"MS", "RM"} /\ c.op = op /\ Kept /\ c.id \in Row(4)
    <2>1. Holds(c) /\ Kept
      BY DEF Mid
    <2>2. Good(c)
      BY <1>2, MidOf
    <2>3. c.op = op /\ op \in {"MS", "RM"}
      BY <1>1, <2>1 DEF Holds
    <2> QED  BY <2>1, <2>2, <2>3 DEF Good
  <1>4. Host(c.id) \in Row(4) /\ Host(c.id) \in Seq(Bytes)
    BY <1>3, HostTyped
  <1>5. PICK p \in Seq(Bytes) : p = Host(c.id)
    BY <1>4
  <1>6. PICK r \in Seq(Bytes) : r = WithLongLength(c.data[1])
    BY <1>3, Messaged, LongLengthTyped
  <1>7. ToCome(c) = p \o r /\ Len(p) = 4
    <2>1. Len(p) = 4
      BY <1>4, <1>5, Rows
    <2> QED  BY <1>1, <1>5, <1>6, <2>1 DEF ToCome
  <1>8. CASE Len(wire) >= 4
    <2>1. Left(lost, r \o t[Len(acted) + 1])
      BY <1>1, <1>2, <1>7, <1>8, PieceLeft
    <2>2. Got(4) = 4
      BY <1>2, <1>8, GotThat
    <2>3. pc' = "size"
      BY <1>1, <2>2
    <2>4. ID' = Host(c.id)
      <3>1. \A i \in 1 .. Len(p) : wire[i] = p[i]
        <4>1. Len(wire) >= Len(p)
          BY <1>7, <1>8
        <4>2. TypeOK /\ ToCome(c) = p \o r
          BY <1>2, <1>7
        <4> QED  BY <4>1, <4>2, PieceIs
      <3>2. \A i \in 1 .. 4 : wire[i] = p[i]
        BY <1>7, <3>1
      <3>3. Overlay(ID, 4) = p
        BY <1>2, <1>4, <1>5, <3>2, OverlayAll
      <3> QED  BY <1>1, <1>5, <2>2, <3>3
    <2>5. Holds(c)'
      BY <1>1, <1>3, <2>3, <2>4, HostStays DEF Holds
    <2>6. ToCome(c)' = r
      BY <1>1, <1>6, <2>3, NextPiece
    <2>7. pc' \in Midst
      BY <2>3 DEF Midst
    <2> QED  BY <1>1, <1>2, <2>1, <2>5, <2>6, <2>7, GoesOnIn
  <1>9. CASE Len(wire) < 4
    <2>1. wire' = <<>>
      BY <1>1, <1>2, <1>7, <1>9, PieceShort
    <2>2. closed
      BY <1>1, <1>9 DEF CanRecvAll
    <2> QED  BY <1>1, <1>3, <2>1, <2>2, CutShort
  <1> QED  BY <1>2, <1>8, <1>9, GotThat

LEMMA MidSize ==
  ASSUME IInv, Sending, Proper, NEW lost \in Seq(Bytes), NEW t, NEW c, Mid(lost, t, c),
         RecvSize
  PROVE  Following' \/ Adrift'
  <1>1. /\ UNCHANGED <<roles, senderVars, closed, op, strings, acted>>
        /\ pc = "size" /\ CanRecvAll(2) /\ Take(Got(2))
        /\ \/ Got(2) > 0 /\ pc' = "message" /\ ID' = Host(ID)
           \/ Got(2) = 0 /\ pc' = "end"
        /\ \E x : length' = Ntohs(Overlay(<<x, x>>, Got(2)))
    BY DEF RecvSize, Goto
  <1>2. TypeOK /\ wire \in Seq(Bytes)
    BY DEF IInv, TypeOK
  <1>3. Good(c) /\ c.op \in {"MS", "RM"} /\ c.op = op /\ Kept /\ c.id \in Row(4) /\ ID = Host(c.id)
    <2>1. Holds(c) /\ Kept
      BY DEF Mid
    <2>2. Good(c)
      BY <1>2, MidOf
    <2>3. c.op = op /\ op \in {"MS", "RM"} /\ ID = Host(c.id)
      BY <1>1, <2>1 DEF Holds
    <2> QED  BY <2>1, <2>2, <2>3 DEF Good
  <1>4. PICK p \in Seq(Bytes) : p = Htons(Len(c.data[1]))
    BY <1>3, Messaged
  <1>5. PICK r \in Seq(Bytes) : r = c.data[1]
    BY <1>3, Messaged
  <1>6. ToCome(c) = p \o r /\ Len(p) = 2
    <2>1. WithLongLength(c.data[1]) = p \o r /\ Len(p) = 2
      BY <1>3, <1>4, <1>5, Messaged
    <2> QED  BY <1>1, <2>1 DEF ToCome
  <1>7. CASE Len(wire) >= 2
    <2>1. Left(lost, r \o t[Len(acted) + 1])
      BY <1>1, <1>2, <1>6, <1>7, PieceLeft
    <2>2. Got(2) = 2
      BY <1>2, <1>7, GotThat
    <2>3. pc' = "message" /\ ID' = c.id
      BY <1>1, <1>3, <2>2, HostTwice
    <2>4. length' = Len(c.data[1])
      <3>1. \A i \in 1 .. Len(p) : wire[i] = p[i]
        <4>1. Len(wire) >= Len(p)
          BY <1>6, <1>7
        <4>2. TypeOK /\ ToCome(c) = p \o r
          BY <1>2, <1>6
        <4> QED  BY <4>1, <4>2, PieceIs
      <3>2. wire[1] = p[1] /\ wire[2] = p[2]
        BY <1>6, <3>1
      <3>3. PICK x : length' = Ntohs(Overlay(<<x, x>>, 2))
        BY <1>1, <2>2
      <3>4. Overlay(<<x, x>>, 2)[1] = wire[1] /\ Overlay(<<x, x>>, 2)[2] = wire[2]
        BY DEF Overlay
      <3>5. length' = Ntohs(p)
        BY <3>2, <3>3, <3>4 DEF Ntohs
      <3> QED  BY <1>3, <1>4, <3>5, Messaged
    <2>5. Holds(c)'
      BY <1>1, <1>3, <2>3, <2>4 DEF Holds
    <2>6. ToCome(c)' = r
      BY <1>1, <1>5, <2>3, NextPiece
    <2>7. pc' \in Midst
      BY <2>3 DEF Midst
    <2> QED  BY <1>1, <1>2, <2>1, <2>5, <2>6, <2>7, GoesOnIn
  <1>8. CASE Len(wire) < 2
    <2>1. wire' = <<>>
      BY <1>1, <1>2, <1>6, <1>8, PieceShort
    <2>2. closed
      BY <1>1, <1>8 DEF CanRecvAll
    <2> QED  BY <1>1, <1>3, <2>1, <2>2, CutShort
  <1> QED  BY <1>2, <1>7, <1>8, GotThat

LEMMA MidMessage ==
  ASSUME IInv, Sending, Proper, NEW lost \in Seq(Bytes), NEW t, NEW c, Mid(lost, t, c),
         RecvMessage
  PROVE  Following' \/ Adrift'
  <1>1. /\ UNCHANGED <<roles, senderVars, closed, op>>
        /\ pc = "message" /\ CanRecvAll(Limit(length)) /\ Take(Got(Limit(length)))
    BY DEF RecvMessage
  <1>2. TypeOK /\ wire \in Seq(Bytes)
    BY DEF IInv, TypeOK
  <1>3. /\ Good(c) /\ c.op \in {"MS", "RM"} /\ c.op = op /\ Kept
        /\ ID = c.id /\ length = Len(c.data[1])
    BY <1>1, <1>2, MidOf DEF Mid, Holds
  <1>4. PICK p \in Seq(Bytes) : p = c.data[1] /\ c.data = <<p>>
    BY <1>3, Messaged
  <1>5. PICK n \in Nat : Len(p) = n
    OBVIOUS
  <1>6. n > 0 /\ Limit(length) = n
    <2>1. Limit(Len(p)) = Len(p) /\ Len(p) # 0
      BY <1>3, <1>4, Messaged
    <2>2. length = Len(p)
      BY <1>3, <1>4
    <2> QED  BY <1>5, <2>1, <2>2
  <1>7. PICK r \in Seq(Bytes) : r = <<>>
    BY Empty
  <1>8. ToCome(c) = p \o r /\ Take(Got(n))
    <2>1. p \o r = p
      BY <1>7
    <2> QED  BY <1>1, <1>4, <1>6, <2>1 DEF ToCome
  <1>9. CASE Len(wire) >= n
    <2>1. Left(lost, r \o t[Len(acted) + 1])
      BY <1>2, <1>5, <1>8, <1>9, PieceLeft
    <2>2. SubSeq(wire, 1, n) = p
      <3>1. \A i \in 1 .. Len(p) : wire[i] = p[i]
        BY <1>2, <1>5, <1>8, <1>9, PieceIs
      <3>2. SubSeq(wire, 1, n) \in Seq(Bytes) /\ Len(SubSeq(wire, 1, n)) = n
            /\ \A i \in 1 .. n : SubSeq(wire, 1, n)[i] = wire[i]
        BY <1>2, <1>9
      <3> QED  BY <1>5, <3>1, <3>2, SeqEqual
    <2>3. CarryOut(ID, <<p>>) /\ pc' \in {"act", "frame"}
      <3>1. Complete(n)
        BY <1>6, <1>9 DEF Complete
      <3> QED  BY <1>6, <2>2, <3>1 DEF RecvMessage, Goto
    <2>4. acted' = Append(acted, c)
      <3>1. c = [op |-> op, id |-> ID, data |-> <<p>>]
        BY <1>3, <1>4 DEF Good
      <3> QED  BY <2>3, <3>1 DEF CarryOut
    <2>5. Left(lost, t[Len(acted) + 1])
      BY <1>7, <2>1, NothingLeft
    <2> QED  BY <1>1, <1>2, <2>3, <2>4, <2>5, IsDone
  <1>10. CASE Len(wire) < n
    <2>1. wire' = <<>>
      BY <1>2, <1>5, <1>8, <1>10, PieceShort
    <2>2. closed
      BY <1>1, <1>6, <1>10 DEF CanRecvAll
    <2>3. pc' = "end" /\ UNCHANGED acted
      BY <1>6, <1>10 DEF RecvMessage, Complete, Goto
    <2> QED  BY <1>1, <1>3, <2>1, <2>2, <2>3, CutShort
  <1> QED  BY <1>2, <1>9, <1>10, GotThat

-----------------------------------------------------------------------------
(* The receives between two commands or frames.                            *)

\* The letters of the next one are received.
Begun(lost, t, c) ==
    /\ Good(c) /\ c \in Requests \cup Commands \cup Frames
    /\ c \in Sendable(Len(acted) + 1) /\ c = Nth(Len(acted) + 1)
    /\ Len(acted) + 1 \in 1 .. Count(lost)
    /\ \A i \in 1 .. 2 : wire[i] = Letters[c.op][i]
    /\ Left(lost, Rest(c) \o t[Len(acted) + 1])

LEMMA BetweenTyped ==
  ASSUME Sending, NEW lost \in Seq(Bytes), NEW t, Between(lost, t)
  PROVE  Len(acted) \in Nat /\ Count(lost) \in Nat /\ Len(acted) <= Count(lost)
  BY DEF Between, Kept, Sending, Count

\* When everything was received, no more is there.
LEMMA NoneLeft ==
  ASSUME Sending, NEW lost \in Seq(Bytes), NEW t, Between(lost, t), wire \in Seq(Bytes),
         Len(acted) = Count(lost)
  PROVE  wire = <<>>
  <1>1. wire \o lost = <<>>
    BY DEF Between, Stream
  <1>2. Len(wire \o lost) = Len(wire) + Len(lost)
    BY ConcatProperties
  <1> QED  BY <1>1, <1>2

Coming(lost, t, m, c) ==
    /\ Good(c) /\ c \in Requests \cup Commands \cup Frames
    /\ c \in Sendable(m) /\ c = Nth(m)
    /\ wire \o lost = Letters[c.op] \o (Rest(c) \o t[m])
    /\ Letters[c.op] \in Seq(Bytes) /\ Len(Letters[c.op]) = 2
    /\ Rest(c) \in Seq(Bytes) /\ t[m] \in Seq(Bytes)

LEMMA NextOne ==
  ASSUME TypeOK, Sending, Proper, NEW lost \in Seq(Bytes), NEW t, Between(lost, t),
         NEW m \in 1 .. Count(lost), m = Len(acted) + 1
  PROVE  \E c : Coming(lost, t, m, c)
  <1>1. Stream(lost, t) /\ wire \o lost = t[Len(acted)]
    BY DEF Between
  <1>2. PICK c : c = Nth(m)
    OBVIOUS
  <1>3. c \in Sendable(m) /\ c \in Requests \cup Commands \cup Frames /\ Good(c)
    BY <1>1, <1>2, NthGood
  <1>4. receiver \in {"server", "client"}
    BY DEF TypeOK
  <1>5. /\ Letters[c.op] \in Seq(Bytes) /\ Len(Letters[c.op]) = 2
        /\ Encoded(c) = Letters[c.op] \o Rest(c)
    BY <1>3, <1>4, EncodedGood, Rows
  <1>6. Rest(c) \in Seq(Bytes)
    BY <1>3, <1>4, RestTyped
  <1>7. t[m] \in Seq(Bytes) /\ Len(acted) \in Nat
    BY <1>1, StreamTyped, BetweenTyped
  <1>8. t[m - 1] = Encoded(c) \o t[m]
    BY <1>1, <1>2 DEF Stream
  <1>9. m - 1 = Len(acted)
    BY <1>7
  <1>10. (Letters[c.op] \o Rest(c)) \o t[m] = Letters[c.op] \o (Rest(c) \o t[m])
    BY <1>5, <1>6, <1>7, Assoc
  <1> QED  BY <1>1, <1>2, <1>3, <1>5, <1>6, <1>7, <1>8, <1>9, <1>10 DEF Coming

LEMMA Begins ==
  ASSUME TypeOK, Sending, Proper, NEW lost \in Seq(Bytes), NEW t, Between(lost, t),
         Take(Got(2)), Len(wire) >= 2
  PROVE  Got(2) = 2 /\ \E c : Begun(lost, t, c)
  <1>1. PICK s \in Seq(Bytes) : s = wire
    BY DEF TypeOK
  <1>2. Len(acted) # Count(lost)
    <2>1. wire # <<>>
      BY <1>1
    <2> QED  BY <1>1, <2>1, NoneLeft
  <1>3. PICK m \in 1 .. Count(lost) : m = Len(acted) + 1
    BY <1>2, BetweenTyped
  <1>4. PICK c : Coming(lost, t, m, c)
    BY <1>3, NextOne
  <1>5. /\ wire \o lost = Letters[c.op] \o (Rest(c) \o t[m])
        /\ Letters[c.op] \in Seq(Bytes) /\ Len(Letters[c.op]) = 2
        /\ Rest(c) \in Seq(Bytes) /\ t[m] \in Seq(Bytes)
    BY <1>4 DEF Coming
  <1>6. PICK p \in Seq(Bytes) : p = Letters[c.op]
    BY <1>5
  <1>7. PICK r \in Seq(Bytes) : r = Rest(c)
    BY <1>5
  <1>8. PICK q \in Seq(Bytes) : q = r \o t[m]
    <2>1. t[m] \in Seq(Bytes)
      BY <1>5
    <2>2. r \o t[m] \in Seq(Bytes)
      BY <2>1
    <2> QED  BY <2>2
  <1>9. s \o lost = p \o q /\ Len(s) >= Len(p) /\ Len(p) = 2
    BY <1>1, <1>5, <1>6, <1>7, <1>8
  <1>10. \A i \in 1 .. Len(p) : s[i] = p[i]
    BY <1>9, Arrived
  <1>11. SubSeq(s, Len(p) + 1, Len(s)) \o lost = q
    BY <1>9, Behind, Zenon
  <1>12. Got(2) = 2
    BY <1>1, GotThat
  <1>13. wire' = SubSeq(s, Len(p) + 1, Len(s)) /\ SubSeq(s, Len(p) + 1, Len(s)) \in Seq(Bytes)
    BY <1>1, <1>9, <1>12 DEF Take
  <1>14. Left(lost, Rest(c) \o t[m])
    BY <1>7, <1>8, <1>11, <1>13 DEF Left
  <1>15. \A i \in 1 .. 2 : wire[i] = Letters[c.op][i]
    BY <1>1, <1>6, <1>9, <1>10
  <1>16. Begun(lost, t, c)
    BY <1>3, <1>4, <1>14, <1>15 DEF Begun, Coming
  <1> QED  BY <1>12, <1>16

LEMMA BreaksOff ==
  ASSUME TypeOK, Sending, Proper, NEW lost \in Seq(Bytes), NEW t, Between(lost, t),
         Take(Got(2)), Len(wire) < 2
  PROVE  /\ Got(2) = Len(wire) /\ wire' = <<>>
         /\ wire # <<>> => Len(acted) = Len(sent)
  <1>1. PICK s \in Seq(Bytes) : s = wire
    BY DEF TypeOK
  <1>2. Got(2) = Len(wire)
    BY <1>1, GotThat
  <1>3. wire' = <<>>
    BY <1>1, <1>2 DEF Take
  <1>4. ASSUME wire # <<>> PROVE Len(acted) = Len(sent)
    <2>1. Len(acted) # Count(lost)
      BY <1>1, <1>4, NoneLeft
    <2>2. PICK m \in 1 .. Count(lost) : m = Len(acted) + 1
      BY <2>1, BetweenTyped
    <2>3. PICK c : Coming(lost, t, m, c)
      BY <2>2, NextOne
    <2>4. /\ wire \o lost = Letters[c.op] \o (Rest(c) \o t[m])
          /\ Letters[c.op] \in Seq(Bytes) /\ Len(Letters[c.op]) = 2
          /\ Rest(c) \in Seq(Bytes) /\ t[m] \in Seq(Bytes)
      BY <2>3 DEF Coming
    <2>5. PICK p \in Seq(Bytes) : p = Letters[c.op]
      BY <2>4
    <2>6. PICK r \in Seq(Bytes) : r = Rest(c)
      BY <2>4
    <2>7. PICK q \in Seq(Bytes) : q = r \o t[m]
      <3>1. t[m] \in Seq(Bytes)
        BY <2>4
      <3>2. r \o t[m] \in Seq(Bytes)
        BY <3>1
      <3> QED  BY <3>2
    <2>8. s \o lost = p \o q /\ Len(s) < Len(p)
      BY <1>1, <2>4, <2>5, <2>6, <2>7
    <2>9. Len(r \o t[m]) < Len(lost)
      BY <2>7, <2>8, TooShort
    <2>10. m = Len(sent) + 1
      BY <2>9, BrokeOff DEF Between
    <2>11. Len(acted) \in Nat /\ Len(sent) \in Nat
      BY BetweenTyped DEF Sending
    <2> QED  BY <2>2, <2>10, <2>11
  <1> QED  BY <1>2, <1>3, <1>4

LEMMA Starts ==
  ASSUME Sending, NEW lost \in Seq(Bytes), NEW t, NEW c, Between(lost, t), Begun(lost, t, c),
         UNCHANGED <<roles, senderVars, closed, acted>>,
         pc' \in Midst, Holds(c)', ToCome(c)' = Rest(c)
  PROVE  Following'
  <1>1. Stream(lost, t)' /\ Count(lost)' = Count(lost) /\ \A i : Nth(i)' = Nth(i)
    BY StreamStays DEF Between
  <1>2. Mid(lost, t, c)'
    <2>1. Kept'
      BY DEF Between, Kept, senderVars
    <2>2. c = Nth(Len(acted) + 1)' /\ Len(acted') < Count(lost)'
      BY <1>1, BetweenTyped DEF Begun
    <2> QED  BY <1>1, <2>1, <2>2 DEF Mid, Begun, Left
  <1>3. t \in [0 .. Count(lost)' -> Seq(Bytes)] /\ c \in Requests \cup Commands \cup Frames
    BY <1>1 DEF Between, Stream, Begun
  <1> QED  BY <1>2, <1>3 DEF Following

LEMMA BetweenRequest ==
  ASSUME IInv, Sending, Proper, NEW lost \in Seq(Bytes), NEW t, Between(lost, t),
         RecvRequest, whole'
  PROVE  Following'
  <1>1. /\ UNCHANGED <<roles, senderVars, closed, strings, acted>>
        /\ pc = "auth" /\ Take(Got(2)) /\ Got(2) = 2
    BY DEF RecvRequest
  <1>2. TypeOK /\ wire \in Seq(Bytes) /\ receiver = "server" /\ strings = <<>>
    BY <1>1 DEF IInv, TypeOK, Stage
  <1>3. Len(wire) >= 2
    BY <1>1, <1>2, GotThat
  <1>4. PICK c : Begun(lost, t, c)
    BY <1>1, <1>2, <1>3, Begins
  <1>5. c.op \in {"LL", "RE"} /\ Good(c)
    <2>1. Len(acted) = 0
      BY <1>1 DEF Between
    <2>2. c \in Requests
      BY <1>2, <1>4, <2>1 DEF Begun, Sendable
    <2> QED  BY <1>4, <2>2, SentTyped DEF Begun
  <1>6. Letters[c.op] \in Row(2) /\ Letters[c.op] = Macro(c.op)
    BY <1>2, <1>5, EncodedGood DEF Good, Known
  <1>7. pc' = "length" /\ op' = c.op
    <2>1. PICK x, y \in Junk :
             LET request == Overlay(<<x, y>>, 2)
             IN  \/ \E o \in {"LL", "RE"} : request = Macro(o) /\ op' = o /\ pc' = "length"
                 \/ request \notin {Macro("LL"), Macro("RE")}
      BY <1>1 DEF RecvRequest, Goto
    <2>2. <<x, y>> \in Row(2)
      BY JunkTyped DEF Row
    <2>3. \A i \in 1 .. 2 : wire[i] = Letters[c.op][i]
      BY <1>4 DEF Begun
    <2>4. Overlay(<<x, y>>, 2) = Macro(c.op)
      BY <1>6, <2>2, <2>3, OverlayAll
    <2>5. Macro(c.op) \in {Macro("LL"), Macro("RE")}
      BY <1>5
    <2>6. PICK o \in {"LL", "RE"} : Macro(c.op) = Macro(o) /\ op' = o /\ pc' = "length"
      BY <2>1, <2>4, <2>5
    <2>7. o = c.op
      BY <1>5, <2>6, MacrosDiffer
    <2> QED  BY <2>6, <2>7
  <1>8. Holds(c)'
    <2>1. strings' = <<>>
      BY <1>1, <1>2
    <2> QED  BY <1>7, <2>1 DEF Holds
  <1>9. ToCome(c)' = Rest(c)
    <2>1. Len(strings') = 0
      BY <1>1, <1>2
    <2>2. Rest(c) = From(c, 0)
      BY <1>5 DEF Rest
    <2> QED  BY <1>1, <1>7, <2>1, <2>2, NextPiece
  <1>10. pc' \in Midst
    BY <1>7 DEF Midst
  <1> QED  BY <1>1, <1>4, <1>8, <1>9, <1>10, Starts

LEMMA BetweenCommand ==
  ASSUME IInv, Sending, Proper, NEW lost \in Seq(Bytes), NEW t, Between(lost, t), RecvCommand
  PROVE  Following' \/ Adrift'
  <1> DEFINE command == Overlay(Befehl, Got(2))
             Is(o)   == Got(2) > 0 /\ Host(command) = Macro(o)
  <1>1. /\ UNCHANGED <<roles, senderVars, closed, acted>>
        /\ pc = "act" /\ CanRecvAll(2) /\ Take(Got(2))
    BY DEF RecvCommand
  <1>2. TypeOK /\ wire \in Seq(Bytes) /\ receiver = "server" /\ Befehl \in Row(2)
    BY <1>1 DEF IInv, TypeOK, Row
  <1>3. \/ Is("MS") /\ pc' = "id" /\ op' = "MS"
        \/ Is("AU") /\ pc' = "length" /\ op' = "AU" /\ strings' = <<>>
        \/ Is("AO") /\ pc' = "flag"
        \/ (\A o \in {"MS", "AU", "AO"} : ~Is(o)) /\ pc' \in {"act", "end"}
    BY DEF RecvCommand, Goto
  <1>4. CASE Len(wire) >= 2
    <2>1. Got(2) = 2 /\ \E c : Begun(lost, t, c)
      BY <1>1, <1>2, <1>4, Begins
    <2>2. PICK c : Begun(lost, t, c)
      BY <2>1
    <2>3. c.op \in {"MS", "AU"} /\ Good(c)
      <3>1. Len(acted) + 1 # 1
        BY <1>1, BetweenTyped DEF Between
      <3>2. c \in Commands
        BY <1>2, <2>2, <3>1 DEF Begun, Sendable
      <3> QED  BY <1>2, <2>2, <3>2, SentTyped DEF Begun, Good
    <2>4. Letters[c.op] \in Row(2) /\ Host(Letters[c.op]) = Macro(c.op)
      BY <1>2, <2>3, EncodedGood DEF Good, Known
    <2>5. command = Letters[c.op]
      <3>1. \A i \in 1 .. 2 : wire[i] = Letters[c.op][i]
        BY <2>2 DEF Begun
      <3> QED  BY <1>2, <2>1, <2>4, <3>1, OverlayAll
    <2>6. \A o \in {"MS", "AU", "AO"} : Is(o) <=> o = c.op
      BY <2>1, <2>3, <2>4, <2>5, MacrosDiffer
    <2> HIDE DEF Is
    <2>7. \/ pc' = "id" /\ op' = "MS" /\ c.op = "MS"
          \/ pc' = "length" /\ op' = "AU" /\ strings' = <<>> /\ c.op = "AU"
      BY <1>3, <2>3, <2>6
    <2>8. Holds(c)' /\ pc' \in Midst
      BY <2>7 DEF Holds, Midst
    <2>9. ToCome(c)' = Rest(c)
      <3>1. CASE c.op = "MS"
        BY <1>1, <2>7, <3>1, NextPiece DEF Rest
      <3>2. CASE c.op = "AU"
        <4>1. pc' = "length" /\ Len(strings') = 0 /\ Rest(c) = From(c, 0)
          BY <2>7, <3>2 DEF Rest
        <4> QED  BY <1>1, <4>1, NextPiece
      <3> QED  BY <2>3, <3>1, <3>2
    <2> QED  BY <1>1, <2>2, <2>8, <2>9, Starts
  <1>5. CASE Len(wire) < 2
    <2>1. wire' = <<>>
      BY <1>1, <1>2, <1>5, BreaksOff
    <2>2. closed
      BY <1>1, <1>5 DEF CanRecvAll
    <2>3. pc' \in {"id", "length", "flag", "act", "end"} /\ Kept
      BY <1>3 DEF Between
    <2> QED  BY <1>1, <2>1, <2>2, <2>3, CutShort
  <1> QED  BY <1>2, <1>4, <1>5, GotThat

LEMMA BetweenFrame ==
  ASSUME IInv, Sending, Proper, NEW lost \in Seq(Bytes), NEW t, Between(lost, t), RecvFrame
  PROVE  Following' \/ Adrift'
  <1> DEFINE command == Overlay(Befehl, Got(2))
             Is(o)   == Got(2) > 0 /\ command = Letters[o]
             Report(o) == [op |-> o, id |-> NoID, data |-> <<>>]
  <1>1. /\ UNCHANGED <<roles, senderVars, closed>>
        /\ pc = "frame" /\ CanRecvAll(2) /\ Take(Got(2)) /\ strings' = <<>>
    BY DEF RecvFrame
  <1>2. TypeOK /\ wire \in Seq(Bytes) /\ receiver = "client" /\ Befehl \in Row(2)
    BY <1>1 DEF IInv, TypeOK, Row
  <1>3. \/ \E o \in {"LO", "LP", "LU"} :
              Is(o) /\ pc' = "frame" /\ acted' = Append(acted, Report(o))
        \/ Is("RM") /\ op' = "RM" /\ pc' = "id" /\ UNCHANGED acted
        \/ \E o \in {"AC", "AL"} : Is(o) /\ op' = o /\ pc' = "length" /\ UNCHANGED acted
        \/ /\ Got(2) > 0 /\ \A o \in {"LO", "LP", "LU", "RM", "AC", "AL"} : ~Is(o)
           /\ pc' = "frame" /\ acted' = Append(acted, Report("?"))
        \/ Got(2) = 0 /\ pc' = "end" /\ UNCHANGED acted
    BY DEF RecvFrame, Goto
  <1>4. CASE Len(wire) >= 2
    <2>1. Got(2) = 2 /\ \E c : Begun(lost, t, c)
      BY <1>1, <1>2, <1>4, Begins
    <2>2. PICK c : Begun(lost, t, c)
      BY <2>1
    <2>3. c.op \in {"LO", "LP", "LU", "AC", "AL", "RM"} /\ Good(c)
      BY <1>2, <2>2 DEF Begun, Good
    <2>4. Letters[c.op] \in Row(2)
      BY <1>2, <2>3, EncodedGood
    <2>5. command = Letters[c.op]
      <3>1. \A i \in 1 .. 2 : wire[i] = Letters[c.op][i]
        BY <2>2 DEF Begun
      <3> QED  BY <1>2, <2>1, <2>4, <3>1, OverlayAll
    <2>6. \A o \in {"LO", "LP", "LU", "RM", "AC", "AL"} : Is(o) <=> o = c.op
      BY <2>1, <2>3, <2>5, LettersDiffer
    <2>7. CASE c.op \in {"LO", "LP", "LU"}
      <3>1. pc' = "frame" /\ acted' = Append(acted, Report(c.op))
        <4> HIDE DEF Is, Report
        <4> QED  BY <1>3, <2>1, <2>6, <2>7
      <3>2. c = Report(c.op)
        <4>1. c.data \in Seq(Seq(Bytes)) /\ Len(c.data) = 0
          BY <2>3, <2>7 DEF Good, DataOf
        <4>2. c.data = <<>>
          BY <4>1
        <4> QED  BY <2>3, <2>7, <4>2 DEF Good
      <3>3. Left(lost, t[Len(acted) + 1])
        <4>1. t[Len(acted) + 1] \in Seq(Bytes)
          BY <2>2, StreamTyped DEF Between, Begun
        <4>2. Rest(c) = <<>>
          BY <2>7 DEF Rest
        <4>3. <<>> \o t[Len(acted) + 1] = t[Len(acted) + 1]
          BY <4>1
        <4> QED  BY <2>2, <4>2, <4>3 DEF Begun
      <3> HIDE DEF Report
      <3>4. acted' = Append(acted, c)
        BY <3>1, <3>2
      <3>5. /\ Stream(lost, t) /\ Kept /\ Len(acted) + 1 \in 1 .. Count(lost)
            /\ c \in Requests \cup Commands \cup Frames /\ c = Nth(Len(acted) + 1)
        BY <2>2 DEF Between, Begun
      <3> QED  BY <1>1, <3>1, <3>3, <3>4, <3>5, Done
    <2>8. CASE c.op \in {"AC", "AL", "RM"}
      <3>1. /\ op' = c.op /\ UNCHANGED acted
            /\ pc' = IF c.op = "RM" THEN "id" ELSE "length"
        <4> HIDE DEF Is, Report
        <4> QED  BY <1>3, <2>1, <2>6, <2>8
      <3>2. Holds(c)' /\ pc' \in Midst
        BY <1>1, <2>8, <3>1 DEF Holds, Midst
      <3>3. ToCome(c)' = Rest(c)
        <4>1. CASE c.op = "RM"
          BY <1>1, <3>1, <4>1, NextPiece DEF Rest
        <4>2. CASE c.op # "RM"
          <5>1. pc' = "length" /\ Len(strings') = 0 /\ Rest(c) = From(c, 0)
            BY <1>1, <2>8, <3>1, <4>2 DEF Rest
          <5> QED  BY <1>1, <5>1, NextPiece
        <4> QED  BY <4>1, <4>2
      <3> QED  BY <1>1, <2>2, <3>1, <3>2, <3>3, Starts
    <2> QED  BY <2>3, <2>7, <2>8
  <1>5. CASE Len(wire) < 2
    <2>1. Got(2) = Len(wire) /\ wire' = <<>> /\ (wire # <<>> => Len(acted) = Len(sent))
      BY <1>1, <1>2, <1>5, BreaksOff
    <2>2. closed /\ Kept
      BY <1>1, <1>5 DEF CanRecvAll, Between
    <2>3. CASE UNCHANGED acted
      <3>1. pc' \in {"id", "length", "frame", "end"}
        BY <1>3
      <3> QED  BY <1>1, <2>1, <2>2, <2>3, <3>1, CutShort
    <2>4. CASE acted' # acted
      <3>1. PICK o \in {"LO", "LP", "LU", "?"} :
                Got(2) > 0 /\ pc' = "frame" /\ acted' = Append(acted, Report(o))
        <4> HIDE DEF Report
        <4> QED  BY <1>3, <2>4
      <3>2. Len(acted) = Len(sent)
        <4>1. wire # <<>>
          BY <2>1, <3>1
        <4> QED  BY <2>1, <4>1
      <3>3. Over'
        <4>1. PICK b : b = Report(o)
          OBVIOUS
        <4>2. b.op \in {"AC", "LO", "LP", "LU", "?"}
          BY <4>1
        <4> HIDE DEF Report
        <4> QED  BY <1>1, <1>2, <2>2, <3>1, <3>2, <4>1, <4>2, OneMore
      <3> QED  BY <1>1, <2>1, <2>2, <3>1, <3>3 DEF Adrift
    <2> QED  BY <2>3, <2>4
  <1> QED  BY <1>2, <1>4, <1>5, GotThat

-----------------------------------------------------------------------------
(* The steps of the receiver.                                              *)

LEMMA NothingTaken ==
  ASSUME wire = <<>>, NEW n \in Nat, Take(Got(n))
  PROVE  Got(n) = 0 /\ wire' = <<>>
  <1>1. Len(wire) = 0
    OBVIOUS
  <1>2. Got(n) = 0
    BY <1>1 DEF Got, Least
  <1> QED  BY <1>2 DEF Take

\* Who has nothing left to receive gets nothing any more.
LEMMA AdriftStep ==
  ASSUME IInv, Adrift, Recv \/ Server \/ TestClient
  PROVE  Adrift'
  <1>1. /\ closed /\ wire = <<>> /\ (pc \notin {"frame", "end"} => Kept)
        /\ pc \in {"length", "string", "id", "size", "message", "act", "flag", "frame",
                   "ownid", "end"}
    BY DEF Adrift, Over
  <1>2. TypeOK /\ Limit(length) \in Nat /\ strings \in Seq(Seq(Bytes)) /\ Len(wire) = 0
    <2>1. TypeOK
      BY DEF IInv
    <2>2. Len(wire) = 0
      BY <1>1
    <2> QED  BY <2>1, <2>2, LimitTyped DEF TypeOK
  <1>3. ~Complete(Limit(length))
    BY <1>2 DEF Complete
  <1>4. CASE RecvLength
    <2>1. /\ UNCHANGED <<roles, senderVars, closed, acted>> /\ Take(Got(1))
          /\ pc = "length" /\ pc' = "string"
      BY <1>4 DEF RecvLength, Goto
    <2>2. wire' = <<>>
      BY <1>1, <2>1, NothingTaken
    <2> QED  BY <1>1, <2>1, <2>2, CutShort
  <1>5. CASE RecvString
    <2>1. /\ UNCHANGED <<roles, senderVars, closed>> /\ Take(Got(Limit(length)))
          /\ pc = "string"
      BY <1>5 DEF RecvString
    <2>2. pc' \in {"length", "end"} /\ UNCHANGED acted
      BY <1>2, <1>3, <1>5, StringFailed
    <2>3. wire' = <<>>
      BY <1>1, <1>2, <2>1, NothingTaken
    <2> QED  BY <1>1, <2>1, <2>2, <2>3, CutShort
  <1>6. CASE RecvID
    <2>1. /\ UNCHANGED <<roles, senderVars, closed, acted>> /\ Take(Got(4))
          /\ pc = "id" /\ pc' \in {"size", "end"}
      BY <1>6 DEF RecvID, Goto
    <2>2. wire' = <<>>
      BY <1>1, <2>1, NothingTaken
    <2> QED  BY <1>1, <2>1, <2>2, CutShort
  <1>7. CASE RecvSize
    <2>1. /\ UNCHANGED <<roles, senderVars, closed, acted>> /\ Take(Got(2))
          /\ pc = "size" /\ pc' \in {"message", "end"}
      BY <1>7 DEF RecvSize, Goto
    <2>2. wire' = <<>>
      BY <1>1, <2>1, NothingTaken
    <2> QED  BY <1>1, <2>1, <2>2, CutShort
  <1>8. CASE RecvMessage
    <2>1. /\ UNCHANGED <<roles, senderVars, closed, acted>> /\ Take(Got(Limit(length)))
          /\ pc = "message" /\ pc' = "end"
      BY <1>3, <1>8 DEF RecvMessage, Goto
    <2>2. wire' = <<>>
      BY <1>1, <1>2, <2>1, NothingTaken
    <2> QED  BY <1>1, <2>1, <2>2, CutShort
  <1>9. CASE RecvCommand
    <2>1. /\ UNCHANGED <<roles, senderVars, closed, acted>> /\ Take(Got(2))
          /\ pc = "act" /\ pc' \in {"id", "length", "flag", "act", "end"}
      BY <1>9 DEF RecvCommand, Goto
    <2>2. wire' = <<>>
      BY <1>1, <2>1, NothingTaken
    <2> QED  BY <1>1, <2>1, <2>2, CutShort
  <1>10. CASE RecvFlag
    <2>1. /\ UNCHANGED <<roles, senderVars, closed>> /\ Take(Got(1)) /\ pc = "flag"
      BY <1>10 DEF RecvFlag
    <2>2. Got(1) = 0 /\ wire' = <<>>
      BY <1>1, <2>1, NothingTaken
    <2>3. pc' = "end" /\ UNCHANGED acted
      BY <1>10, <2>2 DEF RecvFlag, Goto
    <2> QED  BY <1>1, <2>1, <2>2, <2>3, CutShort
  <1>11. CASE RecvFrame
    <2>1. /\ UNCHANGED <<roles, senderVars, closed>> /\ Take(Got(2))
      BY <1>11 DEF RecvFrame
    <2>2. Got(2) = 0 /\ wire' = <<>>
      BY <1>1, <2>1, NothingTaken
    <2>3. pc' = "end" /\ UNCHANGED acted
      BY <1>11, <2>2 DEF RecvFrame, Goto
    <2> QED  BY <1>1, <2>1, <2>2, <2>3 DEF Adrift, Kept, Over, roles, senderVars
  <1>12. CASE RecvOwnID
    <2>1. /\ UNCHANGED <<roles, senderVars, closed>> /\ Take(Got(4))
          /\ pc = "ownid" /\ pc' = "frame" /\ CarryOut(Host(Overlay(ID, Got(4))), strings)
      BY <1>12 DEF RecvOwnID, Goto
    <2>2. wire' = <<>>
      BY <1>1, <2>1, NothingTaken
    <2>3. op = "AC" /\ Len(acted) = Len(sent) /\ receiver = "client"
      BY <1>2, <2>1 DEF Adrift, TypeOK
    <2>4. PICK b : acted' = Append(acted, b) /\ b.op = "AC"
      BY <2>1, <2>3 DEF CarryOut
    <2>5. Over'
      BY <1>1, <2>1, <2>3, <2>4, OneMore
    <2> QED  BY <1>1, <2>1, <2>2, <2>5 DEF Adrift
  <1>13. CASE RecvRequest \/ RecvStatus \/ Answer \/ RecvZone \/ RecvBytes \/ RecvContactID
    BY <1>1, <1>13 DEF RecvRequest, RecvStatus, Answer, RecvZone, RecvBytes, RecvContactID
  <1> QED  BY <1>4, <1>5, <1>6, <1>7, <1>8, <1>9, <1>10, <1>11, <1>12, <1>13
              DEF Recv, Server, TestClient

LEMMA Receives ==
  ASSUME IInv, Sending, Recv \/ Server \/ TestClient
  PROVE  UNCHANGED <<roles, senderVars, closed>> /\ pc' # "auth" /\ (whole' => whole)
  <1>1. CASE RecvLength \/ RecvID \/ RecvSize \/ RecvMessage
    BY <1>1 DEF RecvLength, RecvID, RecvSize, RecvMessage, Goto
  <1>2. CASE RecvString
    <2>1. op \in {"LL", "RE", "AU", "AC", "AL"}
      BY <1>2 DEF RecvString, IInv, Stage, Strings
    <2> QED  BY <1>2, <2>1 DEF RecvString, Goto, AfterStrings
  <1>3. CASE RecvRequest
    BY <1>3 DEF RecvRequest, Goto, Sending
  <1>4. CASE RecvStatus \/ Answer \/ RecvCommand \/ RecvFlag
    BY <1>4 DEF RecvStatus, Answer, RecvCommand, RecvFlag, Goto
  <1>5. CASE RecvFrame
    <2>1. UNCHANGED <<roles, senderVars, closed, whole>>
      BY <1>5 DEF RecvFrame
    <2>2. pc' \in {"frame", "id", "length", "end"}
      BY <1>5 DEF RecvFrame, Goto
    <2> QED  BY <2>1, <2>2
  <1>6. CASE RecvZone \/ RecvOwnID \/ RecvBytes
    BY <1>6 DEF RecvZone, RecvOwnID, RecvBytes, Goto
  <1>7. CASE RecvContactID
    <2>1. UNCHANGED <<roles, senderVars, closed>> /\ whole' = (whole /\ Got(4) = 4)
      BY <1>7 DEF RecvContactID
    <2>2. pc' \in {"frame", "end"}
      BY <1>7 DEF RecvContactID, Goto
    <2> QED  BY <2>1, <2>2
  <1> QED  BY <1>1, <1>2, <1>3, <1>4, <1>5, <1>6, <1>7 DEF Recv, Server, TestClient

LEMMA MidStep ==
  ASSUME IInv, Sending, Proper, NEW lost \in Seq(Bytes), NEW t, NEW c, Mid(lost, t, c),
         Recv \/ Server \/ TestClient, whole'
  PROVE  Following' \/ Adrift' \/ Refused'
  <1>1. pc \in Midst
    BY DEF Mid
  <1>2. CASE RecvRequest \/ RecvCommand \/ RecvFlag \/ RecvFrame
    BY <1>1, <1>2 DEF Midst, RecvRequest, RecvCommand, RecvFlag, RecvFrame
  <1> QED  BY <1>2, MidLength, MidString, MidStatus, MidAnswer, MidZone, MidOwnID, MidBytes,
              MidContactID, MidID, MidSize, MidMessage DEF Recv, Server, TestClient

LEMMA BetweenStep ==
  ASSUME IInv, Sending, Proper, NEW lost \in Seq(Bytes), NEW t, Between(lost, t),
         Recv \/ Server \/ TestClient, whole'
  PROVE  Following' \/ Adrift' \/ Refused'
  <1>1. pc \in {"auth", "act", "frame"}
    BY DEF Between
  <1>2. RecvRequest \/ RecvCommand \/ RecvFrame
    BY <1>1 DEF Recv, RecvLength, RecvString, RecvID, RecvSize, RecvMessage, Server, RecvStatus,
                Answer, RecvFlag, TestClient, RecvZone, RecvOwnID, RecvBytes, RecvContactID
  <1> QED  BY <1>2, BetweenRequest, BetweenCommand, BetweenFrame

LEMMA ReceiverStep ==
  ASSUME IInv, Follow, Recv \/ Server \/ TestClient
  PROVE  Follow'
  <1>1. Sending
    BY DEF Follow
  <1>2. UNCHANGED <<roles, senderVars, closed>> /\ pc' # "auth" /\ (whole' => whole)
    BY <1>1, Receives
  <1>3. Sending'
    BY <1>1, <1>2, SendingStays
  <1>4. ASSUME Proper'
        PROVE  Following' \/ Adrift' \/ Refused'
    <2>1. Proper /\ whole'
      BY <1>2, <1>4, ProperStays DEF Proper
    <2>2. CASE Following
      <3>1. PICK lost \in Seq(Bytes) : \E t :
               Between(lost, t) \/ \E c \in Requests \cup Commands \cup Frames : Mid(lost, t, c)
        BY <2>2 DEF Following
      <3>2. PICK t :
               Between(lost, t) \/ \E c \in Requests \cup Commands \cup Frames : Mid(lost, t, c)
        BY <3>1
      <3> QED  BY <1>1, <2>1, <3>2, MidStep, BetweenStep
    <2>3. CASE Adrift
      BY <2>3, AdriftStep
    <2>4. CASE Refused
      <3>1. pc = "end"
        BY <2>4 DEF Refused
      <3> QED  BY <3>1 DEF Recv, RecvLength, RecvString, RecvID, RecvSize, RecvMessage,
                  Server, RecvRequest, RecvStatus, Answer, RecvCommand, RecvFlag,
                  TestClient, RecvFrame, RecvZone, RecvOwnID, RecvBytes, RecvContactID
    <2> QED  BY <2>1, <2>2, <2>3, <2>4 DEF Follow
  <1> QED  BY <1>3, <1>4 DEF Follow
-----------------------------------------------------------------------------
(* The sender goes on.                                                     *)

LEMMA ToComeTyped ==
  ASSUME IInv, Sending, Proper, NEW lost \in Seq(Bytes), NEW t, NEW c, Mid(lost, t, c)
  PROVE  ToCome(c) \in Seq(Bytes)
  <1>1. Good(c) /\ c.op = op /\ Holds(c) /\ pc \in Midst
    BY MidOf DEF IInv, Mid, Holds
  <1>2. Len(strings) \in Nat
    <2>1. strings \in Seq(Seq(Bytes))
      BY DEF IInv, TypeOK
    <2> QED  BY <2>1
  <1>3. CASE pc \in {"length", "string"}
    <2>1. c.op \in Strings(receiver) /\ Len(strings) \in 0 .. StringsOf[c.op] - 1
      <3>1. op \in Strings(receiver) /\ Len(strings) < StringsOf[op]
        BY <1>3 DEF IInv, Stage
      <3>2. StringsOf[c.op] \in 1 .. 3
        BY <1>1, <3>1, Counted
      <3> QED  BY <1>1, <1>2, <3>1, <3>2
    <2>2. /\ c.data[Len(strings) + 1] \in Seq(Bytes)
          /\ From(c, Len(strings) + 1) \in Seq(Bytes)
      BY <1>1, <2>1, FromNext
    <2>3. From(c, Len(strings)) \in Seq(Bytes)
      <3>1. StringsOf[c.op] \in 1 .. 3
        BY <1>1, <2>1, Counted
      <3>2. Len(strings) \in 0 .. StringsOf[c.op]
        BY <2>1, <3>1
      <3> QED  BY <1>1, <2>1, <3>2, FromTyped
    <2> QED  BY <1>3, <2>2, <2>3 DEF ToCome
  <1>4. CASE pc \in {"status", "zone", "bytes", "answer", "ownid", "contactid"}
    <2>1. Ending(c) \in Seq(Bytes) /\ Host(c.id) \in Seq(Bytes)
      BY <1>1, EndingTyped, HostTyped DEF Good
    <2> QED  BY <1>4, <2>1, Empty DEF ToCome
  <1>5. CASE pc \in {"id", "size", "message"}
    <2>1. c.op \in {"MS", "RM"}
      BY <1>1, <1>5 DEF Holds
    <2>2. c.data[1] \in Seq(Bytes) /\ Host(c.id) \in Seq(Bytes)
      BY <1>1, <2>1, HostTyped DEF Good, DataOf
    <2>3. WithLongLength(c.data[1]) \in Seq(Bytes)
      BY <2>2, LongLengthTyped
    <2> QED  BY <1>5, <2>2, <2>3 DEF ToCome
  <1> QED  BY <1>1, <1>3, <1>4, <1>5 DEF Midst

\* What the receiver has and expects of a command is the same, and behind what is
\* still to come there may be more.
LEMMA FollowOn ==
  ASSUME IInv, Sending, Proper, UNCHANGED <<roles, receiverVars>>,
         NEW lost \in Seq(Bytes), NEW t, Stream(lost, t),
         NEW more \in Seq(Bytes), NEW l \in Seq(Bytes), NEW u, Stream(l, u)',
         Count(lost) <= Count(l)', Count(l)' \in Nat,
         \A i \in 1 .. Count(lost) : Nth(i)' = Nth(i),
         \A i \in 0 .. Count(lost) : u[i] = t[i] \o more,
         wire \in Seq(Bytes), wire' \o l = (wire \o lost) \o more,
         Kept => Kept',
         Between(lost, t) \/ \E c \in Requests \cup Commands \cup Frames : Mid(lost, t, c)
  PROVE  Following'
  <1>1. UNCHANGED <<pc, op, ID, length, strings, acted>>
    BY DEF receiverVars
  <1>2. Count(lost) \in Nat /\ \A i \in 0 .. Count(lost) : t[i] \in Seq(Bytes)
    BY StreamTyped
  <1>3. u \in [0 .. Count(l)' -> Seq(Bytes)]
    BY DEF Stream
  <1>4. CASE Between(lost, t)
    <2>1. Len(acted) \in 0 .. Count(lost)
      BY <1>4 DEF Between, Kept, Sending, Count
    <2>2. wire' \o l = u[Len(acted)]
      BY <1>4, <2>1 DEF Between
    <2>3. Between(l, u)'
      BY <1>1, <1>4, <2>2 DEF Between
    <2> QED  BY <1>3, <2>3 DEF Following
  <1>5. ASSUME NEW c \in Requests \cup Commands \cup Frames, Mid(lost, t, c)
        PROVE  Following'
    <2>1. Len(acted) \in Nat /\ Len(acted) + 1 \in 1 .. Count(lost)
      BY <1>5, MidTyped
    <2>2. PICK m \in 1 .. Count(lost) : m = Len(acted) + 1
      BY <2>1
    <2>3. Nth(m)' = c /\ u[m] = t[m] \o more
      BY <1>5, <2>2 DEF Mid
    <2>4. PICK b \in Seq(Bytes) : b = ToCome(c) /\ ToCome(c)' = b
      <3>1. ToCome(c)' = ToCome(c)
        BY <1>1, PiecesStay DEF ToCome, roles
      <3> QED  BY <1>5, <3>1, ToComeTyped
    <2>5. Holds(c)'
      BY <1>1, <1>5, HostStays DEF Mid, Holds
    <2>6. wire' \o l = b \o u[m]
      <3>1. wire \o lost = b \o t[m] /\ t[m] \in Seq(Bytes)
        BY <1>2, <1>5, <2>2, <2>4 DEF Mid
      <3>2. (b \o t[m]) \o more = b \o (t[m] \o more)
        BY <3>1, Assoc
      <3> QED  BY <2>3, <3>1, <3>2
    <2>7. Mid(l, u, c)'
      <3>1. pc' \in Midst /\ Kept' /\ acted' = acted
        BY <1>1, <1>5 DEF Mid
      <3>2. Len(acted') < Count(l)' /\ c = Nth(Len(acted) + 1)' /\ u[Len(acted') + 1] = u[m]
        BY <1>2, <2>1, <2>2, <2>3, <3>1
      <3> QED  BY <2>4, <2>5, <2>6, <3>1, <3>2 DEF Mid
    <2> QED  BY <1>3, <2>7 DEF Following
  <1> QED  BY <1>4, <1>5

\* A command is started: its bytes come behind all that was sent.
LEMMA StartStep ==
  ASSUME IInv, Follow, NEW c \in Requests \cup Commands \cup Frames, Start(c)
  PROVE  Follow'
  <1>1. /\ ~closed /\ toSend = <<>> /\ closed' = closed
        /\ UNCHANGED <<roles, wire, sent, receiverVars>> /\ cur' = c
    BY DEF Start
  <1>2. TypeOK /\ Sending /\ wire \in Seq(Bytes) /\ receiver \in {"server", "client"}
    BY DEF IInv, TypeOK, Follow
  <1>3. PICK n \in Nat : n = Len(sent)
    BY <1>2 DEF Sending
  <1>4. c \in Sendable(n + 1)
    <2>1. sent = <<>> <=> n = 0
      BY <1>2, <1>3 DEF Sending
    <2> QED  BY <1>3, <2>1 DEF Start, Sendable
  <1>5. PICK e \in Seq(Bytes) : e = Encoded(c) /\ toSend' = e /\ e # <<>>
    <2>1. toSend' = Encoded(c)
      BY <1>2 DEF Start, Encoded
    <2> QED  BY <1>2, <1>4, <2>1, EncodedTyped
  <1>6. \A i : Sendable(i)' = Sendable(i)
    BY <1>1 DEF Sendable, roles
  <1>7. Sending'
    BY <1>1, <1>2, <1>3, <1>4, <1>5, <1>6 DEF Sending, receiverVars
  <1>8. ASSUME Proper'
        PROVE  Proper
    <2>1. \A d : Plain(d)' = Plain(d)
      BY <1>1 DEF Plain, Known, Macro, Host, roles
    <2>2. cur = NoCommand \/ cur \in Range(sent)
      BY <1>1, <1>2 DEF Sending
    <2>3. whole' = whole /\ sent' = sent
      BY <1>1 DEF receiverVars
    <2> QED  BY <1>8, <2>1, <2>2, <2>3 DEF Proper
  <1>9. ASSUME Following, Proper
        PROVE  Following'
    <2>1. PICK lost \in Seq(Bytes) : \E t :
             Between(lost, t) \/ \E d \in Requests \cup Commands \cup Frames : Mid(lost, t, d)
      BY <1>9 DEF Following
    <2>2. PICK t :
             Between(lost, t) \/ \E d \in Requests \cup Commands \cup Frames : Mid(lost, t, d)
      BY <2>1
    <2>3. Stream(lost, t)
      BY <2>2 DEF Between, Mid
    <2>4. lost = <<>> /\ Count(lost) = n
      BY <1>1, <1>3, <2>3 DEF Stream, Count
    <2>5. t[n] = <<>> /\ \A i \in 0 .. n : t[i] \in Seq(Bytes)
      BY <1>2, <2>3, <2>4, StreamTyped DEF Stream
    <2>6. PICK u : u = [i \in 0 .. n + 1 |-> IF i = n + 1 THEN <<>> ELSE t[i] \o e]
      OBVIOUS
    <2>7. u \in [0 .. n + 1 -> Seq(Bytes)]
      BY <2>5, <2>6, Empty
    <2>8. \A i \in 0 .. n : u[i] = t[i] \o e
      BY <2>6
    <2>9. u[n + 1] = <<>> /\ u[n] = e
      <3>1. <<>> \o e = e
        OBVIOUS
      <3>2. u[n] = t[n] \o e
        BY <2>8
      <3>3. u[n + 1] = <<>>
        BY <2>6
      <3> QED  BY <2>5, <3>1, <3>2, <3>3
    <2>10. Count(e)' = n + 1
      BY <1>1, <1>3, <1>5 DEF Count
    <2>11. \A i \in 1 .. n : Nth(i)' = Nth(i)
      BY <1>1, <1>3 DEF Nth
    <2>12. Nth(n + 1)' = c
      BY <1>1, <1>3 DEF Nth
    <2>13. ASSUME NEW i \in 1 .. n + 1
           PROVE  u[i - 1] = Encoded(Nth(i))' \o u[i] /\ Len(e) <= Len(u[i - 1])
      <3>1. CASE i = n + 1
        <4>1. Encoded(c)' = e
          BY <1>1, <1>5, PiecesStay
        <4>2. Encoded(Nth(i))' = e
          <5>1. Nth(i)' = c
            BY <2>12, <3>1
          <5>2. Encoded(Nth(i))' = Encoded(c)'
            BY <5>1 DEF Encoded, EncodeCommand, EncodeFrame, Host
          <5> QED  BY <4>1, <5>2
        <4>3. e \o <<>> = e
          OBVIOUS
        <4>4. u[i] = <<>> /\ u[i - 1] = e
          <5>1. i - 1 = n
            BY <3>1
          <5> QED  BY <2>9, <3>1, <5>1
        <4> QED  BY <4>2, <4>3, <4>4
      <3>2. CASE i \in 1 .. n
        <4>1. PICK d : d = Nth(i) /\ d \in Sendable(i)
          BY <1>2, <2>3, <2>4, <3>2, NthGood
        <4>2. Encoded(d)' = Encoded(d)
          BY <1>1, PiecesStay
        <4>3. Encoded(Nth(i))' = Encoded(d)
          BY <2>11, <3>2, <4>1, <4>2 DEF Encoded, EncodeCommand, EncodeFrame, Host
        <4>4. PICK s \in Seq(Bytes) : s = Encoded(d)
          BY <1>2, <4>1, EncodedTyped
        <4>5. t[i] \in Seq(Bytes) /\ t[i - 1] \in Seq(Bytes) /\ t[i - 1] = s \o t[i]
          <5>1. i \in 0 .. n /\ i - 1 \in 0 .. n
            BY <3>2
          <5>2. t[i - 1] = Encoded(Nth(i)) \o t[i]
            BY <2>3, <2>4, <3>2 DEF Stream
          <5> QED  BY <2>5, <4>1, <4>4, <5>1, <5>2
        <4>6. u[i - 1] = t[i - 1] \o e /\ u[i] = t[i] \o e
          BY <2>8, <3>2
        <4>7. (s \o t[i]) \o e = s \o (t[i] \o e)
          BY <4>5, Assoc
        <4>8. Len(t[i - 1] \o e) = Len(t[i - 1]) + Len(e)
          BY <4>5, ConcatProperties
        <4> QED  BY <4>3, <4>4, <4>5, <4>6, <4>7, <4>8
      <3> QED  BY <3>1, <3>2
    <2>14. Stream(e, u)'
      <3>1. c \in Sendable(Len(sent) + 1)'
        BY <1>1, <1>3, <1>4, <1>6
      <3> QED  BY <1>1, <1>5, <2>7, <2>9, <2>10, <2>13, <3>1 DEF Stream
    <2>15. wire' \o e = (wire \o lost) \o e
      <3>1. wire \o lost = wire
        BY <1>2, <2>4
      <3> QED  BY <1>1, <3>1
    <2>16. Kept => Kept'
      BY <1>1 DEF Kept, receiverVars
    <2>17. /\ Count(lost) <= Count(e)' /\ Count(e)' \in Nat
           /\ \A i \in 1 .. Count(lost) : Nth(i)' = Nth(i)
           /\ \A i \in 0 .. Count(lost) : u[i] = t[i] \o e
      BY <2>4, <2>8, <2>10, <2>11
    <2> QED  BY <1>1, <1>2, <1>9, <2>2, <2>3, <2>14, <2>15, <2>16, <2>17, FollowOn
  <1>10. CASE Refused
    BY <1>1, <1>7, <1>10 DEF Refused, Kept, receiverVars, roles, Follow
  <1>11. ~Adrift
    BY <1>1 DEF Adrift
  <1> QED  BY <1>7, <1>8, <1>9, <1>10, <1>11 DEF Follow

\* What was sent stays, and more may be.
LEMMA KeptOn ==
  ASSUME Kept, Len(sent) \in Nat, acted' = acted,
         sent' \in Seq(Requests \cup Commands \cup Frames), Len(sent) <= Len(sent'),
         \A i \in 1 .. Len(sent) : sent'[i] = sent[i]
  PROVE  Kept'
  BY DEF Kept

\* What arrives or is lost is still the same stream.
LEMMA SameOn ==
  ASSUME IInv, Sending, Proper, UNCHANGED <<roles, receiverVars>>,
         NEW lost \in Seq(Bytes), NEW t, Stream(lost, t),
         NEW l \in Seq(Bytes), Stream(l, t)', Count(l)' = Count(lost),
         \A i \in 1 .. Count(lost) : Nth(i)' = Nth(i),
         wire' \o l = wire \o lost,
         Kept => Kept',
         Between(lost, t) \/ \E c \in Requests \cup Commands \cup Frames : Mid(lost, t, c)
  PROVE  Following'
  <1>1. Count(lost) \in Nat /\ \A i \in 0 .. Count(lost) : t[i] \in Seq(Bytes)
    BY StreamTyped
  <1>2. PICK none \in Seq(Bytes) : none = <<>>
    BY Empty
  <1>3. \A s \in Seq(Bytes) : s \o none = s
    BY <1>2
  <1>4. wire \in Seq(Bytes) /\ wire \o lost \in Seq(Bytes)
    <2>1. wire \in Seq(Bytes)
      BY DEF IInv, TypeOK
    <2> QED  BY <2>1
  <1>5. Count(lost) <= Count(l)' /\ Count(l)' \in Nat
    BY <1>1
  <1>6. \A i \in 0 .. Count(lost) : t[i] = t[i] \o none
    BY <1>1, <1>3
  <1>7. wire' \o l = (wire \o lost) \o none
    BY <1>3, <1>4
  <1> QED  BY <1>4, <1>5, <1>6, <1>7, FollowOn

LEMMA SameStream ==
  ASSUME IInv, Sending, Proper, UNCHANGED <<roles, receiverVars>>, Following,
         sent' \in Seq(Requests \cup Commands \cup Frames), Len(sent) <= Len(sent'),
         \A i \in 1 .. Len(sent) : sent'[i] = sent[i],
         \A lost \in Seq(Bytes) : \A t : Stream(lost, t) =>
            \E l \in Seq(Bytes) :
               /\ Stream(l, t)' /\ Count(l)' = Count(lost)
               /\ \A i \in 1 .. Count(lost) : Nth(i)' = Nth(i)
               /\ wire' \o l = wire \o lost
  PROVE  Following'
  <1>1. PICK lost \in Seq(Bytes) : \E t :
           Between(lost, t) \/ \E c \in Requests \cup Commands \cup Frames : Mid(lost, t, c)
    BY DEF Following
  <1>2. PICK t : Between(lost, t) \/ \E c \in Requests \cup Commands \cup Frames : Mid(lost, t, c)
    BY <1>1
  <1>3. Stream(lost, t)
    BY <1>2 DEF Between, Mid
  <1>4. Kept => Kept'
    <2>1. Len(sent) \in Nat /\ acted' = acted
      BY DEF Sending, receiverVars
    <2> QED  BY <2>1, KeptOn
  <1> QED  BY <1>2, <1>3, <1>4, SameOn

LEMMA StreamOn ==
  ASSUME UNCHANGED roles, NEW lost \in Seq(Bytes), NEW t, Stream(lost, t),
         NEW l \in Seq(Bytes), Len(l) <= Len(lost), Count(l)' = Count(lost),
         \A i \in 1 .. Count(lost) : Nth(i)' = Nth(i),
         l # <<>> => cur' \in Sendable(Len(sent') + 1),
         ~closed' => l = toSend', TypeOK, Sending
  PROVE  Stream(l, t)'
  <1>1. \A i : Sendable(i)' = Sendable(i)
    BY DEF Sendable, roles
  <1>2. Count(lost) \in Nat /\ \A i \in 0 .. Count(lost) : t[i] \in Seq(Bytes)
    BY StreamTyped
  <1>3. ASSUME NEW i \in 1 .. Count(lost)
        PROVE  t[i - 1] = Encoded(Nth(i))' \o t[i] /\ Len(l) <= Len(t[i - 1])
    <2>1. PICK d : d = Nth(i) /\ Nth(i)' = d
      OBVIOUS
    <2>2. Encoded(d)' = Encoded(d)
      BY PiecesStay
    <2>3. Encoded(Nth(i))' = Encoded(d)
      BY <2>1, <2>2 DEF Encoded, EncodeCommand, EncodeFrame, Host
    <2>4. t[i - 1] \in Seq(Bytes)
      <3>1. i - 1 \in 0 .. Count(lost)
        BY <1>2
      <3> QED  BY <1>2, <3>1
    <2>5. t[i - 1] = Encoded(Nth(i)) \o t[i] /\ Len(lost) <= Len(t[i - 1])
      BY DEF Stream
    <2> QED  BY <2>1, <2>3, <2>4, <2>5
  <1>4. (l # <<>> => cur \in Sendable(Len(sent) + 1))'
    BY <1>1
  <1> QED  BY <1>3, <1>4 DEF Stream

\* A byte arrives.
LEMMA DeliverStep ==
  ASSUME IInv, Follow, Deliver
  PROVE  Follow'
  <1>1. /\ toSend # <<>> /\ closed' = closed /\ cur' = cur
        /\ wire' = Append(wire, Head(toSend)) /\ toSend' = Tail(toSend)
        /\ sent' = IF Len(toSend) = 1 THEN Append(sent, cur) ELSE sent
        /\ UNCHANGED <<roles, receiverVars>>
    BY DEF Deliver
  <1>2. TypeOK /\ Sending /\ wire \in Seq(Bytes) /\ toSend \in Seq(Bytes)
    BY DEF IInv, TypeOK, Follow
  <1>3. ~closed /\ cur \in Sendable(Len(sent) + 1)
    BY <1>1, <1>2 DEF Sending
  <1>4. cur \in Requests \cup Commands \cup Frames
    BY <1>3 DEF Sendable
  <1>5. PICK n \in Nat : n = Len(sent)
    BY <1>2 DEF Sending
  <1>6. sent \in Seq(Requests \cup Commands \cup Frames)
    BY <1>2 DEF Sending
  <1>7. PICK l \in Seq(Bytes) : l = toSend' /\ Len(l) = Len(toSend) - 1
    <2>1. Tail(toSend) \in Seq(Bytes) /\ Len(Tail(toSend)) = Len(toSend) - 1
      BY <1>1, <1>2
    <2> QED  BY <1>1, <2>1
  <1>8. /\ l = <<>> <=> Len(toSend) = 1
        /\ l = <<>> => Len(sent') = n + 1 /\ sent'[n + 1] = cur
        /\ l # <<>> => sent' = sent
    <2>1. l = <<>> <=> Len(toSend) = 1
      <3>1. Len(toSend) \in Nat /\ (l = <<>> <=> Len(l) = 0)
        BY <1>2
      <3> QED  BY <1>7, <3>1
    <2> QED  BY <1>1, <1>4, <1>5, <1>6, <2>1
  <1>9. /\ sent' \in Seq(Requests \cup Commands \cup Frames)
        /\ Len(sent') \in Nat /\ n <= Len(sent')
        /\ \A i \in 1 .. n : sent'[i] = sent[i]
    BY <1>1, <1>4, <1>5, <1>6
  <1>10. \A i : Sendable(i)' = Sendable(i)
    BY <1>1 DEF Sendable, roles
  <1>11. Sending'
    <2>1. ASSUME NEW i \in 1 .. Len(sent')
          PROVE  sent'[i] \in Sendable(i)
      <3>1. CASE i \in 1 .. n
        BY <1>2, <1>5, <1>9, <3>1 DEF Sending
      <3>2. CASE i \notin 1 .. n
        <4>1. l = <<>> /\ i = n + 1
          BY <1>5, <1>8, <1>9, <3>2
        <4> QED  BY <1>3, <1>5, <1>8, <4>1
      <3> QED  BY <3>1, <3>2
    <2>2. l # <<>> => cur \in Sendable(Len(sent') + 1)
      BY <1>3, <1>8
    <2>3. l = <<>> => cur \in Range(sent')
      <3>1. l = <<>> => n + 1 \in DOMAIN sent'
        BY <1>8, <1>9
      <3> QED  BY <1>8, <3>1 DEF Range
    <2>4. pc' = "auth" => whole'
      BY <1>1, <1>2 DEF Sending, receiverVars
    <2> QED  BY <1>1, <1>3, <1>7, <1>9, <1>10, <2>1, <2>2, <2>3, <2>4 DEF Sending
  <1>12. ASSUME Proper'
         PROVE  Proper
    <2>1. \A d : Plain(d)' = Plain(d)
      BY <1>1 DEF Plain, Known, Macro, Host, roles
    <2>2. Range(sent) \subseteq Range(sent')
      <3>1. ASSUME NEW i \in DOMAIN sent PROVE sent[i] \in Range(sent')
        <4>1. i \in 1 .. n /\ DOMAIN sent' = 1 .. Len(sent')
          BY <1>5, <1>6, <1>9
        <4>2. i \in DOMAIN sent' /\ sent'[i] = sent[i]
          BY <1>9, <4>1
        <4> QED  BY <4>2 DEF Range
      <3> QED  BY <3>1 DEF Range
    <2>3. whole' = whole
      BY <1>1 DEF receiverVars
    <2> QED  BY <1>1, <1>12, <2>1, <2>2, <2>3 DEF Proper
  <1>13. ASSUME NEW lost \in Seq(Bytes), NEW t, Stream(lost, t)
         PROVE  /\ Stream(l, t)' /\ Count(l)' = Count(lost)
                /\ \A i \in 1 .. Count(lost) : Nth(i)' = Nth(i)
                /\ wire' \o l = wire \o lost
    <2>1. lost = toSend /\ Count(lost) = n + 1
      BY <1>1, <1>3, <1>5, <1>13 DEF Stream, Count
    <2>2. Count(l)' = n + 1
      BY <1>5, <1>8 DEF Count
    <2>3. \A i \in 1 .. n + 1 : Nth(i)' = Nth(i)
      BY <1>1, <1>5, <1>8, <1>9 DEF Nth
    <2>4. l # <<>> => cur' \in Sendable(Len(sent') + 1)
      BY <1>1, <1>3, <1>8
    <2>5. Len(l) <= Len(lost)
      BY <1>7, <2>1
    <2>6. Stream(l, t)'
      BY <1>1, <1>2, <1>7, <1>13, <2>1, <2>2, <2>3, <2>4, <2>5, StreamOn
    <2>7. wire' \o l = wire \o lost
      <3>1. <<Head(lost)>> \in Seq(Bytes) /\ lost = <<Head(lost)>> \o l
        BY <1>1, <1>7, <2>1
      <3>2. wire' = wire \o <<Head(lost)>>
        BY <1>1, <1>2, <2>1, <3>1
      <3>3. (wire \o <<Head(lost)>>) \o l = wire \o (<<Head(lost)>> \o l)
        BY <1>2, <3>1, Assoc
      <3> QED  BY <3>1, <3>2, <3>3
    <2> QED  BY <2>1, <2>2, <2>3, <2>6, <2>7
  <1>14. ASSUME Following, Proper
         PROVE  Following'
    BY <1>1, <1>2, <1>5, <1>9, <1>13, <1>14, SameStream
  <1>15. CASE Refused
    <2>1. Kept'
      <3>1. Kept /\ acted' = acted
        BY <1>1, <1>15 DEF Refused, receiverVars
      <3> QED  BY <1>5, <1>9, <3>1, KeptOn
    <2> QED  BY <1>1, <1>11, <1>15, <2>1 DEF Refused, receiverVars, roles, Follow
  <1>16. ~Adrift
    BY <1>3 DEF Adrift
  <1> QED  BY <1>11, <1>12, <1>14, <1>15, <1>16 DEF Follow

\* The rest is lost.
LEMMA CloseStep ==
  ASSUME IInv, Follow, Close
  PROVE  Follow'
  <1>1. /\ ~closed /\ closed' /\ toSend' = <<>> /\ cur' = cur /\ sent' = sent /\ wire' = wire
        /\ UNCHANGED <<roles, receiverVars>>
    BY DEF Close
  <1>2. TypeOK /\ Sending /\ sent \in Seq(Requests \cup Commands \cup Frames)
    BY DEF IInv, Follow, Sending
  <1>3. \A i : Sendable(i)' = Sendable(i)
    BY <1>1 DEF Sendable, roles
  <1>4. Sending'
    BY <1>1, <1>2, <1>3 DEF Sending, receiverVars
  <1>5. ASSUME Proper'
        PROVE  Proper
    <2>1. \A d : Plain(d)' = Plain(d)
      BY <1>1 DEF Plain, Known, Macro, Host, roles
    <2> QED  BY <1>1, <1>5, <2>1 DEF Proper, receiverVars
  <1>6. ASSUME NEW lost \in Seq(Bytes), NEW t, Stream(lost, t)
        PROVE  /\ Stream(lost, t)' /\ Count(lost)' = Count(lost)
               /\ \A i \in 1 .. Count(lost) : Nth(i)' = Nth(i)
               /\ wire' \o lost = wire \o lost
    <2>1. Count(lost)' = Count(lost) /\ \A i \in 1 .. Count(lost) : Nth(i)' = Nth(i)
      BY <1>1 DEF Count, Nth
    <2>2. lost # <<>> => cur' \in Sendable(Len(sent') + 1)
      BY <1>1, <1>6 DEF Stream
    <2>3. Len(lost) <= Len(lost)
      OBVIOUS
    <2>4. Stream(lost, t)'
      BY <1>1, <1>2, <1>6, <2>1, <2>2, <2>3, StreamOn
    <2> QED  BY <1>1, <2>1, <2>4
  <1>7. ASSUME Following, Proper
        PROVE  Following'
    <2>1. Len(sent) <= Len(sent')
      BY <1>1, <1>2
    <2>2. \A lost \in Seq(Bytes) : \A t : Stream(lost, t) =>
            \E l \in Seq(Bytes) :
               /\ Stream(l, t)' /\ Count(l)' = Count(lost)
               /\ \A i \in 1 .. Count(lost) : Nth(i)' = Nth(i)
               /\ wire' \o l = wire \o lost
      BY <1>6
    <2> QED  BY <1>1, <1>2, <1>7, <2>1, <2>2, SameStream
  <1>8. CASE Refused
    BY <1>1, <1>4, <1>8 DEF Refused, Kept, receiverVars, roles, Follow
  <1>9. ~Adrift
    BY <1>1 DEF Adrift
  <1> QED  BY <1>4, <1>5, <1>7, <1>8, <1>9 DEF Follow
LEMMA NothingStep ==
  ASSUME IInv, Follow, UNCHANGED vars
  PROVE  Follow'
  <1>1. UNCHANGED <<roles, senderVars, receiverVars, closed, wire, pc, acted, refused, op, whole>>
    BY DEF vars, receiverVars
  <1>2. TypeOK /\ Sending /\ sent' = sent /\ sent \in Seq(Requests \cup Commands \cup Frames)
    BY <1>1 DEF IInv, Follow, Sending, senderVars
  <1>3. Sending'
    BY <1>1, <1>2 DEF Sending, Sendable, senderVars, roles
  <1>4. ASSUME Proper'
        PROVE  Proper
    BY <1>1, <1>4, ProperStays
  <1>5. ASSUME Following, Proper
        PROVE  Following'
    <2>1. Len(sent) <= Len(sent')
      BY <1>2
    <2>2. \A lost \in Seq(Bytes) : \A t : Stream(lost, t) =>
            \E l \in Seq(Bytes) :
               /\ Stream(l, t)' /\ Count(l)' = Count(lost)
               /\ \A i \in 1 .. Count(lost) : Nth(i)' = Nth(i)
               /\ wire' \o l = wire \o lost
      BY <1>1, StreamStays
    <2> QED  BY <1>1, <1>2, <1>5, <2>1, <2>2, SameStream
  <1>6. ASSUME Adrift
        PROVE  Adrift'
    BY <1>1, <1>6 DEF Adrift, Kept, Over, senderVars, roles
  <1>7. CASE Refused
    BY <1>1, <1>3, <1>7 DEF Refused, Kept, senderVars, roles, Follow
  <1> QED  BY <1>3, <1>4, <1>5, <1>6, <1>7 DEF Follow

-----------------------------------------------------------------------------
(* The invariant holds.                                                    *)

LEMMA FollowInit ==
  ASSUME Init
  PROVE  Follow
  <1>1. PICK none \in Seq(Bytes) : none = <<>>
    BY Empty
  <1>2. PICK t : t = [i \in 0 .. 0 |-> none]
    OBVIOUS
  <1>3. /\ sent = <<>> /\ toSend = <<>> /\ wire = <<>> /\ acted = <<>> /\ cur = NoCommand
        /\ pc \in {"auth", "frame"} /\ whole
    BY DEF Init
  <1>4. Len(sent) = 0 /\ Len(acted) = 0
    BY <1>3
  <1>5. /\ sent \in Seq(Requests \cup Commands \cup Frames)
        /\ acted \in Seq(Requests \cup Commands \cup Frames)
    BY <1>3
  <1>6. Sending
    BY <1>3, <1>4, <1>5 DEF Sending
  <1>7. Count(none) = 0
    BY <1>1, <1>4 DEF Count
  <1>8. t \in [0 .. 0 -> Seq(Bytes)] /\ t[0] = <<>>
    BY <1>1, <1>2
  <1>9. Stream(none, t)
    BY <1>1, <1>3, <1>7, <1>8 DEF Stream
  <1>10. wire \o none = t[Len(acted)]
    BY <1>1, <1>3, <1>4, <1>8
  <1>11. Kept
    BY <1>4, <1>5 DEF Kept
  <1>12. Between(none, t)
    BY <1>3, <1>4, <1>9, <1>10, <1>11 DEF Between
  <1>13. Following
    BY <1>7, <1>8, <1>12 DEF Following
  <1> QED  BY <1>6, <1>13 DEF Follow

LEMMA FollowStep == IInv /\ Follow /\ [Next]_vars => Follow'
  BY StartStep, DeliverStep, CloseStep, ReceiverStep, NothingStep DEF Next, Sender

THEOREM FollowInvariance == Spec => [](IInv /\ Follow)
  <1> QED  BY InvInit, InvStep, FollowInit, FollowStep, PTL DEF Spec

\* The server carries out what the client sent and the test client reports what the
\* server sent, in order and unchanged, for any commands and frames, any length of
\* the buffer below 2^16, both byte orders and any way in which the bytes arrive or
\* are lost (main.cpp:87-154, user.cpp:149-202, SmallTest/main.cpp:60-153).
THEOREM ReceiverInStep == Spec => []InStep
  <1>1. ASSUME IInv, Follow, Proper
        PROVE  IsPrefix(Reported, sent)
    <2>1. Sending /\ (Following \/ Adrift \/ Refused)
      BY <1>1 DEF Follow
    <2>2. sent \in Seq(Requests \cup Commands \cup Frames) /\ Len(sent) \in Nat
      BY <2>1 DEF Sending
    <2>3. ASSUME Kept
          PROVE  IsPrefix(Reported, sent)
      <3>1. /\ acted \in Seq(Requests \cup Commands \cup Frames)
            /\ Len(acted) \in Nat /\ Len(acted) <= Len(sent)
            /\ \A i \in 1 .. Len(acted) : acted[i] = sent[i]
        BY <2>3 DEF Kept
      <3>2. Reported = acted
        BY <2>2, <3>1 DEF Reported
      <3>3. SubSeq(acted, 1, Len(acted)) = SubSeq(sent, 1, Len(acted))
        BY <2>2, <3>1
      <3> QED  BY <3>1, <3>2, <3>3 DEF IsPrefix
    <2>4. ASSUME Over, closed
          PROVE  IsPrefix(Reported, sent)
      <3>1. /\ receiver = "client" /\ Len(acted) = Len(sent) + 1
            /\ acted[Len(acted)].op \in {"AC", "LO", "LP", "LU", "?"}
            /\ \A i \in 1 .. Len(sent) : acted[i] = sent[i]
        BY <2>4 DEF Over
      <3>2. Reported = SubSeq(acted, 1, Len(sent))
        BY <2>2, <2>4, <3>1 DEF Reported, Last, Front
      <3>3. Len(SubSeq(acted, 1, Len(sent))) = Len(sent)
        BY <2>2, <3>1
      <3>4. SubSeq(SubSeq(acted, 1, Len(sent)), 1, Len(sent)) = SubSeq(sent, 1, Len(sent))
        BY <2>2, <3>1
      <3> QED  BY <2>2, <3>2, <3>3, <3>4 DEF IsPrefix
    <2>5. Following => Kept
      BY DEF Following, Between, Mid
    <2>6. Adrift => closed /\ (Kept \/ Over)
      BY DEF Adrift
    <2>7. Refused => Kept
      BY DEF Refused
    <2> QED  BY <2>1, <2>3, <2>4, <2>5, <2>6, <2>7
  <1>2. IInv /\ Follow => InStep
    BY <1>1 DEF InStep
  <1> QED  BY <1>2, FollowInvariance, PTL

\* A receiver ends only when no more will arrive or the database refused the client:
\* never because it took what was sent for something else (main.cpp:87-154,
\* user.cpp:140-202, SmallTest/main.cpp:60-153).
THEOREM EndsHaveCause == Spec => []EndsForCause
  <1>1. Following => pc # "end"
    BY DEF Following, Between, Mid, Midst
  <1>2. Adrift => closed
    BY DEF Adrift
  <1>3. Refused => refused
    BY DEF Refused
  <1>4. Follow => EndsForCause
    BY <1>1, <1>2, <1>3 DEF Follow, EndsForCause
  <1> QED  BY <1>4, FollowInvariance, PTL
=============================================================================
