----------------------------- MODULE WireProofs -----------------------------
(***************************************************************************)
(* The receivers keep their types for any commands and frames, any buffer  *)
(* and any build: whatever the bytes that arrive, in whatever pieces, they *)
(* are in a receive that the receiver has, with variables it can fill.     *)
(***************************************************************************)
EXTENDS Dialog, SequenceTheorems, TLAPS

Row(n) == [1 .. n -> Bytes]

LEMMA Lengths ==
  ASSUME NEW s \in Seq(Bytes)
  PROVE  Len(s) \in Nat
  OBVIOUS

\* (The bound has a name because the provers are not good at long numbers.)
LEMMA WordsFrom ==
  ASSUME NEW n \in Nat, n <= 65535
  PROVE  n \in Words
  <1> DEFINE top == 65535
  <1>1. top \in Nat /\ n <= top
    OBVIOUS
  <1>2. n \in 0 .. top
    <2> HIDE DEF top
    <2> QED  BY <1>1
  <1>3. Words = 0 .. top
    BY DEF Words
  <1> HIDE DEF top
  <1> QED  BY <1>2, <1>3

LEMMA WordTyped == \A n \in Words : n \in Nat /\ n <= 65535
  <1> DEFINE top == 65535
  <1>1. Words = 0 .. top
    BY DEF Words
  <1>2. top \in Nat
    OBVIOUS
  <1>3. \A n \in Words : n \in Nat /\ n <= top
    <2> HIDE DEF top
    <2> QED  BY <1>1, <1>2
  <1> QED  BY <1>3

LEMMA Halves ==
  ASSUME NEW n \in Nat
  PROVE  /\ n % 256 \in Bytes
         /\ n % 65536 \in Words
         /\ n \in Words => n \div 256 \in Bytes
  <1>1. n % 256 \in Bytes /\ (n <= 65535 => n \div 256 \in Bytes)
    BY DEF Bytes
  <1>3. n \in Words => n <= 65535
    BY WordTyped
  <1>2. n % 65536 \in Nat /\ n % 65536 <= 65535
    OBVIOUS
  <1> QED  BY <1>1, <1>2, <1>3, WordsFrom

LEMMA Rows ==
  ASSUME NEW n \in Nat, NEW s \in Row(n)
  PROVE  s \in Seq(Bytes) /\ Len(s) = n /\ DOMAIN s = 1 .. n
  BY DEF Row

LEMMA LettersTyped ==
  ASSUME NEW o \in DOMAIN Letters
  PROVE  Letters[o] \in Row(2) /\ Letters[o] \in Seq(Bytes)
  <1>1. o \in {"LL", "RE", "MS", "AU", "AO", "LO", "LP", "LU", "AR", "AC", "AL", "RM", "QU"}
    BY DEF Letters
  <1>2. Letters[o] \in Row(2)
    BY <1>1 DEF Letters, Row, Bytes
  <1> QED  BY <1>2, Rows

LEMMA HostTyped ==
  ASSUME NEW n \in Nat, NEW s \in Row(n)
  PROVE  Host(s) \in Row(n) /\ Host(s) \in Seq(Bytes)
  <1>1. Reverse(s) \in Row(n)
    BY Rows DEF Reverse, Row
  <1>2. Host(s) \in Row(n)
    BY <1>1 DEF Host
  <1> QED  BY <1>2, Rows

LEMMA LengthTyped ==
  ASSUME NEW s \in Seq(Bytes)
  PROVE  WithLength(s) \in Seq(Bytes)
  <1>1. Len(s) % 256 \in Bytes
    <2>1. Len(s) \in Nat
      OBVIOUS
    <2> QED  BY <2>1, Halves
  <1>2. <<Len(s) % 256>> \in Seq(Bytes)
    BY <1>1
  <1> QED  BY <1>2 DEF WithLength

LEMMA HtonsTyped ==
  ASSUME NEW n \in Words
  PROVE  Htons(n) \in Seq(Bytes)
  <1>1. n \in Nat
    BY WordTyped
  <1>2. n \div 256 \in Bytes /\ n % 256 \in Bytes
    BY <1>1, Halves
  <1> QED  BY <1>2 DEF Htons

LEMMA LongLengthTyped ==
  ASSUME NEW s \in Seq(Bytes)
  PROVE  WithLongLength(s) \in Seq(Bytes)
  <1> DEFINE n == Len(s)
             w == n % 65536
  <1>1. n \in Nat
    BY Lengths
  <1>2. w \in Words
    <2> HIDE DEF n
    <2> QED  BY <1>1, Halves
  <1>3. Htons(w) \in Seq(Bytes)
    <2> HIDE DEF w
    <2> QED  BY <1>2, HtonsTyped
  <1>4. Htons(w) \o s \in Seq(Bytes)
    <2> HIDE DEF w
    <2> QED  BY <1>3
  <1> QED  BY <1>4 DEF WithLongLength

LEMMA NtohsTyped ==
  ASSUME NEW s \in Row(2)
  PROVE  Ntohs(s) \in Words
  <1>1. s[1] \in 0 .. 255 /\ s[2] \in 0 .. 255
    BY DEF Row, Bytes
  <1> DEFINE a == s[1]
             b == s[2]
  <1>2. 256 * a + b \in Nat /\ 256 * a + b <= 65535
    <2>1. a \in 0 .. 255 /\ b \in 0 .. 255
      BY <1>1
    <2> HIDE DEF a, b
    <2> QED  BY <2>1
  <1> QED  BY <1>2, WordsFrom DEF Ntohs

LEMMA OverlayTyped ==
  ASSUME NEW n \in Nat, NEW s \in Row(n), wire \in Seq(Bytes)
  PROVE  Overlay(s, Got(n)) \in Row(n)
  <1>1. Got(n) \in Nat /\ Got(n) <= Len(wire) /\ Len(wire) \in Nat
    BY DEF Got, Least
  <1>2. \A i \in 1 .. n : i <= Got(n) => wire[i] \in Bytes
    BY <1>1
  <1> QED  BY <1>1, <1>2 DEF Overlay, Row

LEMMA Taken ==
  ASSUME NEW n \in Nat, wire \in Seq(Bytes), Take(Got(n))
  PROVE  wire' \in Seq(Bytes)
  <1>1. Got(n) \in Nat /\ Got(n) <= Len(wire) /\ Len(wire) \in Nat
    BY DEF Got, Least
  <1>2. SubSeq(wire, Got(n) + 1, Len(wire)) \in Seq(Bytes)
    BY <1>1
  <1> QED  BY <1>2 DEF Take

LEMMA Longer ==
  ASSUME NEW s \in Seq(Bytes), NEW u \in Seq(Bytes), Len(s) = 2
  PROVE  s \o u \in Seq(Bytes) /\ s \o u # <<>>
  <1>1. Len(s \o u) = Len(s) + Len(u)
    BY ConcatProperties
  <1> QED  BY <1>1

\* What goes onto the wire is bytes.
LEMMA CommandTyped ==
  ASSUME NEW c \in Requests \cup Commands
  PROVE  EncodeCommand(c) \in Seq(Bytes) /\ EncodeCommand(c) # <<>>
  <1>1. /\ c.op \in {"LL", "RE", "MS", "AU", "AO"} /\ c.id \in Row(4)
        /\ c.data \in Seq(Seq(Bytes)) /\ Len(c.data) = DataOf[c.op]
    BY WireAssumption DEF Sends, Row, Bytes
  <1>2. Letters[c.op] \in Seq(Bytes) /\ Len(Letters[c.op]) = 2
    <2>1. c.op \in DOMAIN Letters
      BY <1>1 DEF Letters
    <2> QED  BY <2>1, LettersTyped, Rows
  <1>3. \A i \in 1 .. DataOf[c.op] : c.data[i] \in Seq(Bytes)
    BY <1>1 DEF DataOf
  <1>4. CASE c.op = "LL"
    <2>1. WithLength(c.data[1]) \in Seq(Bytes) /\ WithLength(c.data[2]) \in Seq(Bytes)
      BY <1>3, <1>4, LengthTyped DEF DataOf
    <2>2. <<0>> \in Seq(Bytes)
      BY DEF Bytes
    <2> QED  BY <1>2, <1>4, <2>1, <2>2 DEF EncodeCommand
  <1>5. CASE c.op = "RE"
    <2>1. /\ WithLength(c.data[1]) \in Seq(Bytes) /\ WithLength(c.data[2]) \in Seq(Bytes)
          /\ WithLength(c.data[3]) \in Seq(Bytes)
      BY <1>3, <1>5, LengthTyped DEF DataOf
    <2>2. WithLength(c.data[1]) \o WithLength(c.data[2]) \o WithLength(c.data[3]) \in Seq(Bytes)
      BY <2>1
    <2> QED  BY <1>2, <1>5, <2>2, Longer DEF EncodeCommand
  <1>6. CASE c.op = "MS"
    <2>1. c.data[1] \in Seq(Bytes)
      BY <1>3, <1>6 DEF DataOf
    <2>2. Host(c.id) \in Seq(Bytes)
      BY <1>1, HostTyped
    <2>3. WithLongLength(c.data[1]) \in Seq(Bytes)
      BY <2>1, LongLengthTyped
    <2>4. Host(c.id) \o WithLongLength(c.data[1]) \in Seq(Bytes)
      BY <2>2, <2>3
    <2> QED  BY <1>2, <1>6, <2>4, Longer DEF EncodeCommand
  <1>7. CASE c.op = "AU"
    <2>1. WithLength(c.data[1]) \in Seq(Bytes) /\ WithLength(c.data[2]) \in Seq(Bytes)
      BY <1>3, <1>7, LengthTyped DEF DataOf
    <2> QED  BY <1>2, <1>7, <2>1 DEF EncodeCommand
  <1>8. CASE c.op = "AO"
    <2>1. Host(c.id) \in Seq(Bytes)
      BY <1>1, HostTyped
    <2>2. <<1>> \in Seq(Bytes)
      BY DEF Bytes
    <2> QED  BY <1>2, <1>8, <2>1, <2>2 DEF EncodeCommand
  <1> QED  BY <1>1, <1>4, <1>5, <1>6, <1>7, <1>8

LEMMA FrameTyped ==
  ASSUME NEW f \in Frames
  PROVE  EncodeFrame(f) \in Seq(Bytes) /\ EncodeFrame(f) # <<>>
  <1>1. /\ f.op \in {"LO", "LP", "LU", "AR", "AC", "AL", "RM", "QU"} /\ f.id \in Row(4)
        /\ f.data \in Seq(Seq(Bytes)) /\ Len(f.data) = DataOf[f.op]
    BY WireAssumption DEF Sends, Row, Bytes
  <1>2. Letters[f.op] \in Seq(Bytes) /\ Len(Letters[f.op]) = 2
    <2>1. f.op \in DOMAIN Letters
      BY <1>1 DEF Letters
    <2> QED  BY <2>1, LettersTyped, Rows
  <1>3. Host(f.id) \in Seq(Bytes)
    BY <1>1, HostTyped
  <1>4. CASE f.op \in {"LO", "LP", "LU", "AR"}
    <2>1. <<>> \in Seq(Bytes) /\ <<79>> \in Seq(Bytes)
      BY DEF Bytes
    <2> QED  BY <1>2, <1>4, <2>1, Longer DEF EncodeFrame
  <1>5. CASE f.op = "AC"
    <2>1. f.data[1] \in Seq(Bytes)
      BY <1>1, <1>5 DEF DataOf
    <2>2. WithLength(f.data[1]) \in Seq(Bytes) /\ <<1>> \in Seq(Bytes)
      BY <2>1, LengthTyped DEF Bytes
    <2> QED  BY <1>2, <1>3, <1>5, <2>2 DEF EncodeFrame
  <1>6. CASE f.op = "AL"
    <2>1. f.data[1] \in Seq(Bytes) /\ f.data[2] \in Seq(Bytes)
      BY <1>1, <1>6 DEF DataOf
    <2>2. /\ WithLength(f.data[1]) \in Seq(Bytes) /\ WithLength(f.data[2]) \in Seq(Bytes)
          /\ <<0, 1, 1>> \in Seq(Bytes)
      BY <2>1, LengthTyped DEF Bytes
    <2> QED  BY <1>2, <1>3, <1>6, <2>2 DEF EncodeFrame
  <1>7. CASE f.op = "RM"
    <2>1. f.data[1] \in Seq(Bytes)
      BY <1>1, <1>7 DEF DataOf
    <2>2. WithLongLength(f.data[1]) \in Seq(Bytes)
      BY <2>1, LongLengthTyped
    <2>3. Host(f.id) \o WithLongLength(f.data[1]) \in Seq(Bytes)
      BY <1>3, <2>2
    <2> QED  BY <1>2, <1>7, <2>3, Longer DEF EncodeFrame
  <1>8. CASE f.op = "QU"
    <2>1. f.data[1] \in Seq(Bytes)
      BY <1>1, <1>8 DEF DataOf
    <2>2. Host(f.id) \o f.data[1] \in Seq(Bytes)
      BY <1>3, <2>1
    <2> QED  BY <1>2, <1>8, <2>2, Longer DEF EncodeFrame
  <1> QED  BY <1>1, <1>4, <1>5, <1>6, <1>7, <1>8

-----------------------------------------------------------------------------
(* The inductive invariant: strings are received only for a command or     *)
(* frame that has some, and no more than it has.                           *)

Strings(r) == IF r = "server" THEN {"LL", "RE", "AU"} ELSE {"AC", "AL"}

Stage ==
    /\ pc = "auth" => strings = <<>>
    /\ pc \in {"length", "string"} =>
          /\ op \in Strings(receiver)
          /\ Len(strings) < StringsOf[op]

IInv == TypeOK /\ Stage

LEMMA SmallWords ==
  ASSUME NEW b \in Bytes
  PROVE  b \in Words
  <1>1. b \in Nat /\ b <= 65535
    BY DEF Bytes
  <1> QED  BY <1>1, WordsFrom

LEMMA JunkTyped == Junk \subseteq Bytes
  BY WireAssumption DEF Bytes

LEMMA Empty == <<>> \in Seq(Bytes) /\ <<>> \in Seq(Seq(Bytes)) /\ Len(<<>>) <= 3
  OBVIOUS

LEMMA InvInit == Init => IInv
  <1> SUFFICES ASSUME Init PROVE IInv
    OBVIOUS
  <1>1. 0 \in Words /\ 0 \in Bytes
    BY SmallWords DEF Bytes
  <1>2. <<0, 0>> \in [1 .. 2 -> Bytes] /\ NoID \in [1 .. 4 -> Bytes]
    BY <1>1 DEF NoID
  <1>3. pc \in {"auth", "frame"} /\ receiver \in {"server", "client"}
    BY DEF Init
  <1>4. TypeOK
    <2>1. /\ op \in {"", "?"} \cup DOMAIN Letters
          /\ length \in Words
      BY <1>1 DEF Init
    <2>3. /\ strings \in Seq(Seq(Bytes)) /\ Len(strings) <= 3
          /\ toSend \in Seq(Bytes) /\ wire \in Seq(Bytes)
      BY Empty, Zenon DEF Init
    <2>2. pc \in {"length", "string", "id", "size", "message", "end"} \cup
                 (IF receiver = "server" THEN {"auth", "status", "answer", "act", "flag"}
                  ELSE {"frame", "zone", "ownid", "bytes", "contactid"})
      BY DEF Init
    <2> QED  BY <1>2, <1>3, <2>1, <2>2, <2>3 DEF Init, TypeOK
  <1>5. Stage
    BY <1>3 DEF Init, Stage
  <1> QED  BY <1>4, <1>5 DEF IInv

LEMMA SenderStep == IInv /\ Sender => IInv'
  <1> SUFFICES ASSUME IInv, Sender PROVE IInv'
    OBVIOUS
  <1> USE DEF IInv
  <1>1. Stage'
    BY DEF Sender, Start, Deliver, Close, Stage, roles, receiverVars
  <1>2. ASSUME NEW c \in Requests \cup Commands \cup Frames, Start(c)
        PROVE  TypeOK'
    <2>1. toSend' \in Seq(Bytes)
      BY <1>2, CommandTyped, FrameTyped DEF Start
    <2> QED  BY <1>2, <2>1 DEF Start, TypeOK, roles, receiverVars
  <1>3. CASE Deliver
    <2>1. toSend \in Seq(Bytes) /\ toSend # <<>> /\ wire \in Seq(Bytes)
      BY <1>3 DEF Deliver, TypeOK
    <2>2. Head(toSend) \in Bytes /\ Tail(toSend) \in Seq(Bytes)
      BY <2>1
    <2>3. wire' \in Seq(Bytes) /\ toSend' \in Seq(Bytes)
      BY <1>3, <2>1, <2>2 DEF Deliver
    <2> QED  BY <1>1, <1>3, <2>3 DEF Deliver, TypeOK, roles, receiverVars
  <1>4. CASE Close
    <2>1. closed' \in BOOLEAN /\ toSend' \in Seq(Bytes)
      BY <1>4, Empty DEF Close
    <2> QED  BY <1>1, <1>4, <2>1 DEF Close, TypeOK, roles, receiverVars
  <1> QED  BY <1>1, <1>2, <1>3, <1>4 DEF Sender

LEMMA LimitTyped ==
  ASSUME TypeOK
  PROVE  Limit(length) \in Nat
  <1>1. length \in Nat
    <2>1. length \in Words
      BY DEF TypeOK
    <2> QED  BY <2>1, WordTyped
  <1> QED  BY <1>1, WireAssumption DEF Limit, Least

LEMMA RecvStep == IInv /\ Recv => IInv'
  <1> SUFFICES ASSUME IInv, Recv PROVE IInv'
    OBVIOUS
  <1> USE DEF IInv
  <1>t. wire \in Seq(Bytes) /\ ID \in Row(4) /\ Limit(length) \in Nat
    BY LimitTyped DEF TypeOK, Row
  <1>1. CASE RecvLength
    <2>1. wire' \in Seq(Bytes)
      BY <1>1, <1>t, Taken DEF RecvLength
    <2>2. PICK x \in Junk : length' = Overlay(<<x>>, Got(1))[1]
      BY <1>1 DEF RecvLength
    <2>3. <<x>> \in Row(1)
      BY JunkTyped DEF Row
    <2>4. Overlay(<<x>>, Got(1)) \in Row(1)
      BY <1>t, <2>3, OverlayTyped
    <2>5. length' \in Words
      BY <2>2, <2>4, SmallWords DEF Row
    <2>6. TypeOK'
      BY <1>1, <2>1, <2>5 DEF RecvLength, TypeOK, Goto, roles, senderVars
    <2>7. Stage'
      BY <1>1 DEF RecvLength, Stage, Goto, roles
    <2> QED  BY <2>6, <2>7
  <1>2. CASE RecvString
    <2> DEFINE n == Limit(length)
               s == IF Complete(n) THEN SubSeq(wire, 1, n) ELSE <<>>
               ss == Append(strings, s)
    <2>1. wire' \in Seq(Bytes)
      BY <1>2, <1>t, Taken DEF RecvString
    <2>2. op \in Strings(receiver) /\ strings \in Seq(Seq(Bytes)) /\ Len(strings) < StringsOf[op]
      BY <1>2 DEF RecvString, Stage, TypeOK
    <2>3. s \in Seq(Bytes)
      <3>1. n \in Nat
        BY <1>t
      <3>2. CASE Complete(n)
        <4>1. 1 <= n /\ n <= Len(wire) /\ Len(wire) \in Nat
          BY <1>t, <3>1, <3>2 DEF Complete
        <4>2. SubSeq(wire, 1, n) \in Seq(Bytes)
          <5> HIDE DEF n
          <5> QED  BY <1>t, <3>1, <4>1
        <4> QED  BY <3>2, <4>2
      <3>3. CASE ~Complete(n)
        BY <3>3, Empty
      <3> QED  BY <3>2, <3>3
    <2>4. ss \in Seq(Seq(Bytes)) /\ Len(ss) = Len(strings) + 1
      <3> HIDE DEF s
      <3> QED  BY <2>2, <2>3
    <2>5. strings' = ss
      BY <1>2 DEF RecvString
    <2>6. \/ pc' = "end"
          \/ pc' = "length" /\ Len(ss) < StringsOf[op]
          \/ pc' = AfterStrings[op]
      BY <1>2 DEF RecvString, Goto
    <2>7. UNCHANGED <<roles, senderVars, closed, op, Befehl, ID, length, whole, refused>>
      BY <1>2 DEF RecvString
    <2>8. receiver \in {"server", "client"}
      BY DEF TypeOK
    <2>9. StringsOf[op] <= 3 /\ StringsOf[op] \in Nat
      BY <2>2 DEF Strings, StringsOf
    <2>10. pc' \in {"length", "end"} \cup
                  (IF receiver = "server" THEN {"status", "answer", "act"} ELSE {"zone", "bytes"})
      BY <2>2, <2>6, <2>8 DEF Strings, AfterStrings
    <2> HIDE DEF ss
    <2>11. TypeOK'
      <3>1. strings' \in Seq(Seq(Bytes)) /\ Len(strings') <= 3
        BY <2>2, <2>4, <2>5, <2>9
      <3> QED  BY <2>1, <2>7, <2>10, <3>1 DEF TypeOK, roles, senderVars
    <2>12. Stage'
      <3>1. pc' \in {"length", "string"} => Len(ss) < StringsOf[op]
        BY <2>2, <2>6 DEF Strings, AfterStrings
      <3>2. pc' # "auth"
        BY <2>2, <2>6 DEF Strings, AfterStrings
      <3> QED  BY <2>2, <2>5, <2>7, <3>1, <3>2 DEF Stage, roles
    <2> QED  BY <2>11, <2>12
  <1>3. CASE RecvID
    <2>1. wire' \in Seq(Bytes)
      BY <1>3, <1>t, Taken DEF RecvID
    <2>2. ID' \in [1 .. 4 -> Bytes]
      BY <1>3, <1>t, OverlayTyped DEF RecvID, Row
    <2>3. pc' \in {"size", "end"}
      BY <1>3 DEF RecvID, Goto
    <2>4. TypeOK'
      BY <1>3, <2>1, <2>2, <2>3 DEF RecvID, TypeOK, roles, senderVars
    <2> QED  BY <2>3, <2>4 DEF Stage
  <1>4. CASE RecvSize
    <2>1. wire' \in Seq(Bytes)
      BY <1>4, <1>t, Taken DEF RecvSize
    <2>2. PICK x \in Bytes : length' = Ntohs(Overlay(<<x, x>>, Got(2)))
      <3>1. 0 \in Bytes
        BY DEF Bytes
      <3> QED  BY <1>4, <3>1, JunkTyped DEF RecvSize
    <2>3. <<x, x>> \in Row(2)
      BY DEF Row
    <2>4. length' \in Words
      BY <1>t, <2>2, <2>3, OverlayTyped, NtohsTyped
    <2>5. ID' \in [1 .. 4 -> Bytes]
      BY <1>4, <1>t, HostTyped DEF RecvSize, Row
    <2>6. pc' \in {"message", "end"}
      BY <1>4 DEF RecvSize, Goto
    <2>7. TypeOK'
      BY <1>4, <2>1, <2>4, <2>5, <2>6 DEF RecvSize, TypeOK, roles, senderVars
    <2> QED  BY <2>6, <2>7 DEF Stage
  <1>5. CASE RecvMessage
    <2>1. wire' \in Seq(Bytes)
      BY <1>5, <1>t, Taken DEF RecvMessage
    <2>2. pc' \in {"end"} \cup (IF receiver = "server" THEN {"act"} ELSE {"frame"})
      BY <1>5 DEF RecvMessage, Goto
    <2>3. TypeOK'
      BY <1>5, <2>1, <2>2 DEF RecvMessage, TypeOK, roles, senderVars
    <2> QED  BY <2>2, <2>3 DEF Stage
  <1> QED  BY <1>1, <1>2, <1>3, <1>4, <1>5 DEF Recv

LEMMA ServerStep == IInv /\ Server => IInv'
  <1> SUFFICES ASSUME IInv, Server PROVE IInv'
    OBVIOUS
  <1> USE DEF IInv
  <1>t. wire \in Seq(Bytes) /\ ID \in Row(4) /\ Befehl \in Row(2)
    BY DEF TypeOK, Row
  <1>1. CASE RecvRequest
    <2>1. wire' \in Seq(Bytes)
      BY <1>1, <1>t, Taken DEF RecvRequest
    <2>2. receiver = "server" /\ strings = <<>>
      BY <1>1 DEF RecvRequest, TypeOK, Stage
    <2>3. \/ pc' = "length" /\ op' \in {"LL", "RE"}
          \/ pc' = "end" /\ op' = op
      BY <1>1 DEF RecvRequest, Goto
    <2>4. UNCHANGED <<roles, senderVars, closed, Befehl, ID, length, strings, refused>>
      BY <1>1 DEF RecvRequest
    <2>5. whole' \in BOOLEAN
      BY <1>1 DEF RecvRequest
    <2>6. op' \in {"", "?"} \cup DOMAIN Letters
      BY <2>3 DEF TypeOK, Letters
    <2>7. TypeOK'
      BY <2>1, <2>3, <2>4, <2>5, <2>6 DEF TypeOK, roles, senderVars
    <2>8. Stage'
      BY <2>2, <2>3, <2>4, Empty DEF Stage, Strings, StringsOf, roles
    <2> QED  BY <2>7, <2>8
  <1>2. CASE RecvStatus
    <2>1. wire' \in Seq(Bytes)
      BY <1>2, <1>t, Taken DEF RecvStatus
    <2>2. pc' \in {"answer", "end"} /\ receiver = "server"
      BY <1>2 DEF RecvStatus, Goto, TypeOK
    <2>3. TypeOK'
      BY <1>2, <2>1, <2>2 DEF RecvStatus, TypeOK, roles, senderVars
    <2> QED  BY <2>2, <2>3 DEF Stage
  <1>3. CASE Answer
    <2>1. pc' \in {"act", "end"} /\ receiver = "server"
      BY <1>3 DEF Answer, Goto, TypeOK
    <2>2. refused' \in BOOLEAN
      BY <1>3 DEF Answer, TypeOK
    <2>3. TypeOK'
      BY <1>3, <2>1, <2>2 DEF Answer, TypeOK, roles, senderVars
    <2> QED  BY <2>1, <2>3 DEF Stage
  <1>4. CASE RecvCommand
    <2>1. wire' \in Seq(Bytes)
      BY <1>4, <1>t, Taken DEF RecvCommand
    <2>2. Befehl' \in [1 .. 2 -> Bytes]
      BY <1>4, <1>t, OverlayTyped DEF RecvCommand, Row
    <2>3. \/ /\ pc' = "id" /\ op' = "MS" /\ ID' = NoID /\ length' = 0
             /\ UNCHANGED strings
          \/ /\ pc' = "length" /\ op' = "AU" /\ strings' = <<>>
             /\ UNCHANGED <<ID, length>>
          \/ /\ pc' = "flag" /\ op' = "AO"
             /\ UNCHANGED <<ID, length, strings>>
          \/ /\ pc' \in {"act", "end"}
             /\ UNCHANGED <<op, ID, length, strings>>
      BY <1>4 DEF RecvCommand, Goto
    <2>4. receiver = "server" /\ UNCHANGED <<roles, senderVars, closed, whole, refused>>
      BY <1>4 DEF RecvCommand, TypeOK
    <2>5. op' \in {"", "?"} \cup DOMAIN Letters
      BY <2>3 DEF TypeOK, Letters
    <2>6. ID' \in [1 .. 4 -> Bytes] /\ length' \in Words
      <3>1. 0 \in Bytes /\ 0 \in Words
        BY SmallWords DEF Bytes
      <3>2. NoID \in [1 .. 4 -> Bytes]
        BY <3>1 DEF NoID
      <3> QED  BY <2>3, <3>1, <3>2 DEF TypeOK
    <2>7. strings' \in Seq(Seq(Bytes)) /\ Len(strings') <= 3
      BY <2>3, Empty, Zenon DEF TypeOK
    <2>8. pc' \in {"id", "length", "flag", "act", "end"}
      BY <2>3
    <2>9. TypeOK'
      BY <2>1, <2>2, <2>4, <2>5, <2>6, <2>7, <2>8 DEF TypeOK, roles, senderVars
    <2>10. Stage'
      BY <2>3, <2>4, Empty DEF Stage, Strings, StringsOf, roles
    <2> QED  BY <2>9, <2>10
  <1>5. CASE RecvFlag
    <2>1. wire' \in Seq(Bytes)
      BY <1>5, <1>t, Taken DEF RecvFlag
    <2>2. ID' \in [1 .. 4 -> Bytes]
      BY <1>5, <1>t, HostTyped DEF RecvFlag, Row
    <2>3. pc' \in {"act", "end"} /\ receiver = "server"
      BY <1>5 DEF RecvFlag, Goto, TypeOK
    <2>4. TypeOK'
      BY <1>5, <2>1, <2>2, <2>3 DEF RecvFlag, TypeOK, roles, senderVars
    <2> QED  BY <2>3, <2>4 DEF Stage
  <1> QED  BY <1>1, <1>2, <1>3, <1>4, <1>5 DEF Server

LEMMA ClientStep == IInv /\ TestClient => IInv'
  <1> SUFFICES ASSUME IInv, TestClient PROVE IInv'
    OBVIOUS
  <1> USE DEF IInv
  <1>t. wire \in Seq(Bytes) /\ ID \in Row(4) /\ Befehl \in Row(2)
    BY DEF TypeOK, Row
  <1>1. CASE RecvFrame
    <2>1. wire' \in Seq(Bytes)
      BY <1>1, <1>t, Taken DEF RecvFrame
    <2>2. Befehl' \in [1 .. 2 -> Bytes]
      BY <1>1, <1>t, OverlayTyped DEF RecvFrame, Row
    <2>3. PICK x \in Junk : ID' = <<x, x, x, x>>
      BY <1>1 DEF RecvFrame
    <2>4. ID' \in [1 .. 4 -> Bytes]
      BY <2>3, JunkTyped
    <2>5. \/ pc' \in {"frame", "id"} /\ op' \in {"LO", "LP", "LU", "RM", "?"}
          \/ pc' = "length" /\ op' \in {"AC", "AL"}
          \/ pc' = "end" /\ op' = op
      BY <1>1 DEF RecvFrame, Goto
    <2>6. /\ receiver = "client" /\ strings' = <<>>
          /\ UNCHANGED <<roles, senderVars, closed, length, whole, refused>>
      BY <1>1 DEF RecvFrame, TypeOK
    <2>7. op' \in {"", "?"} \cup DOMAIN Letters
      BY <2>5 DEF TypeOK, Letters
    <2>8. pc' \in {"frame", "id", "length", "end"}
      BY <2>5
    <2>9. strings' \in Seq(Seq(Bytes)) /\ Len(strings') <= 3
      BY <2>6, Empty, Zenon
    <2>10. TypeOK'
      BY <2>1, <2>2, <2>4, <2>6, <2>7, <2>8, <2>9 DEF TypeOK, roles, senderVars
    <2>11. Stage'
      BY <2>5, <2>6, Empty DEF Stage, Strings, StringsOf, roles
    <2> QED  BY <2>10, <2>11
  <1>2. CASE RecvZone
    <2>1. wire' \in Seq(Bytes)
      BY <1>2, <1>t, Taken DEF RecvZone
    <2>2. pc' = "ownid" /\ receiver = "client"
      BY <1>2 DEF RecvZone, Goto, TypeOK
    <2>3. TypeOK'
      BY <1>2, <2>1, <2>2 DEF RecvZone, TypeOK, roles, senderVars
    <2> QED  BY <2>2, <2>3 DEF Stage
  <1>3. CASE RecvOwnID
    <2>1. wire' \in Seq(Bytes)
      BY <1>3, <1>t, Taken DEF RecvOwnID
    <2>2. ID' \in [1 .. 4 -> Bytes]
      BY <1>3, <1>t, OverlayTyped, HostTyped DEF RecvOwnID, Row
    <2>3. pc' = "frame" /\ receiver = "client"
      BY <1>3 DEF RecvOwnID, Goto, TypeOK
    <2>4. TypeOK'
      BY <1>3, <2>1, <2>2, <2>3 DEF RecvOwnID, TypeOK, roles, senderVars
    <2> QED  BY <2>3, <2>4 DEF Stage
  <1>4. CASE RecvBytes
    <2>1. wire' \in Seq(Bytes)
      BY <1>4, <1>t, Taken DEF RecvBytes
    <2>2. pc' \in {"contactid", "end"} /\ receiver = "client"
      BY <1>4 DEF RecvBytes, Goto, TypeOK
    <2>3. TypeOK'
      BY <1>4, <2>1, <2>2 DEF RecvBytes, TypeOK, roles, senderVars
    <2> QED  BY <2>2, <2>3 DEF Stage
  <1>5. CASE RecvContactID
    <2>1. wire' \in Seq(Bytes)
      BY <1>5, <1>t, Taken DEF RecvContactID
    <2>2. ID' \in [1 .. 4 -> Bytes]
      <3>1. Host(Overlay(ID, Got(4))) \in Row(4)
        BY <1>t, OverlayTyped, HostTyped
      <3>2. ID' = ID \/ ID' = Host(Overlay(ID, Got(4)))
        BY <1>5 DEF RecvContactID
      <3> QED  BY <1>t, <3>1, <3>2 DEF Row
    <2>3. pc' \in {"frame", "end"} /\ receiver = "client"
      BY <1>5 DEF RecvContactID, Goto, TypeOK
    <2>4. whole' \in BOOLEAN
      BY <1>5 DEF RecvContactID, TypeOK
    <2>5. TypeOK'
      BY <1>5, <2>1, <2>2, <2>3, <2>4 DEF RecvContactID, TypeOK, roles, senderVars
    <2> QED  BY <2>3, <2>5 DEF Stage
  <1> QED  BY <1>1, <1>2, <1>3, <1>4, <1>5 DEF TestClient

LEMMA InvStep == IInv /\ [Next]_vars => IInv'
  <1>1. IInv /\ UNCHANGED vars => IInv'
    BY DEF IInv, TypeOK, Stage, vars, roles, senderVars, receiverVars
  <1> QED  BY <1>1, SenderStep, RecvStep, ServerStep, ClientStep DEF Next

THEOREM WireInvariance == Spec => []IInv
  <1> QED  BY InvInit, InvStep, PTL DEF Spec

\* Whatever is sent and wherever the connection breaks, both receivers are in a
\* receive of theirs, with a command or frame they know and lengths and strings
\* that fit (main.cpp:87-154, user.cpp:149-202, SmallTest/main.cpp:60-153).
THEOREM ReceiversTyped == Spec => []TypeOK
  <1>1. IInv => TypeOK
    BY DEF IInv
  <1> QED  BY <1>1, WireInvariance, PTL
=============================================================================
