--------------------------- MODULE MBufferProofs ---------------------------
(***************************************************************************)
(* The buffer for any block size, maximum and word: its bounds, and that   *)
(* it implements module ByteStream.                                        *)
(***************************************************************************)
EXTENDS MBuffer, TLAPS

-----------------------------------------------------------------------------
\* Unsigned arithmetic.

LEMMA ModRange ==
    ASSUME NEW a \in Nat, NEW b \in Nat \ {0}
    PROVE  a % b \in 0 .. b - 1
OBVIOUS

LEMMA ModSmall ==
    ASSUME NEW a \in Nat, NEW b \in Nat, a < b
    PROVE  a % b = a
OBVIOUS

\* CalcNextSize gives a value of a word, ...
LEMMA CalcType ==
    ASSUME NEW n \in Nat
    PROVE  CalcNextSize(n) \in 0 .. Word - 1
<1> DEFINE m == (n + Block - 1) % Word
<1>1. Block \in Nat \ {0} /\ Word \in Nat \ {0} /\ n + Block - 1 \in Nat
  BY BufferAssumption
<1>2. m \in 0 .. Word - 1
  BY <1>1, ModRange
<1>3. m - (m % Block) \in 0 .. m
  <2>1. m % Block \in 0 .. Block - 1
    BY <1>1, <1>2, ModRange
  <2>2. m % Block <= m
    <3>1. CASE m < Block
      BY <1>1, <1>2, <3>1, ModSmall
    <3>2. CASE m >= Block
      BY <1>1, <1>2, <2>1, <3>2
    <3> QED
      BY <1>1, <1>2, <3>1, <3>2
  <2> QED
    BY <1>1, <1>2, <2>1, <2>2
<1> QED
  BY <1>1, <1>2, <1>3 DEF CalcNextSize

\* ... and rounds up if it does not wrap.
LEMMA CalcUp ==
    ASSUME NEW n \in Nat, n + Block <= Word
    PROVE  CalcNextSize(n) >= n /\ CalcNextSize(n) < n + Block
<1> DEFINE m == (n + Block - 1) % Word
<1>1. Block \in Nat \ {0} /\ Word \in Nat /\ n + Block - 1 \in Nat
  BY BufferAssumption
<1>2. m = n + Block - 1
  BY <1>1, ModSmall
<1>3. m % Block \in 0 .. Block - 1
  BY <1>1, <1>2, ModRange
<1> QED
  BY <1>1, <1>2, <1>3 DEF CalcNextSize

LEMMA MaxSize == mnMaxSize \in Nat /\ mnMaxSize + Block <= Word /\ mnMaxSize < Word
<1>1. Block \in Nat \ {0} /\ Word \in Nat /\ MaxBytes \in Nat /\ MaxBytes + 2 * Block <= Word
  BY BufferAssumption
<1>2. CalcNextSize(MaxBytes) < MaxBytes + Block /\ CalcNextSize(MaxBytes) \in Nat
  BY <1>1, CalcUp, CalcType
<1> QED
  BY <1>1, <1>2 DEF mnMaxSize

\* Grow is given room for what is written.
LEMMA SizeAfterType ==
    ASSUME mnBufferSize \in 0 .. Word - 1, NEW n \in 0 .. mnMaxSize
    PROVE  /\ SizeAfter(n) \in 0 .. Word - 1
           /\ SizeAfter(n) >= n /\ SizeAfter(n) >= mnBufferSize
<1>1. CalcNextSize(n) \in 0 .. Word - 1 /\ CalcNextSize(n) >= n
  BY MaxSize, CalcType, CalcUp, BufferAssumption
<1> QED
  BY <1>1, MaxSize, BufferAssumption DEF SizeAfter

\* Write's test says what it means to say.
LEMMA FitsMeans ==
    ASSUME NEW p \in 0 .. mnMaxSize, NEW n \in Nat
    PROVE  Fits(p, n) <=> p + n <= mnMaxSize
<1>1. (mnMaxSize - p) % Word = mnMaxSize - p
  BY MaxSize, ModSmall, BufferAssumption
<1> QED
  BY <1>1, MaxSize DEF Fits

LEMMA ReadMeans ==
    ASSUME TypeOK, Bounds, NEW n \in Nat
    PROVE  /\ RealBytesRead(n) = IF mnStrEnd - mnStrPos >= n THEN n ELSE mnStrEnd - mnStrPos
           /\ RealBytesRead(n) \in 0 .. mnStrEnd - mnStrPos
<1>1. mnStrEnd - mnStrPos \in Nat /\ mnStrEnd - mnStrPos < Word /\ Word \in Nat
  BY BufferAssumption DEF TypeOK, Bounds
<1>2. (mnStrEnd - mnStrPos) % Word = mnStrEnd - mnStrPos
  BY <1>1, ModSmall
<1> QED
  BY <1>1, <1>2 DEF RealBytesRead

-----------------------------------------------------------------------------
\* The inductive invariant.

LEMMA InitInv == ASSUME Init PROVE IInv
<1>1. PICK n \in InitSizes :
        /\ mnBufferSize = CalcNextSize(IF n # 0 THEN n ELSE 1)
        /\ mpBuffer = New(mnBufferSize)
  BY DEF Init
<1>2. mnBufferSize \in 0 .. Word - 1
  BY <1>1, CalcType, BufferAssumption
<1>3. ret \in [op : {"MBuffer", "Write", "Read", "ReadVal", "Seek", "Clear", "Set"},
               n : Nat, data : Seq(Byte)]
  <2>1. <<>> \in Seq(Byte)
    OBVIOUS
  <2> QED
    BY <2>1 DEF Init
<1>4. mpBuffer \in [0 .. mnBufferSize - 1 -> Byte \cup {Junk}]
  BY <1>1 DEF New
<1>5. mnStrPos = 0 /\ mnStrEnd = 0 /\ mbInStreamWriting \in BOOLEAN /\ mbAlwaysAppend \in BOOLEAN
  BY DEF Init
<1>6. 0 \in 0 .. Word - 1
  BY BufferAssumption
<1>7. TypeOK
  BY <1>2, <1>3, <1>4, <1>5, <1>6 DEF TypeOK
<1> QED
  BY <1>2, <1>5, <1>7, MaxSize DEF IInv, Bounds, NoJunk

\* What a call returns has its type.
LEMMA RetType ==
    ASSUME NEW op \in {"MBuffer", "Write", "Read", "ReadVal", "Seek", "Clear", "Set"},
           NEW n \in Nat, NEW bytes \in Seq(Byte), Returns(op, n, bytes)
    PROVE  ret' \in [op : {"MBuffer", "Write", "Read", "ReadVal", "Seek", "Clear", "Set"},
                     n : Nat, data : Seq(Byte)]
BY DEF Returns

LEMMA BytesType ==
    ASSUME IInv, NEW k \in 0 .. mnStrEnd - mnStrPos
    PROVE  Bytes(k) \in Seq(Byte)
<1>1. \A i \in 1 .. k : mnStrPos + i - 1 \in 0 .. mnStrEnd - 1
  BY DEF IInv, TypeOK, Bounds
<1>2. Bytes(k) \in [1 .. k -> Byte] /\ k \in Nat
  BY <1>1 DEF Bytes, IInv, NoJunk, TypeOK
<1> QED
  BY <1>2

\* A write that fits: the facts both proofs need.
LEMMA WriteFits ==
    ASSUME IInv, NEW d \in Data, NEW p \in 0 .. mnStrEnd, Fits(p, Len(d))
    PROVE  /\ p + Len(d) \in 0 .. mnMaxSize /\ (p + Len(d)) % Word = p + Len(d)
           /\ d \in Seq(Byte) /\ Len(d) \in Nat
           /\ SizeAfter(p + Len(d)) \in 0 .. Word - 1
           /\ SizeAfter(p + Len(d)) >= p + Len(d)
           /\ SizeAfter(p + Len(d)) >= mnBufferSize
           /\ Grow(p + Len(d)) \in [0 .. SizeAfter(p + Len(d)) - 1 -> Byte \cup {Junk}]
           /\ \A i \in 0 .. mnStrEnd - 1 : Grow(p + Len(d))[i] = mpBuffer[i]
<1>1. d \in Seq(Byte) /\ Len(d) \in Nat /\ p \in 0 .. mnMaxSize
  BY BufferAssumption, MaxSize DEF IInv, TypeOK, Bounds
<1>2. p + Len(d) \in 0 .. mnMaxSize
  BY <1>1, FitsMeans, MaxSize
<1>3. (p + Len(d)) % Word = p + Len(d)
  BY <1>2, MaxSize, ModSmall, BufferAssumption
<1> DEFINE n == p + Len(d)
<1> HIDE DEF n
<1>4. n \in 0 .. mnMaxSize
  BY <1>2 DEF n
<1>5. SizeAfter(n) \in 0 .. Word - 1 /\ SizeAfter(n) >= n /\ SizeAfter(n) >= mnBufferSize
  BY <1>4, SizeAfterType DEF IInv, TypeOK
<1>6. Grow(n) \in [0 .. SizeAfter(n) - 1 -> Byte \cup {Junk}]
  <2>1. CASE n > mnBufferSize
    <3>1. \A i \in 0 .. SizeAfter(n) - 1 : i < mnStrEnd => i \in 0 .. mnBufferSize - 1
      BY <1>5 DEF IInv, TypeOK, Bounds
    <3> QED
      BY <2>1, <3>1 DEF Grow, IInv, TypeOK
  <2>2. CASE ~(n > mnBufferSize)
    BY <2>2 DEF Grow, SizeAfter, IInv, TypeOK
  <2> QED
    BY <2>1, <2>2
<1>7. \A i \in 0 .. mnStrEnd - 1 : Grow(n)[i] = mpBuffer[i]
  BY <1>5 DEF Grow, IInv, TypeOK, Bounds
<1> QED
  BY <1>1, <1>2, <1>3, <1>5, <1>6, <1>7 DEF n

\* Where a write starts.
LEMMA StartType ==
    ASSUME IInv
    PROVE  (IF mbAlwaysAppend THEN SeekPos(SEEKTOENDPOS) ELSE mnStrPos)
              = (IF mbAlwaysAppend THEN mnStrEnd ELSE mnStrPos)
           /\ (IF mbAlwaysAppend THEN mnStrEnd ELSE mnStrPos) \in 0 .. mnStrEnd
BY MaxSize, BufferAssumption DEF IInv, TypeOK, Bounds, SeekPos, SEEKTOENDPOS

\* Where the stream ends after it.
LEMMA EndType ==
    ASSUME NEW n \in 0 .. mnMaxSize, NEW size \in Nat, n <= size,
           mnStrEnd \in Nat, mnStrEnd <= mnMaxSize, mnStrEnd <= size
    PROVE  /\ EndAfter(n) \in n .. mnMaxSize
           /\ EndAfter(n) <= size
           /\ EndAfter(n) = n \/ EndAfter(n) = mnStrEnd
BY MaxSize DEF EndAfter

LEMMA WriteInv == ASSUME IInv, NEW d \in Data, Write(d) PROVE IInv'
<1> DEFINE p == IF mbAlwaysAppend THEN SeekPos(SEEKTOENDPOS) ELSE mnStrPos
           n == p + Len(d)
<1>1. p \in 0 .. mnStrEnd
  BY StartType
<1>2. mbInStreamWriting' \in BOOLEAN /\ mbAlwaysAppend' \in BOOLEAN /\ <<>> \in Seq(Byte)
  BY DEF Write, modeVars, IInv, TypeOK
<1>t. /\ mnStrEnd \in 0 .. Word - 1 /\ mnStrEnd <= mnMaxSize /\ mnStrEnd <= mnBufferSize
      /\ mnMaxSize \in Nat /\ mnMaxSize < Word /\ Word \in Nat
      /\ mnBufferSize \in 0 .. Word - 1
  BY MaxSize, BufferAssumption DEF IInv, TypeOK, Bounds
<1> HIDE DEF p, n
<1>3. CASE Fits(p, Len(d))
  <2>1. /\ n \in 0 .. mnMaxSize /\ n % Word = n
        /\ d \in Seq(Byte) /\ Len(d) \in Nat
        /\ SizeAfter(n) \in 0 .. Word - 1
        /\ SizeAfter(n) >= n /\ SizeAfter(n) >= mnBufferSize
        /\ Grow(n) \in [0 .. SizeAfter(n) - 1 -> Byte \cup {Junk}]
        /\ \A i \in 0 .. mnStrEnd - 1 : Grow(n)[i] = mpBuffer[i]
    BY <1>1, <1>3, WriteFits DEF n
  <2>2. /\ mpBuffer' = [i \in DOMAIN Grow(n) |->
                          IF i \in p .. p + Len(d) - 1 THEN d[i - p + 1] ELSE Grow(n)[i]]
        /\ mnBufferSize' = SizeAfter(n)
        /\ mnStrPos' = n
        /\ mnStrEnd' = EndAfter(n)
        /\ Returns("Write", Len(d), <<>>)
    BY <1>3, <2>1 DEF Write, p, n
  <2>3. \A i \in p .. p + Len(d) - 1 : d[i - p + 1] \in Byte
    BY <1>1, <1>t, <2>1
  <2>4. mpBuffer' \in [0 .. mnBufferSize' - 1 -> Byte \cup {Junk}]
    BY <2>1, <2>2, <2>3
  <2>5. EndAfter(n) \in n .. mnMaxSize /\ EndAfter(n) <= SizeAfter(n)
        /\ (EndAfter(n) = n \/ EndAfter(n) = mnStrEnd)
    <3>1. /\ n \in 0 .. mnMaxSize /\ SizeAfter(n) \in Nat /\ n <= SizeAfter(n)
          /\ mnStrEnd \in Nat /\ mnStrEnd <= SizeAfter(n)
      BY <1>t, <2>1
    <3>2. mnStrEnd <= mnMaxSize
      BY <1>t
    <3> QED
      BY <3>1, <3>2, EndType
  <2>6. ret' \in [op : {"MBuffer", "Write", "Read", "ReadVal", "Seek", "Clear", "Set"},
                  n : Nat, data : Seq(Byte)]
    BY <1>2, <2>1, <2>2, RetType
  <2>7. TypeOK'
    <3>1. n \in 0 .. Word - 1 /\ EndAfter(n) \in 0 .. Word - 1
      BY <1>t, <2>1, <2>5
    <3> QED
      BY <1>2, <2>1, <2>2, <2>4, <2>6, <3>1 DEF TypeOK
  <2>8. Bounds'
    BY <1>t, <2>1, <2>2, <2>5 DEF Bounds, mnMaxSize
  <2>9. NoJunk'
    <3>1. SUFFICES ASSUME NEW i \in 0 .. EndAfter(n) - 1
                   PROVE  mpBuffer'[i] \in Byte
      BY <2>2 DEF NoJunk
    <3>2. i \in 0 .. SizeAfter(n) - 1
      BY <1>t, <2>1, <2>5, <3>1
    <3>3. CASE i \in p .. p + Len(d) - 1
      BY <2>1, <2>2, <2>3, <3>2, <3>3
    <3>4. CASE i \notin p .. p + Len(d) - 1
      <4>1. i \in 0 .. mnStrEnd - 1
        BY <1>1, <1>t, <2>1, <2>5, <3>1, <3>4 DEF n
      <4> QED
        BY <2>1, <2>2, <3>2, <3>4, <4>1 DEF IInv, NoJunk
    <3> QED
      BY <3>3, <3>4
  <2> QED
    BY <2>7, <2>8, <2>9 DEF IInv
<1>4. CASE ~Fits(p, Len(d))
  <2>1. /\ mnStrPos' = p /\ UNCHANGED <<mpBuffer, mnBufferSize, mnStrEnd>>
        /\ Returns("Write", 0, <<>>)
    BY <1>4 DEF Write, p
  <2>2. ret' \in [op : {"MBuffer", "Write", "Read", "ReadVal", "Seek", "Clear", "Set"},
                  n : Nat, data : Seq(Byte)]
    BY <1>2, <2>1, RetType
  <2> QED
    BY <1>1, <1>2, <1>t, <2>1, <2>2 DEF IInv, TypeOK, Bounds, NoJunk, mnMaxSize
<1> QED
  BY <1>3, <1>4

LEMMA NextInv == ASSUME IInv, [Next]_vars PROVE IInv'
<1>t. <<>> \in Seq(Byte) /\ Sizes \subseteq Nat /\ Word \in Nat
  BY BufferAssumption
<1>1. CASE UNCHANGED vars
  BY <1>1 DEF vars, IInv, TypeOK, Bounds, NoJunk, mnMaxSize
<1>2. ASSUME NEW d \in Data, Write(d) PROVE IInv'
  BY <1>2, WriteInv
<1>3. ASSUME NEW n \in Sizes, Read(n) \/ ReadVal(n) PROVE IInv'
  <2>1. n \in Nat /\ RealBytesRead(n) \in 0 .. mnStrEnd - mnStrPos
        /\ (RealBytesRead(n) < n \/ RealBytesRead(n) = n)
    BY <1>t, <1>3, ReadMeans DEF IInv, TypeOK
  <2>2. Bytes(RealBytesRead(n)) \in Seq(Byte)
    BY <2>1, BytesType
  <2>3. /\ mnStrPos' = mnStrPos + RealBytesRead(n)
        /\ UNCHANGED <<mpBuffer, mnBufferSize, mnStrEnd, mbInStreamWriting, mbAlwaysAppend>>
    BY <1>3 DEF Read, ReadVal, modeVars
  <2>4. \/ Returns("Read", RealBytesRead(n), Bytes(RealBytesRead(n)))
        \/ Returns("ReadVal", 0, <<>>)
        \/ Returns("ReadVal", RealBytesRead(n), Bytes(RealBytesRead(n)))
    BY <1>3, <2>1 DEF Read, ReadVal
  <2>5. ret' \in [op : {"MBuffer", "Write", "Read", "ReadVal", "Seek", "Clear", "Set"},
                  n : Nat, data : Seq(Byte)]
    <3>1. RealBytesRead(n) \in Nat
      BY <2>1 DEF IInv, TypeOK
    <3> QED
      BY <1>t, <2>2, <2>4, <3>1, RetType
  <2> QED
    BY <1>t, <2>1, <2>3, <2>5 DEF IInv, TypeOK, Bounds, NoJunk, mnMaxSize
<1>4. ASSUME NEW n \in Sizes, Seek(n) PROVE IInv'
  <2>1. /\ mnStrPos' = SeekPos(n) /\ SeekPos(n) \in 0 .. mnStrEnd
        /\ UNCHANGED <<mpBuffer, mnBufferSize, mnStrEnd, mbInStreamWriting, mbAlwaysAppend>>
        /\ Returns("Seek", 0, <<>>)
    BY <1>t, <1>4 DEF Seek, SeekPos, modeVars, IInv, TypeOK
  <2>2. ret' \in [op : {"MBuffer", "Write", "Read", "ReadVal", "Seek", "Clear", "Set"},
                  n : Nat, data : Seq(Byte)]
    BY <1>t, <2>1, RetType
  <2> QED
    BY <1>t, <2>1, <2>2 DEF IInv, TypeOK, Bounds, NoJunk, mnMaxSize
<1>5. CASE Clear
  <2>1. ret' \in [op : {"MBuffer", "Write", "Read", "ReadVal", "Seek", "Clear", "Set"},
                  n : Nat, data : Seq(Byte)]
    BY <1>t, <1>5, RetType DEF Clear
  <2> QED
    BY <1>t, <1>5, <2>1, MaxSize DEF Clear, modeVars, IInv, TypeOK, Bounds, NoJunk, mnMaxSize
<1>6. ASSUME NEW b \in BOOLEAN, SetInStreamWriting(b) \/ SetAlwaysAppend(b) PROVE IInv'
  <2>1. ret' \in [op : {"MBuffer", "Write", "Read", "ReadVal", "Seek", "Clear", "Set"},
                  n : Nat, data : Seq(Byte)]
    BY <1>t, <1>6, RetType DEF SetInStreamWriting, SetAlwaysAppend
  <2> QED
    BY <1>6, <2>1 DEF SetInStreamWriting, SetAlwaysAppend, IInv, TypeOK, Bounds, NoJunk,
       mnMaxSize
<1> QED
  BY <1>1, <1>2, <1>3, <1>4, <1>5, <1>6 DEF Next

THEOREM Invariance == Spec => []IInv
<1>1. Init => IInv
  BY InitInv
<1>2. IInv /\ [Next]_vars => IInv'
  BY NextInv
<1> QED
  BY <1>1, <1>2, PTL DEF Spec

\* Every variable of the buffer keeps its type, and what a call returns is
\* bytes that were written (mbuffer.cpp).
THEOREM BufferTypes == Spec => []TypeOK
<1>1. IInv => TypeOK
  BY DEF IInv
<1> QED
  BY <1>1, Invariance, PTL

\* Position and end stay in the memory and below the maximum, for any sizes.
THEOREM InBounds == Spec => []Bounds
<1>1. IInv => Bounds
  BY DEF IInv
<1> QED
  BY <1>1, Invariance, PTL

-----------------------------------------------------------------------------
\* The buffer implements a stream of bytes.

LEMMA ContentLen == ASSUME TypeOK PROVE Len(Content) = mnStrEnd
<1>1. mnStrEnd \in Nat
  BY DEF TypeOK
<1> QED
  BY <1>1 DEF Content

LEMMA ContentAt ==
    ASSUME NEW i \in 1 .. mnStrEnd
    PROVE  Content[i] = mpBuffer[i - 1]
BY DEF Content

\* What a write leaves is what module ByteStream says it leaves.
LEMMA WriteContent ==
    ASSUME IInv, NEW d \in Data, NEW p \in 0 .. mnStrEnd, Fits(p, Len(d)),
           mnStrEnd' = EndAfter(p + Len(d)),
           mpBuffer' = [i \in DOMAIN Grow(p + Len(d)) |->
                          IF i \in p .. p + Len(d) - 1 THEN d[i - p + 1]
                          ELSE Grow(p + Len(d))[i]]
    PROVE  Content' = B!Written(Content, p, d)
<1> DEFINE n == p + Len(d)
           len == IF mbInStreamWriting /\ mnStrEnd > n THEN mnStrEnd ELSE n
<1>1. /\ n \in 0 .. mnMaxSize /\ n \in Nat /\ Len(d) \in Nat /\ p \in Nat /\ mnStrEnd \in Nat
      /\ SizeAfter(n) \in Nat /\ n <= SizeAfter(n) /\ mnStrEnd <= SizeAfter(n)
      /\ Grow(n) \in [0 .. SizeAfter(n) - 1 -> Byte \cup {Junk}]
      /\ \A i \in 0 .. mnStrEnd - 1 : Grow(n)[i] = mpBuffer[i]
  BY WriteFits, MaxSize DEF IInv, TypeOK, Bounds
<1>2. EndAfter(n) = len
  BY <1>1 DEF EndAfter
<1>3. Content' = [i \in 1 .. len |-> mpBuffer'[i - 1]]
  BY <1>2 DEF Content
<1>4. B!Written(Content, p, d)
        = [i \in 1 .. len |-> IF i \in p + 1 .. n THEN d[i - p] ELSE Content[i]]
  BY ContentLen DEF B!Written, IInv
<1>5. ASSUME NEW i \in 1 .. len
      PROVE  mpBuffer'[i - 1] = IF i \in p + 1 .. n THEN d[i - p] ELSE Content[i]
  <2>1. i - 1 \in 0 .. SizeAfter(n) - 1
    BY <1>1
  <2>2. mpBuffer'[i - 1] = IF i - 1 \in p .. n - 1 THEN d[i - 1 - p + 1] ELSE Grow(n)[i - 1]
    BY <1>1, <2>1
  <2>3. (i - 1 \in p .. n - 1 <=> i \in p + 1 .. n) /\ i - 1 - p + 1 = i - p
    BY <1>1
  <2>4. CASE i \in p + 1 .. n
    BY <2>2, <2>3, <2>4
  <2>5. CASE i \notin p + 1 .. n
    <3>1. i - 1 \in 0 .. mnStrEnd - 1 /\ i \in 1 .. mnStrEnd
      BY <1>1, <2>5
    <3>2. Grow(n)[i - 1] = Content[i]
      BY <1>1, <3>1, ContentAt
    <3> QED
      BY <2>2, <2>3, <2>5, <3>2
  <2> QED
    BY <2>4, <2>5
<1> HIDE DEF len
<1> QED
  BY <1>3, <1>4, <1>5

LEMMA WriteStep == ASSUME IInv, NEW d \in Data, Write(d) PROVE B!Write(d)
<1> DEFINE p == IF mbAlwaysAppend THEN SeekPos(SEEKTOENDPOS) ELSE mnStrPos
<1>1. p \in 0 .. mnStrEnd /\ p = IF mbAlwaysAppend THEN Len(Content) ELSE mnStrPos
  BY StartType, ContentLen DEF IInv
<1>2. /\ p \in 0 .. mnMaxSize /\ Len(d) \in Nat /\ mnMaxSize \in Nat
      /\ p \in Nat
  BY <1>1, MaxSize, BufferAssumption DEF IInv, TypeOK, Bounds
<1>3. UNCHANGED <<mbInStreamWriting, mbAlwaysAppend>>
  BY DEF Write, modeVars
<1>4. CASE Fits(p, Len(d))
  <2>1. /\ mpBuffer' = [i \in DOMAIN Grow(p + Len(d)) |->
                          IF i \in p .. p + Len(d) - 1 THEN d[i - p + 1]
                          ELSE Grow(p + Len(d))[i]]
        /\ mnStrPos' = p + Len(d)
        /\ mnStrEnd' = EndAfter(p + Len(d))
        /\ Returns("Write", Len(d), <<>>)
    <3>1. (p + Len(d)) % Word = p + Len(d)
      BY <1>1, <1>4, WriteFits
    <3> QED
      BY <1>4, <3>1 DEF Write
  <2>2. Content' = B!Written(Content, p, d)
    <3> HIDE DEF p
    <3> QED
      BY <1>1, <1>4, <2>1, WriteContent
  <2>3. p + Len(d) <= mnMaxSize
    <3> HIDE DEF p
    <3> QED
      BY <1>2, <1>4, FitsMeans
  <2>4. B!Returns("Write", Len(d), <<>>)
    BY <2>1 DEF Returns, B!Returns
  <2> HIDE DEF p
  <2> QED
    BY <1>1, <1>3, <2>1, <2>2, <2>3, <2>4 DEF B!Write
<1>5. CASE ~Fits(p, Len(d))
  <2>1. /\ mnStrPos' = p /\ UNCHANGED <<mpBuffer, mnStrEnd>>
        /\ Returns("Write", 0, <<>>)
    BY <1>5 DEF Write
  <2>2. p + Len(d) > mnMaxSize
    <3> HIDE DEF p
    <3> QED
      BY <1>2, <1>5, FitsMeans
  <2>3. B!Returns("Write", 0, <<>>) /\ UNCHANGED Content
    BY <2>1 DEF Returns, B!Returns, Content
  <2> HIDE DEF p
  <2> QED
    BY <1>1, <1>3, <2>1, <2>2, <2>3 DEF B!Write
<1> QED
  BY <1>4, <1>5

LEMMA ReadStep ==
    ASSUME IInv, NEW n \in Sizes, Read(n) \/ ReadVal(n)
    PROVE  B!Read(n)
<1> DEFINE k == RealBytesRead(n)
<1>1. /\ n \in Nat /\ mnStrPos \in Nat /\ mnStrEnd \in Nat /\ mnStrPos <= mnStrEnd
      /\ k = IF Len(Content) - mnStrPos >= n THEN n ELSE Len(Content) - mnStrPos
      /\ k \in 0 .. mnStrEnd - mnStrPos
  <2>1. n \in Nat /\ TypeOK /\ Bounds
    BY BufferAssumption DEF IInv
  <2>2. mnStrPos \in Nat /\ mnStrEnd \in Nat /\ mnStrPos <= mnStrEnd
    BY <2>1 DEF TypeOK, Bounds
  <2>3. Len(Content) = mnStrEnd
    BY <2>1, ContentLen
  <2>4. /\ k = IF mnStrEnd - mnStrPos >= n THEN n ELSE mnStrEnd - mnStrPos
        /\ k \in 0 .. mnStrEnd - mnStrPos
    BY <2>1, ReadMeans
  <2> QED
    BY <2>1, <2>2, <2>3, <2>4
<1>2. k = n \/ k < n
  BY <1>1, ContentLen DEF IInv
<1>3. Bytes(k) = [i \in 1 .. k |-> Content[mnStrPos + i]]
  <2> HIDE DEF k
  <2>1. ASSUME NEW i \in 1 .. k
        PROVE  mpBuffer[mnStrPos + i - 1] = Content[mnStrPos + i]
    <3>1. mnStrPos + i \in 1 .. mnStrEnd
      BY <1>1
    <3>2. PICK j \in 1 .. mnStrEnd : j = mnStrPos + i
      BY <3>1
    <3>3. Content[j] = mpBuffer[j - 1]
      BY ContentAt
    <3> QED
      BY <1>1, <3>2, <3>3
  <2> QED
    BY <2>1 DEF Bytes
<1>4. /\ mnStrPos' = mnStrPos + k
      /\ UNCHANGED <<Content, mbInStreamWriting, mbAlwaysAppend>>
      /\ \/ Returns("Read", k, Bytes(k))
         \/ k < n /\ Returns("ReadVal", 0, <<>>)
         \/ ~(k < n) /\ Returns("ReadVal", n, Bytes(n))
  BY DEF Read, ReadVal, modeVars, Content
<1> HIDE DEF k
<1>5. \/ Returns("Read", k, Bytes(k))
      \/ k < n /\ Returns("ReadVal", 0, <<>>)
      \/ k = n /\ Returns("ReadVal", n, Bytes(k))
  BY <1>1, <1>2, <1>4
<1>6. \/ B!Returns("Read", k, Bytes(k))
      \/ k < n /\ B!Returns("ReadVal", 0, <<>>)
      \/ k = n /\ B!Returns("ReadVal", n, Bytes(k))
  BY <1>5 DEF Returns, B!Returns
<1> QED
  BY <1>1, <1>3, <1>4, <1>6 DEF B!Read

LEMMA NextStep == ASSUME IInv, [Next]_vars PROVE [B!Next]_(B!vars)
<1>1. CASE UNCHANGED vars
  BY <1>1 DEF vars, B!vars, Content
<1>2. ASSUME NEW d \in Data, Write(d) PROVE B!Next
  BY <1>2, WriteStep DEF B!Next
<1>3. ASSUME NEW n \in Sizes, Read(n) \/ ReadVal(n) PROVE B!Next
  BY <1>3, ReadStep DEF B!Next
<1>4. ASSUME NEW n \in Sizes, Seek(n) PROVE B!Next
  <2>1. B!Seek(n)
    BY <1>4, ContentLen
       DEF Seek, SeekPos, Returns, modeVars, B!Seek, B!Returns, Content, IInv
  <2> QED
    BY <2>1 DEF B!Next
<1>5. CASE Clear
  <2>1. Content' = <<>>
    BY <1>5 DEF Clear, Content
  <2>2. B!Clear
    BY <1>5, <2>1 DEF Clear, Returns, modeVars, B!Clear, B!Returns
  <2> QED
    BY <2>2 DEF B!Next
<1>6. ASSUME NEW b \in BOOLEAN, SetInStreamWriting(b) \/ SetAlwaysAppend(b) PROVE B!Next
  <2>1. /\ UNCHANGED <<Content, mnStrPos>>
        /\ B!Returns("Set", 0, <<>>)
        /\ \/ mbInStreamWriting' = b /\ mbAlwaysAppend' = mbAlwaysAppend
           \/ mbAlwaysAppend' = b /\ mbInStreamWriting' = mbInStreamWriting
    BY <1>6 DEF SetInStreamWriting, SetAlwaysAppend, Returns, B!Returns, Content
  <2>2. B!SetMode(b, mbAlwaysAppend) \/ B!SetMode(mbInStreamWriting, b)
    BY <2>1 DEF B!SetMode
  <2>3. mbAlwaysAppend \in BOOLEAN /\ mbInStreamWriting \in BOOLEAN
    BY DEF IInv, TypeOK
  <2> QED
    BY <2>2, <2>3 DEF B!Next
<1> QED
  BY <1>1, <1>2, <1>3, <1>4, <1>5, <1>6 DEF Next

\* Growing, overwriting and reading never let a byte into the stream that no
\* Write put there, for every maximum size and word width (mbuffer.cpp:161-188).
THEOREM NothingInvented == Spec => []NoJunk
<1>1. IInv => NoJunk
  BY DEF IInv
<1> QED
  BY <1>1, Invariance, PTL

\* Every behaviour of the buffer is one of a plain bounded sequence of bytes:
\* blocks, growth and unsigned differences never show (mbuffer.cpp).
THEOREM Implements == Spec => Stream
<1>1. Init => B!Init
  <2>1. ASSUME Init PROVE Content = <<>>
    BY <2>1 DEF Init, Content
  <2> QED
    BY <2>1 DEF Init, B!Init
<1>2. IInv /\ [Next]_vars => [B!Next]_(B!vars)
  BY NextStep
<1> QED
  BY <1>1, <1>2, Invariance, PTL DEF Spec, Stream, B!Spec
=============================================================================
