------------------------------ MODULE MBuffer ------------------------------
(***************************************************************************)
(* The message buffer: a block of memory that grows in steps of Block      *)
(* bytes up to mnMaxSize, a position and an end, in unsigned arithmetic of *)
(* Word values.  The server writes what it receives, seeks to 0 and sends; *)
(* the model has every call of the class.  A step is one call.             *)
(***************************************************************************)
EXTENDS Integers, Sequences

CONSTANTS Byte,      \* values of a byte
          Junk,      \* what memory holds before it is written
          Block,     \* 1024
          MaxBytes,  \* 8192
          Word,      \* 2^32
          InitSizes, \* arguments of the constructors
          Data,      \* what is written at once
          Sizes      \* arguments of reads and seeks

ASSUME BufferAssumption ==
    /\ Junk \notin Byte
    /\ Block \in Nat \ {0} /\ MaxBytes \in Nat /\ Word \in Nat
    /\ MaxBytes + 2 * Block <= Word
    /\ InitSizes \subseteq 0 .. Word - 1
    /\ Sizes \subseteq 0 .. Word - 1
    /\ Data \subseteq Seq(Byte)
    /\ \A d \in Data : Len(d) < Word

VARIABLES mpBuffer,          \* the memory
          mnBufferSize,      \* its size
          mnStrPos,          \* the position
          mnStrEnd,          \* first byte after the stream
          mbInStreamWriting, \* Write in the middle keeps the length
          mbAlwaysAppend,    \* Write goes to the end
          ret                \* the last call's name, returned number and bytes

vars == <<mpBuffer, mnBufferSize, mnStrPos, mnStrEnd, mbInStreamWriting,
          mbAlwaysAppend, ret>>

modeVars == <<mbInStreamWriting, mbAlwaysAppend>>

SEEKTOENDPOS == Word - 1

\* ( n + 1023 ) & 0xFFFFFC00
CalcNextSize(n) ==
    LET m == (n + Block - 1) % Word IN m - (m % Block)

\* Set once, in Init.
mnMaxSize == CalcNextSize(MaxBytes)

\* new char[n]
New(n) == [i \in 0 .. n - 1 |-> Junk]

Returns(op, n, bytes) == ret' = [op |-> op, n |-> n, data |-> bytes]

Init ==
    /\ \E n \in InitSizes :
         /\ mnBufferSize = CalcNextSize(IF n # 0 THEN n ELSE 1)
         /\ mpBuffer = New(mnBufferSize)
    /\ mnStrPos = 0
    /\ mnStrEnd = 0
    /\ mbInStreamWriting = TRUE
    /\ mbAlwaysAppend = FALSE
    /\ ret = [op |-> "MBuffer", n |-> 0, data |-> <<>>]

\* mnBufferSize after Grow(n).
SizeAfter(n) ==
    IF n > mnBufferSize
    THEN IF CalcNextSize(n) <= mnMaxSize THEN CalcNextSize(n) ELSE mnMaxSize
    ELSE mnBufferSize

\* Mutant: the old content is not copied.
GrowForgets(n) ==
    IF n > mnBufferSize THEN New(SizeAfter(n)) ELSE mpBuffer

\* The memory after Grow(n): the stream is copied.
Grow(n) ==
    IF n > mnBufferSize
    THEN [i \in 0 .. SizeAfter(n) - 1 |-> IF i < mnStrEnd THEN mpBuffer[i] ELSE Junk]
    ELSE mpBuffer

SeekPos(p) == IF p > mnStrEnd THEN mnStrEnd ELSE p

\* Mutant: the room is what is left of the stream's maximum from its start.
FitsAnywhere(p, n) == n <= mnMaxSize

\* The room left is an unsigned difference.
Fits(p, n) == n <= (mnMaxSize - p) % Word

\* Mutant: the end is set as without mbInStreamWriting.
EndAtPos(p) == p

\* The stream's end when a Write has got to p.
EndAfter(p) == IF ~mbInStreamWriting \/ p > mnStrEnd THEN p ELSE mnStrEnd

\* Write's own test whether to call Grow is weaker than the one in Grow.
Write(d) ==
    LET p   == IF mbAlwaysAppend THEN SeekPos(SEEKTOENDPOS) ELSE mnStrPos
        new == (p + Len(d)) % Word
        mem == Grow(new)
    IN  /\ \/ /\ Fits(p, Len(d))
              /\ mpBuffer' = [i \in DOMAIN mem |->
                                IF i \in p .. p + Len(d) - 1 THEN d[i - p + 1] ELSE mem[i]]
              /\ mnBufferSize' = SizeAfter(new)
              /\ mnStrPos' = new
              /\ mnStrEnd' = EndAfter(new)
              /\ Returns("Write", Len(d), <<>>)
           \/ /\ ~Fits(p, Len(d))
              /\ mnStrPos' = p
              /\ Returns("Write", 0, <<>>)
              /\ UNCHANGED <<mpBuffer, mnBufferSize, mnStrEnd>>
        /\ UNCHANGED modeVars

\* Mutant: one byte more than there is.
RealBytesReadPast(n) ==
    LET left == (mnStrEnd - mnStrPos) % Word IN IF left + 1 >= n THEN n ELSE left

\* How many of n bytes there are, _BytesLeft being an unsigned difference.
RealBytesRead(n) ==
    LET left == (mnStrEnd - mnStrPos) % Word IN IF left >= n THEN n ELSE left

Bytes(k) == [i \in 1 .. k |-> mpBuffer[mnStrPos + i - 1]]

Read(n) ==
    /\ mnStrPos' = mnStrPos + RealBytesRead(n)
    /\ Returns("Read", RealBytesRead(n), Bytes(RealBytesRead(n)))
    /\ UNCHANGED <<mpBuffer, mnBufferSize, mnStrEnd, modeVars>>

\* Read of a value of n bytes, which stays as it is when there are fewer.
ReadVal(n) ==
    /\ mnStrPos' = mnStrPos + RealBytesRead(n)
    /\ IF RealBytesRead(n) < n
       THEN Returns("ReadVal", 0, <<>>)
       ELSE Returns("ReadVal", n, Bytes(n))
    /\ UNCHANGED <<mpBuffer, mnBufferSize, mnStrEnd, modeVars>>

Seek(p) ==
    /\ mnStrPos' = SeekPos(p)
    /\ Returns("Seek", 0, <<>>)
    /\ UNCHANGED <<mpBuffer, mnBufferSize, mnStrEnd, modeVars>>

Clear ==
    /\ mnStrPos' = 0
    /\ mnStrEnd' = 0
    /\ Returns("Clear", 0, <<>>)
    /\ UNCHANGED <<mpBuffer, mnBufferSize, modeVars>>

SetInStreamWriting(b) ==
    /\ mbInStreamWriting' = b
    /\ Returns("Set", 0, <<>>)
    /\ UNCHANGED <<mpBuffer, mnBufferSize, mnStrPos, mnStrEnd, mbAlwaysAppend>>

SetAlwaysAppend(b) ==
    /\ mbAlwaysAppend' = b
    /\ Returns("Set", 0, <<>>)
    /\ UNCHANGED <<mpBuffer, mnBufferSize, mnStrPos, mnStrEnd, mbInStreamWriting>>

Next ==
    \/ \E d \in Data : Write(d)
    \/ \E n \in Sizes : Read(n) \/ ReadVal(n) \/ Seek(n)
    \/ Clear
    \/ \E b \in BOOLEAN : SetInStreamWriting(b) \/ SetAlwaysAppend(b)

Spec == Init /\ [][Next]_vars

-----------------------------------------------------------------------------
TypeOK ==
    /\ mnBufferSize \in 0 .. Word - 1
    /\ mpBuffer \in [0 .. mnBufferSize - 1 -> Byte \cup {Junk}]
    /\ mnStrPos \in 0 .. Word - 1
    /\ mnStrEnd \in 0 .. Word - 1
    /\ mbInStreamWriting \in BOOLEAN
    /\ mbAlwaysAppend \in BOOLEAN
    /\ ret \in [op : {"MBuffer", "Write", "Read", "ReadVal", "Seek", "Clear", "Set"},
                n : Nat, data : Seq(Byte)]

\* Position and end stay in the memory and below the maximum, whatever sizes
\* are asked for: the unsigned differences of Write and Read never wrap, Grow
\* is never refused what Write then copies, and CalcNextSize may wrap to an
\* empty first block without harm (mbuffer.cpp:82-109, 195-203).
Bounds ==
    /\ mnStrPos <= mnStrEnd
    /\ mnStrEnd <= mnBufferSize
    /\ mnStrEnd <= mnMaxSize

\* No byte of the stream is memory that was never written: growing and
\* overwriting lose and invent nothing.
NoJunk == \A i \in 0 .. mnStrEnd - 1 : mpBuffer[i] \in Byte

IInv == TypeOK /\ Bounds /\ NoJunk

\* The stream is the memory up to the end.
Content == [i \in 1 .. mnStrEnd |-> mpBuffer[i - 1]]

\* The buffer implements module ByteStream: every call returns and does what it
\* would on a plain sequence of bytes.
B == INSTANCE ByteStream WITH
        MaxLen <- mnMaxSize, stream <- Content, pos <- mnStrPos,
        inStream <- mbInStreamWriting, append <- mbAlwaysAppend
Stream == B!Spec

-----------------------------------------------------------------------------
(* What the header claims, and the buffer does not do.                     *)

\* "return value is always the actual stream pos, 0 if an error occured"
\* (mbuffer.h:48): Write answers the position that it leaves.  It returns
\* _nNumOfBytes (mbuffer.cpp:108), which is the position after the first write
\* of an empty buffer and not after the second.
WriteReturnsPos == ret.op = "Write" /\ ret.n # 0 => ret.n = mnStrPos
=============================================================================
