----------------------------- MODULE ByteStream -----------------------------
(***************************************************************************)
(* What the message buffer promises: a sequence of bytes of bounded length *)
(* with one position for reading and writing.  Memory, blocks, growth and  *)
(* 32-bit arithmetic do not show here.                                     *)
(***************************************************************************)
EXTENDS Integers, Sequences

CONSTANTS Byte,     \* values of a byte
          MaxLen,   \* the longest stream
          Data,     \* what is written at once
          Sizes     \* arguments of reads and seeks

VARIABLES stream,   \* the bytes
          pos,      \* how many of them are before the position
          inStream, \* a write in the middle keeps what is behind it
          append,   \* a write goes to the end
          ret       \* the last call's name, returned number and bytes

vars == <<stream, pos, inStream, append, ret>>

Returns(op, n, bytes) == ret' = [op |-> op, n |-> n, data |-> bytes]

Init == /\ stream = <<>>
        /\ pos = 0
        /\ inStream = TRUE
        /\ append = FALSE
        /\ ret = [op |-> "MBuffer", n |-> 0, data |-> <<>>]

\* Stream s with d written behind its first p bytes.
Written(s, p, d) ==
    LET end == p + Len(d)
        len == IF inStream /\ Len(s) > end THEN Len(s) ELSE end
    IN  [i \in 1 .. len |-> IF i \in p + 1 .. end THEN d[i - p] ELSE s[i]]

\* All of d is written, or nothing of it.  The answer is how much was written,
\* as the code has it, and not the position that mbuffer.h:48 says.
Write(d) ==
    LET p == IF append THEN Len(stream) ELSE pos
    IN  /\ \/ /\ p + Len(d) <= MaxLen
              /\ stream' = Written(stream, p, d)
              /\ pos' = p + Len(d)
              /\ Returns("Write", Len(d), <<>>)
           \/ /\ p + Len(d) > MaxLen
              /\ pos' = p
              /\ Returns("Write", 0, <<>>)
              /\ UNCHANGED stream
        /\ UNCHANGED <<inStream, append>>

\* Up to n bytes are read; a value of n bytes is returned whole or not at all,
\* but what there is of it is read.
Read(n) ==
    LET k == IF Len(stream) - pos >= n THEN n ELSE Len(stream) - pos
        bytes == [i \in 1 .. k |-> stream[pos + i]]
    IN  /\ pos' = pos + k
        /\ \/ Returns("Read", k, bytes)
           \/ k = n /\ Returns("ReadVal", n, bytes)
           \/ k < n /\ Returns("ReadVal", 0, <<>>)
        /\ UNCHANGED <<stream, inStream, append>>

Seek(n) ==
    /\ pos' = IF n > Len(stream) THEN Len(stream) ELSE n
    /\ Returns("Seek", 0, <<>>)
    /\ UNCHANGED <<stream, inStream, append>>

Clear ==
    /\ stream' = <<>>
    /\ pos' = 0
    /\ Returns("Clear", 0, <<>>)
    /\ UNCHANGED <<inStream, append>>

SetMode(in, app) ==
    /\ inStream' = in
    /\ append' = app
    /\ Returns("Set", 0, <<>>)
    /\ UNCHANGED <<stream, pos>>

Next ==
    \/ \E d \in Data : Write(d)
    \/ \E n \in Sizes : Read(n) \/ Seek(n)
    \/ Clear
    \/ \E in, app \in BOOLEAN : SetMode(in, app)

Spec == Init /\ [][Next]_vars
=============================================================================
