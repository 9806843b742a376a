------------------------------- MODULE Codec -------------------------------
(***************************************************************************)
(* The conversions between values and the text of SQL statements and rows: *)
(* str (str.cpp), and safestr, unsafestr, a2bigint and a2ubigint of Query. *)
(* A behaviour takes one string or number on its way through a statement,  *)
(* the database and a row.  Characters are their codes.                    *)
(***************************************************************************)
EXTENDS Integers, Sequences, SequencesExt

CONSTANTS Word,   \* 2 to the number of bits of an int
          Long,   \* the same of int64_t and uint64_t
          Chars,  \* the characters of the strings
          MaxLen, \* bound: how long the strings are
          Bases   \* bases that str is asked for

Ints == -(Word \div 2) .. Word \div 2 - 1

ASSUME CodecAssumption ==
    /\ Word \in Nat \ {0} /\ Word % 2 = 0
    /\ Long \in Nat /\ Long % 2 = 0 /\ Word <= Long
    /\ Chars \subseteq 0 .. 255
    /\ MaxLen \in Nat
    /\ Bases \subseteq Nat

VARIABLES kind,   \* "string" or "int", or "none" if there is no value
          given,  \* the value
          base,   \* and the base in which it is written, if it is an int
          text,   \* what the program puts into the statement
          column, \* what the row has, as text, or NULL
          got,    \* what the program reads from it
          step    \* "given", "text", "column", "got" or "unsafe"

valueVars == <<kind, given, base, text, column, got, step>>

NULL == <<-1>>

-----------------------------------------------------------------------------
(* Numbers.  Division truncates towards zero.                              *)

Abs(n) == IF n < 0 THEN -n ELSE n
Quot(a, b) == IF a < 0 THEN -((-a) \div b) ELSE a \div b
Rest(a, b) == a - b * Quot(a, b)

Digit(d) == IF d < 10 THEN 48 + d ELSE 87 + d
Minus == 45

\* Mutant: the loop tests before its first pass.
DigitsWhile(n, b) ==
    LET D[q \in Ints] == IF q = 0 THEN <<>>
                         ELSE <<Digit(Abs(Rest(q, b)))>> \o D[Quot(q, b)]
    IN  D[n]

\* The digits, the last one first; a negative number is not made positive, for
\* the least of them has no counterpart.
Digits(n, b) ==
    LET D[q \in Ints] == <<Digit(Abs(Rest(q, b)))>> \o
                         IF Quot(q, b) = 0 THEN <<>> ELSE D[Quot(q, b)]
    IN  D[n]

Str(n, b) ==
    IF b \notin 2 .. 16 THEN <<>>
    ELSE Reverse(Digits(n, b) \o IF n < 0 /\ b = 10 THEN <<Minus>> ELSE <<>>)

\* In 64 bits; where val overflows as a signed number, it wraps.
Signed(n) == LET m == n % Long IN IF m < Long \div 2 THEN m ELSE m - Long

A2Ubigint(s) ==
    LET val[i \in 0 .. Len(s)] == IF i = 0 THEN 0 ELSE (val[i - 1] * 10 + (s[i] - 48)) % Long
    IN  val[Len(s)]

\* Mutant: the sign is skipped and forgotten.
A2BigintUnsigned(s) ==
    Signed(A2Ubigint(IF s # <<>> /\ s[1] = Minus THEN Tail(s) ELSE s))

A2Bigint(s) ==
    IF s # <<>> /\ s[1] = Minus THEN Signed(-A2Ubigint(Tail(s))) ELSE Signed(A2Ubigint(s))

\* A column that is NULL is read as 0.
Getbigint == IF column = NULL THEN 0 ELSE A2Bigint(column)
Getubigint == IF column = NULL THEN 0 ELSE A2Ubigint(column)

-----------------------------------------------------------------------------
(* Strings.                                                                *)

Quote == 39
DoubleQuote == 34
Backslash == 92

\* Mutant: the backslash itself is not escaped.
EscapedQuotes(c) ==
    CASE c = 0 -> <<>>
      [] c \in {Quote, DoubleQuote} -> <<Backslash, c>>
      [] OTHER -> <<c>>

Escaped(c) ==
    CASE c = 0 -> <<>>
      [] c \in {Quote, Backslash, DoubleQuote} -> <<Backslash, c>>
      [] OTHER -> <<c>>

SafeStr(s) == FlattenSeq([i \in DOMAIN s |-> Escaped(s[i])])

\* Mutant: every backslash is dropped.
UnsafeStrNone(s) == SelectSeq(s, LAMBDA c : c # Backslash)

\* A backslash is dropped and what follows it is taken as it is.
UnsafeStr(s) ==
    LET Unsafe[i \in 1 .. Len(s) + 2] ==
            LET j == IF i <= Len(s) /\ s[i] = Backslash THEN i + 1 ELSE i
            IN  IF j > Len(s) THEN <<>> ELSE <<s[j]>> \o Unsafe[j + 1]
    IN  Unsafe[1]

\* How MySQL reads a character of a literal, behind its opening quote: a backslash
\* changes what follows it ("\n" is a line feed), and a quote without one ends it.
ReadChar(l, c) ==
    IF l.ended THEN l
    ELSE IF l.escape THEN [l EXCEPT !.escape = FALSE,
                                    !.value = Append(@, IF c = 110 THEN 10 ELSE c)]
    ELSE IF c = Backslash THEN [l EXCEPT !.escape = TRUE]
    ELSE IF c = Quote THEN [l EXCEPT !.ended = TRUE]
    ELSE [l EXCEPT !.value = Append(@, c)]

Literal(s) ==
    LET read[i \in 0 .. Len(s)] ==
            IF i = 0 THEN [value |-> <<>>, escape |-> FALSE, ended |-> FALSE]
            ELSE ReadChar(read[i - 1], s[i])
    IN  read[Len(s)]

-----------------------------------------------------------------------------
Strings == UNION {[1 .. n -> Chars] : n \in 0 .. MaxLen}

ValueInit ==
    /\ \/ kind = "string" /\ given \in Strings /\ base = 10
       \/ kind = "int" /\ given \in Ints /\ base \in Bases
    /\ text = <<>>
    /\ column = NULL
    /\ got = 0
    /\ step = "given"

\* The statement is composed.
Compose ==
    /\ step = "given" /\ step' = "text"
    /\ text' = IF kind = "string" THEN SafeStr(given) ELSE Str(given, base)
    /\ UNCHANGED <<kind, given, base, column, got>>

\* MySQL stores what it reads in the statement; a number may also be NULL.
Store ==
    /\ step = "text" /\ step' = "column"
    /\ \/ kind = "string" /\ column' = Literal(text).value
       \/ kind = "int" /\ base = 10 /\ column' \in {text, NULL}
    /\ UNCHANGED <<kind, given, base, text, got>>

\* The getters.
Get ==
    /\ step = "column" /\ step' = "got"
    /\ \/ kind = "string" /\ got' = column
       \/ kind = "int" /\ got' = Getbigint
       \/ kind = "int" /\ given >= 0 /\ got' = Getubigint
    /\ UNCHANGED <<kind, given, base, text, column>>

\* Or the text is converted back.
Unsafe ==
    /\ kind = "string" /\ step = "text" /\ step' = "unsafe"
    /\ got' = UnsafeStr(text)
    /\ UNCHANGED <<kind, given, base, text, column>>

ValueNext == Compose \/ Store \/ Get \/ Unsafe

ValueSpec == ValueInit /\ [][ValueNext]_valueVars

-----------------------------------------------------------------------------
\* A string in a statement ends where the program closes its quotes, whatever the
\* client has sent (main.cpp:50-71).
LiteralWhole ==
    kind = "string" /\ step # "given" => ~Literal(text).ended /\ ~Literal(text).escape

WithoutNul(s) == FlattenSeq([i \in DOMAIN s |-> IF s[i] = 0 THEN <<>> ELSE <<s[i]>>])

\* Names and passwords come back as they were given, but for characters 0, by way
\* of the database and by that of unsafestr (Query.cpp:327-364).
StringKept ==
    kind = "string" /\ step \in {"got", "unsafe"} => got = WithoutNul(given)

\* Numbers come back as they were given, the least one too (str.cpp:21-39,
\* Query.cpp:415-441); NULL is 0.
NumberKept ==
    kind = "int" /\ step = "got" => got = IF column = NULL THEN 0 ELSE given

\* What a text says in a base, each digit below the base.
Value(s, b) ==
    LET val[i \in 0 .. Len(s)] ==
            IF i = 0 THEN 0 ELSE val[i - 1] * b + CHOOSE d \in 0 .. b - 1 : Digit(d) = s[i]
    IN  val[Len(s)]

\* In every base there is str's text of the number, without zeros in front and with
\* the sign in base 10 alone; for what is no base, the text is empty (str.cpp:27).
TextRight ==
    kind = "int" /\ step # "given" =>
        IF base \notin 2 .. 16 THEN text = <<>>
        ELSE LET signed == given < 0 /\ base = 10
                 digits == IF signed THEN Tail(text) ELSE text
             IN  /\ signed => text[1] = Minus
                 /\ digits # <<>>
                 /\ digits[1] = Digit(0) => Len(digits) = 1
                 /\ Value(digits, base) = Abs(given)
=============================================================================
