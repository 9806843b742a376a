----------------------------- MODULE DataProofs -----------------------------
(***************************************************************************)
(* What the database gives back.  Strings with any characters, of any      *)
(* length, and the numbers of an int of any width come back as they went;  *)
(* a literal is read to its end; str writes every number right in every    *)
(* base.  The loops over characters and digits are folds (Folds), which    *)
(* exist and of which there is one only, so what each does is shown by     *)
(* induction on the strings.                                               *)
(*                                                                         *)
(* SET and ENUM objects say the names they were given, for any names,      *)
(* numbers and objects.  A SET's number is the union of its names' and the *)
(* shared map only gains entries.  An ENUM's map is that of a part of the  *)
(* shared one, and of all of it if the sizes are the same.                 *)
(***************************************************************************)
EXTENDS Codec, Columns, SequenceTheorems, FiniteSetTheorems, WellFoundedInduction, TLAPS

\* Induction, with a set for what is to be shown.
LEMMA NatInd ==
  ASSUME NEW S, 0 \in S, \A n \in Nat : n \in S => n + 1 \in S
  PROVE  Nat \subseteq S
  <1> DEFINE R == {ss \in Nat \X Nat : ss[1] < ss[2]}
             T == Nat \ S
  <1>1. IsWellFoundedOn(R, Nat)
    BY NatLessThanWellFounded DEF OpToRel
  <1>2. SUFFICES ASSUME T # {} PROVE FALSE
    OBVIOUS
  <1>3. PICK x \in T : \A y \in T : ~(<<y, x>> \in R)
    BY <1>1, <1>2, WFMin
  <1>4. x # 0 /\ x - 1 \in Nat
    OBVIOUS
  <1>5. x - 1 \in S
    <2>1. <<x - 1, x>> \in R
      BY <1>4
    <2> QED  BY <1>3, <1>4, <2>1
  <1> QED  BY <1>4, <1>5

LEMMA SeqInd ==
  ASSUME NEW A, NEW S, <<>> \in S,
         \A s \in Seq(A) : \A e \in A : s \in S => Append(s, e) \in S
  PROVE  Seq(A) \subseteq S
  <1> DEFINE N == {n \in Nat : \A s \in Seq(A) : Len(s) = n => s \in S}
  <1>1. 0 \in N
    <2>1. \A s \in Seq(A) : Len(s) = 0 => s = <<>>
      BY EmptySeq
    <2> QED  BY <2>1
  <1>2. ASSUME NEW n \in Nat, n \in N
        PROVE  n + 1 \in N
    <2>1. ASSUME NEW s \in Seq(A), Len(s) = n + 1
          PROVE  s \in S
      <3>1. s # <<>>
        BY <2>1
      <3>2. PICK t \in Seq(A), e \in A : s = Append(t, e)
        BY <3>1, SequenceEmptyOrAppend
      <3>3. Len(t) = n
        BY <2>1, <3>2, AppendProperties
      <3> QED  BY <1>2, <3>2, <3>3
    <2> QED  BY <2>1
  <1>3. Nat \subseteq N
    <2> HIDE DEF N
    <2> QED  BY <1>1, <1>2, NatInd
  <1> QED  BY <1>3

-----------------------------------------------------------------------------
\* Loops over the characters of a string.  f has what next makes of those of s,
\* from init on.
Runs(f, A, V, init, next, s) ==
    /\ f \in [0 .. Len(s) -> V]
    /\ f[0] = init
    /\ \A i \in 1 .. Len(s) : f[i] = next[<<f[i - 1], s[i]>>]

Yields(A, V, init, next, s, v) == \E f : Runs(f, A, V, init, next, s) /\ f[Len(s)] = v

\* One character more.
LEMMA YieldsNext ==
  ASSUME NEW A, NEW V, NEW init \in V, NEW next \in [V \X A -> V],
         NEW s \in Seq(A), NEW c \in A, NEW v, Yields(A, V, init, next, s, v)
  PROVE  Yields(A, V, init, next, Append(s, c), next[<<v, c>>])
  <1>1. PICK f : Runs(f, A, V, init, next, s) /\ f[Len(s)] = v
    BY DEF Yields
  <1> DEFINE n == Len(s)
             g == [i \in 0 .. n + 1 |-> IF i <= n THEN f[i] ELSE next[<<v, c>>]]
  <1>2. /\ n \in Nat /\ Len(Append(s, c)) = n + 1 /\ Append(s, c)[n + 1] = c
        /\ \A i \in 1 .. n : Append(s, c)[i] = s[i]
    BY AppendProperties
  <1>3. f \in [0 .. n -> V] /\ f[0] = init /\ v \in V /\ f[n] = v
    BY <1>1, <1>2 DEF Runs
  <1>4. \A i \in 1 .. n : f[i] = next[<<f[i - 1], s[i]>>]
    BY <1>1 DEF Runs
  <1>5. next[<<v, c>>] \in V
    BY <1>3
  <1>6. g \in [0 .. n + 1 -> V] /\ g[0] = init /\ g[n + 1] = next[<<v, c>>] /\ g[n] = v
        /\ \A i \in 0 .. n : g[i] = f[i]
    <2> HIDE DEF n
    <2> QED  BY <1>2, <1>3, <1>5
  <1>7. ASSUME NEW i \in 1 .. n + 1
        PROVE  g[i] = next[<<g[i - 1], Append(s, c)[i]>>]
    <2> HIDE DEF n, g
    <2>1. CASE i = n + 1
      <3>1. i - 1 = n
        BY <1>2, <2>1
      <3>2. g[i] = next[<<v, c>>] /\ g[i - 1] = v /\ Append(s, c)[i] = c
        BY <1>2, <1>6, <2>1, <3>1
      <3> QED  BY <3>2
    <2>2. CASE i \in 1 .. n
      <3>1. i \in 0 .. n /\ i - 1 \in 0 .. n
        BY <1>2, <2>2
      <3>2. g[i] = f[i] /\ g[i - 1] = f[i - 1]
        BY <1>6, <3>1
      <3>3. f[i] = next[<<f[i - 1], s[i]>>] /\ Append(s, c)[i] = s[i]
        BY <1>2, <1>4, <2>2
      <3> QED  BY <3>2, <3>3
    <2>3. i = n + 1 \/ i \in 1 .. n
      BY <1>2
    <2> QED  BY <2>1, <2>2, <2>3
  <1>8. Runs(g, A, V, init, next, Append(s, c))
    <2> HIDE DEF n, g
    <2> QED  BY <1>2, <1>6, <1>7 DEF Runs
  <1> QED  BY <1>2, <1>6, <1>8 DEF Yields

\* There is one result only.
LEMMA YieldsOnce ==
  ASSUME NEW A, NEW V, NEW init, NEW next, NEW s \in Seq(A), NEW v, NEW w,
         Yields(A, V, init, next, s, v), Yields(A, V, init, next, s, w)
  PROVE  v = w
  <1>1. PICK f : Runs(f, A, V, init, next, s) /\ f[Len(s)] = v
    BY DEF Yields
  <1>2. PICK g : Runs(g, A, V, init, next, s) /\ g[Len(s)] = w
    BY DEF Yields
  <1> DEFINE N == {n \in Nat : n <= Len(s) => f[n] = g[n]}
  <1>3. 0 \in N
    BY <1>1, <1>2 DEF Runs
  <1>4. ASSUME NEW n \in Nat, n \in N
        PROVE  n + 1 \in N
    <2>1. CASE n + 1 <= Len(s)
      <3>1. n + 1 \in 1 .. Len(s) /\ f[n] = g[n] /\ n + 1 - 1 = n
        BY <1>4, <2>1
      <3>2. /\ f[n + 1] = next[<<f[n + 1 - 1], s[n + 1]>>]
            /\ g[n + 1] = next[<<g[n + 1 - 1], s[n + 1]>>]
        BY <1>1, <1>2, <3>1 DEF Runs
      <3> QED  BY <3>1, <3>2
    <2> QED  BY <2>1
  <1>5. Nat \subseteq N
    <2> HIDE DEF N
    <2> QED  BY <1>3, <1>4, NatInd
  <1> QED  BY <1>1, <1>2, <1>5

Folds(F, A, V, init, next) ==
    /\ F \in [Seq(A) -> V] /\ F[<<>>] = init
    /\ \A s \in Seq(A) : \A c \in A : F[Append(s, c)] = next[<<F[s], c>>]

\* What a step makes of the characters is a function of the strings.
LEMMA FoldExists ==
  ASSUME NEW A, NEW V, NEW init \in V, NEW next \in [V \X A -> V]
  PROVE  \E F : Folds(F, A, V, init, next)
  <1> DEFINE S == {s \in Seq(A) : \E v \in V : Yields(A, V, init, next, s, v)}
             F == [s \in Seq(A) |-> CHOOSE v \in V : Yields(A, V, init, next, s, v)]
  <1>1. Yields(A, V, init, next, <<>>, init)
    <2>1. Runs([i \in 0 .. 0 |-> init], A, V, init, next, <<>>)
      BY DEF Runs
    <2> QED  BY <2>1 DEF Yields
  <1>2. ASSUME NEW s \in Seq(A), NEW c \in A, s \in S
        PROVE  Append(s, c) \in S
    <2>1. PICK v \in V : Yields(A, V, init, next, s, v)
      BY <1>2
    <2>2. Yields(A, V, init, next, Append(s, c), next[<<v, c>>])
      BY <2>1, YieldsNext
    <2>3. next[<<v, c>>] \in V /\ Append(s, c) \in Seq(A)
      BY <2>1
    <2> QED  BY <2>2, <2>3
  <1>3. Seq(A) \subseteq S
    <2>1. <<>> \in S
      BY <1>1
    <2> HIDE DEF S
    <2> QED  BY <1>2, <2>1, SeqInd
  <1>4. ASSUME NEW s \in Seq(A)
        PROVE  F[s] \in V /\ Yields(A, V, init, next, s, F[s])
    BY <1>3, Zenon
  <1>5. F[<<>>] = init
    <2>1. <<>> \in Seq(A)
      OBVIOUS
    <2>2. Yields(A, V, init, next, <<>>, F[<<>>])
      BY <1>4, <2>1
    <2> HIDE DEF F
    <2> QED  BY <1>1, <2>1, <2>2, YieldsOnce
  <1>6. ASSUME NEW s \in Seq(A), NEW c \in A
        PROVE  F[Append(s, c)] = next[<<F[s], c>>]
    <2>1. Append(s, c) \in Seq(A)
      OBVIOUS
    <2>2. Yields(A, V, init, next, Append(s, c), F[Append(s, c)])
      BY <1>4, <2>1
    <2>3. Yields(A, V, init, next, s, F[s])
      BY <1>4
    <2> HIDE DEF F
    <2>4. Yields(A, V, init, next, Append(s, c), next[<<F[s], c>>])
      BY <2>3, YieldsNext
    <2> QED  BY <2>1, <2>2, <2>4, YieldsOnce
  <1>7. F \in [Seq(A) -> V]
    BY <1>4
  <1> HIDE DEF F
  <1> QED  BY <1>5, <1>6, <1>7 DEF Folds

\* What is made of a beginning of the string.
LEMMA FoldPrefix ==
  ASSUME NEW A, NEW V, NEW init, NEW next, NEW F, Folds(F, A, V, init, next),
         NEW s \in Seq(A)
  PROVE  /\ SubSeq(s, 1, 0) = <<>> /\ SubSeq(s, 1, Len(s)) = s
         /\ \A i \in 0 .. Len(s) : F[SubSeq(s, 1, i)] \in V
         /\ F[SubSeq(s, 1, 0)] = init
         /\ \A i \in 1 .. Len(s) :
                F[SubSeq(s, 1, i)] = next[<<F[SubSeq(s, 1, i - 1)], s[i]>>]
  <1>1. SubSeq(s, 1, 0) = <<>>
    BY SubSeqEmpty
  <1>2. SubSeq(s, 1, Len(s)) = s
    BY SubSeqFull
  <1>3. ASSUME NEW i \in 0 .. Len(s)
        PROVE  SubSeq(s, 1, i) \in Seq(A)
    BY SubSeqProperties
  <1>4. ASSUME NEW i \in 1 .. Len(s)
        PROVE  SubSeq(s, 1, i) = Append(SubSeq(s, 1, i - 1), s[i])
    <2>1. i \in Nat /\ 1 .. i - 1 \subseteq 1 .. Len(s)
      OBVIOUS
    <2> QED  BY <2>1, SubSeqRecursiveSecond
  <1>5. ASSUME NEW i \in 1 .. Len(s)
        PROVE  F[SubSeq(s, 1, i)] = next[<<F[SubSeq(s, 1, i - 1)], s[i]>>]
    <2>1. i - 1 \in 0 .. Len(s) /\ s[i] \in A
      BY ElementOfSeq
    <2>2. SubSeq(s, 1, i - 1) \in Seq(A)
      BY <1>3, <2>1
    <2> QED  BY <1>4, <2>1, <2>2 DEF Folds
  <1> QED  BY <1>1, <1>2, <1>3, <1>5 DEF Folds

Loops(f, V, init, next, s) ==
    /\ f[0] = init
    /\ \A i \in 1 .. Len(s) : f[i - 1] \in V => f[i] = next[<<f[i - 1], s[i]>>]

\* A loop over the characters ends with what is made of the string.
LEMMA FoldLoop ==
  ASSUME NEW A, NEW V, NEW init, NEW next, NEW F, Folds(F, A, V, init, next),
         NEW s \in Seq(A), NEW f, Loops(f, V, init, next, s)
  PROVE  f[Len(s)] = F[s]
  <1> DEFINE N == {n \in Nat : n <= Len(s) => f[n] = F[SubSeq(s, 1, n)]}
  <1>1. 0 \in N
    BY FoldPrefix DEF Loops
  <1>2. ASSUME NEW n \in Nat, n \in N
        PROVE  n + 1 \in N
    <2>1. CASE n + 1 <= Len(s)
      <3>1. n + 1 \in 1 .. Len(s) /\ n \in 0 .. Len(s) /\ n + 1 - 1 = n
        BY <2>1
      <3>2. f[n] = F[SubSeq(s, 1, n)]
        BY <1>2, <3>1
      <3>3. F[SubSeq(s, 1, n)] \in V
        BY <3>1, FoldPrefix
      <3>4. F[SubSeq(s, 1, n + 1)] = next[<<F[SubSeq(s, 1, n)], s[n + 1]>>]
        BY <3>1, FoldPrefix
      <3> QED  BY <3>1, <3>2, <3>3, <3>4 DEF Loops
    <2> QED  BY <2>1
  <1>3. Nat \subseteq N
    <2> HIDE DEF N
    <2> QED  BY <1>1, <1>2, NatInd
  <1>4. f[Len(s)] = F[SubSeq(s, 1, Len(s))]
    BY <1>3
  <1> QED  BY <1>4, FoldPrefix

\* The loop of a2ubigint.
LEMMA A2UbigintFolds ==
  \E F : /\ Folds(F, Int, Int, 0, [p \in Int \X Int |-> (p[1] * 10 + (p[2] - 48)) % Long])
         /\ \A s \in Seq(Int) : A2Ubigint(s) = F[s]
  <1> DEFINE next == [p \in Int \X Int |-> (p[1] * 10 + (p[2] - 48)) % Long]
  <1>1. next \in [Int \X Int -> Int]
    BY CodecAssumption
  <1>2. PICK F : Folds(F, Int, Int, 0, next)
    <2> HIDE DEF next
    <2>1. 0 \in Int
      OBVIOUS
    <2> QED  BY <1>1, <2>1, FoldExists, Zenon
  <1>3. ASSUME NEW s \in Seq(Int)
        PROVE  A2Ubigint(s) = F[s]
    <2> DEFINE g == [i \in 0 .. Len(s) |-> F[SubSeq(s, 1, i)]]
               f == CHOOSE f : f = [i \in 0 .. Len(s) |->
                        IF i = 0 THEN 0 ELSE (f[i - 1] * 10 + (s[i] - 48)) % Long]
    <2>1. A2Ubigint(s) = f[Len(s)]
      BY DEF A2Ubigint
    <2>2. ASSUME NEW i \in 0 .. Len(s)
          PROVE  g[i] = IF i = 0 THEN 0 ELSE (g[i - 1] * 10 + (s[i] - 48)) % Long
      <3>1. CASE i = 0
        BY <1>2, <3>1, FoldPrefix
      <3>2. CASE i # 0
        <4>1. i \in 1 .. Len(s) /\ i - 1 \in 0 .. Len(s) /\ s[i] \in Int
          BY <3>2, ElementOfSeq
        <4> HIDE DEF next
        <4>2. g[i] = next[<<g[i - 1], s[i]>>] /\ g[i - 1] \in Int
          BY <1>2, <4>1, FoldPrefix
        <4> QED  BY <3>2, <4>1, <4>2 DEF next
      <3> QED  BY <3>1, <3>2
    <2>3. g = [i \in 0 .. Len(s) |-> IF i = 0 THEN 0 ELSE (g[i - 1] * 10 + (s[i] - 48)) % Long]
      BY <2>2
    <2>4. f = [i \in 0 .. Len(s) |-> IF i = 0 THEN 0 ELSE (f[i - 1] * 10 + (s[i] - 48)) % Long]
      BY <2>3, Zenon
    <2> HIDE DEF f, g
    <2>5. f[0] = 0
      BY <2>4
    <2>6. ASSUME NEW i \in 1 .. Len(s), f[i - 1] \in Int
          PROVE  f[i] = next[<<f[i - 1], s[i]>>]
      <3>1. i \in 0 .. Len(s) /\ i # 0
        OBVIOUS
      <3>2. f[i] = (f[i - 1] * 10 + (s[i] - 48)) % Long
        BY <2>4, <3>1
      <3>3. s[i] \in Int
        BY ElementOfSeq
      <3> QED  BY <2>6, <3>2, <3>3
    <2> HIDE DEF next
    <2>7. Loops(f, Int, 0, next, s)
      BY <2>5, <2>6 DEF Loops
    <2>8. f[Len(s)] = F[s]
      BY <1>2, <2>7, FoldLoop
    <2> QED  BY <2>1, <2>8
  <1> HIDE DEF next
  <1>4. \E G : /\ Folds(G, Int, Int, 0, next)
               /\ \A s \in Seq(Int) : A2Ubigint(s) = G[s]
    BY <1>2, <1>3
  <1> QED  BY <1>4 DEF next

LEMMA A2UbigintAppend ==
  /\ A2Ubigint(<<>>) = 0
  /\ \A s \in Seq(Int) : A2Ubigint(s) \in Int
  /\ \A s \in Seq(Int) : \A c \in Int :
         A2Ubigint(Append(s, c)) = (A2Ubigint(s) * 10 + (c - 48)) % Long
  <1> DEFINE next == [p \in Int \X Int |-> (p[1] * 10 + (p[2] - 48)) % Long]
  <1>1. PICK F : Folds(F, Int, Int, 0, next) /\ \A s \in Seq(Int) : A2Ubigint(s) = F[s]
    BY A2UbigintFolds
  <1>2. ASSUME NEW s \in Seq(Int), NEW c \in Int
        PROVE  /\ A2Ubigint(s) \in Int
               /\ A2Ubigint(Append(s, c)) = (A2Ubigint(s) * 10 + (c - 48)) % Long
    <2>1. Append(s, c) \in Seq(Int)
      OBVIOUS
    <2>2. F[s] \in Int /\ F[Append(s, c)] = next[<<F[s], c>>]
      <3> HIDE DEF next
      <3> QED  BY <1>1 DEF Folds
    <2> QED  BY <1>1, <2>1, <2>2
  <1>3. A2Ubigint(<<>>) = 0
    <2>1. <<>> \in Seq(Int)
      OBVIOUS
    <2> HIDE DEF next
    <2> QED  BY <1>1, <2>1 DEF Folds
  <1> QED  BY <1>2, <1>3

-----------------------------------------------------------------------------
\* Strings put together.
Cat(B) == [p \in Seq(B) \X Seq(B) |-> p[1] \o p[2]]

LEMMA FlattenFolds ==
  ASSUME NEW B
  PROVE  \E F : /\ Folds(F, Seq(B), Seq(B), <<>>, Cat(B))
                /\ \A ss \in Seq(Seq(B)) : FlattenSeq(ss) = F[ss]
  <1>1. Cat(B) \in [Seq(B) \X Seq(B) -> Seq(B)]
    BY ConcatProperties DEF Cat
  <1>2. PICK F : Folds(F, Seq(B), Seq(B), <<>>, Cat(B))
    <2>1. <<>> \in Seq(B)
      OBVIOUS
    <2> QED  BY <1>1, <2>1, FoldExists, Zenon
  <1>3. ASSUME NEW ss \in Seq(Seq(B)), Len(ss) # 0
        PROVE  FlattenSeq(ss) = F[ss]
    <2> DEFINE g == [i \in 1 .. Len(ss) |-> F[SubSeq(ss, 1, i)]]
               f == CHOOSE f : f = [i \in 1 .. Len(ss) |-> IF i = 1 THEN ss[i] ELSE f[i - 1] \o ss[i]]
               h == [i \in 0 .. Len(ss) |-> IF i = 0 THEN <<>> ELSE f[i]]
    <2>1. FlattenSeq(ss) = f[Len(ss)]
      BY <1>3 DEF FlattenSeq
    <2>2. \A i \in 1 .. Len(ss) : ss[i] \in Seq(B)
      BY ElementOfSeq
    <2>3. ASSUME NEW i \in 1 .. Len(ss)
          PROVE  g[i] = IF i = 1 THEN ss[i] ELSE g[i - 1] \o ss[i]
      <3>1. F[SubSeq(ss, 1, i)] = Cat(B)[<<F[SubSeq(ss, 1, i - 1)], ss[i]>>]
        BY <1>2, FoldPrefix
      <3>2. F[SubSeq(ss, 1, i - 1)] \in Seq(B)
        <4>1. i - 1 \in 0 .. Len(ss)
          OBVIOUS
        <4> QED  BY <1>2, <4>1, FoldPrefix
      <3>3. F[SubSeq(ss, 1, i)] = F[SubSeq(ss, 1, i - 1)] \o ss[i]
        BY <2>2, <3>1, <3>2 DEF Cat
      <3>4. CASE i = 1
        <4>1. F[SubSeq(ss, 1, 0)] = <<>>
          BY <1>2, FoldPrefix
        <4>2. i - 1 = 0 /\ g[i] = F[SubSeq(ss, 1, i)]
          BY <3>4
        <4> HIDE DEF g
        <4>3. g[i] = <<>> \o ss[i]
          BY <3>3, <4>1, <4>2
        <4>4. ss[i] \in Seq(B)
          BY <2>2
        <4> QED  BY <3>4, <4>3, <4>4, ConcatEmptySeq
      <3>5. CASE i # 1
        <4>1. i - 1 \in 1 .. Len(ss)
          BY <3>5
        <4> QED  BY <3>3, <3>5, <4>1
      <3> QED  BY <3>4, <3>5
    <2>4. g = [i \in 1 .. Len(ss) |-> IF i = 1 THEN ss[i] ELSE g[i - 1] \o ss[i]]
      BY <2>3
    <2>5. f = [i \in 1 .. Len(ss) |-> IF i = 1 THEN ss[i] ELSE f[i - 1] \o ss[i]]
      BY <2>4, Zenon
    <2> HIDE DEF f, g
    <2>6. h[0] = <<>> /\ \A i \in 1 .. Len(ss) : h[i] = f[i]
      OBVIOUS
    <2> HIDE DEF h
    <2>7. ASSUME NEW i \in 1 .. Len(ss), h[i - 1] \in Seq(B)
          PROVE  h[i] = Cat(B)[<<h[i - 1], ss[i]>>]
      <3>1. Cat(B)[<<h[i - 1], ss[i]>>] = h[i - 1] \o ss[i]
        BY <2>2, <2>7 DEF Cat
      <3>2. CASE i = 1
        <4>1. h[i] = ss[i] /\ h[i - 1] = <<>>
          BY <2>5, <2>6, <3>2
        <4>2. ss[i] \in Seq(B)
          BY <2>2
        <4> QED  BY <3>1, <4>1, <4>2, ConcatEmptySeq
      <3>3. CASE i # 1
        <4>1. i - 1 \in 1 .. Len(ss)
          BY <3>3
        <4>2. f[i] = f[i - 1] \o ss[i]
          BY <2>5, <3>3
        <4> QED  BY <2>6, <3>1, <4>1, <4>2
      <3> QED  BY <3>2, <3>3
    <2>8. Loops(h, Seq(B), <<>>, Cat(B), ss)
      BY <2>6, <2>7 DEF Loops
    <2>9. h[Len(ss)] = F[ss]
      BY <1>2, <2>8, FoldLoop
    <2>10. Len(ss) \in 1 .. Len(ss)
      BY <1>3
    <2> QED  BY <2>1, <2>6, <2>9, <2>10
  <1>4. ASSUME NEW ss \in Seq(Seq(B)), Len(ss) = 0
        PROVE  FlattenSeq(ss) = F[ss]
    <2>1. ss = <<>>
      BY <1>4, EmptySeq
    <2> QED  BY <1>2, <2>1 DEF FlattenSeq, Folds
  <1>5. \A ss \in Seq(Seq(B)) : FlattenSeq(ss) = F[ss]
    BY <1>3, <1>4
  <1> QED  BY <1>2, <1>5

LEMMA FlattenAppend ==
  ASSUME NEW B, NEW ss \in Seq(Seq(B)), NEW t \in Seq(B)
  PROVE  /\ FlattenSeq(<<>>) = <<>>
         /\ FlattenSeq(ss) \in Seq(B)
         /\ FlattenSeq(Append(ss, t)) = FlattenSeq(ss) \o t
  <1>1. PICK F : /\ Folds(F, Seq(B), Seq(B), <<>>, Cat(B))
                 /\ \A r \in Seq(Seq(B)) : FlattenSeq(r) = F[r]
    BY FlattenFolds
  <1>2. FlattenSeq(<<>>) = <<>>
    BY DEF FlattenSeq
  <1>3. F[ss] \in Seq(B)
    BY <1>1 DEF Folds
  <1>4. F[Append(ss, t)] = Cat(B)[<<F[ss], t>>]
    BY <1>1 DEF Folds
  <1>5. F[Append(ss, t)] = F[ss] \o t
    BY <1>3, <1>4 DEF Cat
  <1>6. Append(ss, t) \in Seq(Seq(B))
    OBVIOUS
  <1> QED  BY <1>1, <1>2, <1>3, <1>5, <1>6

Map(f, s) == [i \in DOMAIN s |-> f[s[i]]]

Appends(f, s, c) == Map(f, Append(s, c)) = Append(Map(f, s), f[c])

LEMMA MapNext ==
  ASSUME NEW A, NEW V, NEW f \in [A -> V], NEW s \in Seq(A), NEW c \in A
  PROVE  Map(f, s) \in Seq(V) /\ Appends(f, s, c)
  <1> DEFINE m == Map(f, s)
             n == Map(f, Append(s, c))
  <1> USE DEF Map
  <1>1. /\ Len(s) \in Nat /\ DOMAIN s = 1 .. Len(s) /\ Append(s, c) \in Seq(A)
        /\ Len(Append(s, c)) = Len(s) + 1 /\ DOMAIN Append(s, c) = 1 .. Len(s) + 1
        /\ Append(s, c)[Len(s) + 1] = c
        /\ \A i \in 1 .. Len(s) : Append(s, c)[i] = s[i]
    BY AppendProperties, LenProperties
  <1>2. \A i \in 1 .. Len(s) : s[i] \in A
    BY ElementOfSeq
  <1>3. m \in Seq(V) /\ Len(m) = Len(s)
    BY <1>1, <1>2, IsASeq
  <1>4. n \in Seq(V) /\ Len(n) = Len(s) + 1
    <2>1. \A i \in 1 .. Len(s) + 1 : Append(s, c)[i] \in A
      BY <1>1, ElementOfSeq
    <2> QED  BY <1>1, <2>1, IsASeq
  <1>5. ASSUME NEW i \in 1 .. Len(s) + 1
        PROVE  n[i] = Append(m, f[c])[i]
    <2>1. CASE i = Len(s) + 1
      BY <1>1, <1>3, <2>1
    <2>2. CASE i \in 1 .. Len(s)
      BY <1>1, <1>3, <2>2
    <2>3. i = Len(s) + 1 \/ i \in 1 .. Len(s)
      BY <1>1
    <2> QED  BY <2>1, <2>2, <2>3
  <1>6. Append(m, f[c]) \in Seq(V) /\ Len(Append(m, f[c])) = Len(s) + 1
    BY <1>3
  <1> HIDE DEF m, n
  <1>7. n = Append(m, f[c])
    BY <1>4, <1>5, <1>6, SeqEqual
  <1> QED  BY <1>3, <1>7 DEF m, n, Appends

Joins(f, s, c) == FlattenSeq(Map(f, Append(s, c))) = FlattenSeq(Map(f, s)) \o f[c]

LEMMA FlattenMapAppend ==
  ASSUME NEW A, NEW B, NEW f \in [A -> Seq(B)], NEW s \in Seq(A), NEW c \in A
  PROVE  /\ FlattenSeq(Map(f, s)) \in Seq(B)
         /\ Joins(f, s, c)
  <1>1. Map(f, s) \in Seq(Seq(B))
    BY MapNext
  <1>2. PICK m \in Seq(Seq(B)) : m = Map(f, s)
    BY <1>1
  <1>3. PICK t \in Seq(B) : t = f[c]
    OBVIOUS
  <1>4. Map(f, Append(s, c)) = Append(m, t)
    <2>1. Appends(f, s, c)
      BY MapNext
    <2> QED  BY <1>2, <1>3, <2>1 DEF Appends
  <1>5. FlattenSeq(m) \in Seq(B) /\ FlattenSeq(Append(m, t)) = FlattenSeq(m) \o t
    BY FlattenAppend
  <1> QED  BY <1>2, <1>3, <1>4, <1>5 DEF Joins

-----------------------------------------------------------------------------
\* safestr, and MySQL's reading of a literal.  Characters are their codes.
Codes == Nat

LEMMA EscapedTyped == \A c \in Codes : Escaped(c) \in Seq(Codes)
  BY DEF Escaped, Quote, DoubleQuote, Backslash, Codes

LEMMA SafeStrAppend ==
  /\ SafeStr(<<>>) = <<>>
  /\ \A s \in Seq(Codes) : SafeStr(s) \in Seq(Codes)
  /\ \A s \in Seq(Codes) : \A c \in Codes : SafeStr(Append(s, c)) = SafeStr(s) \o Escaped(c)
  <1>1. PICK f \in [Codes -> Seq(Codes)] : \A c \in Codes : f[c] = Escaped(c)
    <2> DEFINE g == [c \in Codes |-> Escaped(c)]
    <2>1. g \in [Codes -> Seq(Codes)]
      BY EscapedTyped
    <2> QED  BY <2>1
  <1>2. ASSUME NEW s \in Seq(Codes)
        PROVE  SafeStr(s) = FlattenSeq(Map(f, s))
    <2>1. \A i \in DOMAIN s : f[s[i]] = Escaped(s[i])
      BY <1>1, ElementOfSeq
    <2>2. Map(f, s) = [i \in DOMAIN s |-> Escaped(s[i])]
      BY <2>1 DEF Map
    <2> QED  BY <2>2 DEF SafeStr
  <1>3. ASSUME NEW s \in Seq(Codes), NEW c \in Codes
        PROVE  SafeStr(s) \in Seq(Codes) /\ SafeStr(Append(s, c)) = SafeStr(s) \o f[c]
    <2>1. FlattenSeq(Map(f, s)) \in Seq(Codes) /\ Joins(f, s, c)
      BY FlattenMapAppend
    <2>2. Append(s, c) \in Seq(Codes)
      OBVIOUS
    <2> QED  BY <1>2, <2>1, <2>2 DEF Joins
  <1>4. SafeStr(<<>>) = <<>>
    BY DEF SafeStr, FlattenSeq
  <1>5. ASSUME NEW s \in Seq(Codes), NEW c \in Codes
        PROVE  SafeStr(Append(s, c)) = SafeStr(s) \o Escaped(c)
    BY <1>1, <1>3
  <1> QED  BY <1>3, <1>4, <1>5

\* What is kept of a character.
Kept(c) == IF c = 0 THEN <<>> ELSE <<c>>

LEMMA WithoutNulAppend ==
  /\ WithoutNul(<<>>) = <<>>
  /\ \A s \in Seq(Codes) : WithoutNul(s) \in Seq(Codes)
  /\ \A s \in Seq(Codes) : \A c \in Codes : WithoutNul(Append(s, c)) = WithoutNul(s) \o Kept(c)
  <1>1. PICK f \in [Codes -> Seq(Codes)] : \A c \in Codes : f[c] = Kept(c)
    <2> DEFINE g == [c \in Codes |-> Kept(c)]
    <2>1. g \in [Codes -> Seq(Codes)]
      BY DEF Kept
    <2> QED  BY <2>1
  <1>2. ASSUME NEW s \in Seq(Codes)
        PROVE  WithoutNul(s) = FlattenSeq(Map(f, s))
    <2>1. \A i \in DOMAIN s : f[s[i]] = IF s[i] = 0 THEN <<>> ELSE <<s[i]>>
      <3>1. \A i \in DOMAIN s : s[i] \in Codes
        BY ElementOfSeq
      <3> QED  BY <1>1, <3>1 DEF Kept
    <2>2. Map(f, s) = [i \in DOMAIN s |-> IF s[i] = 0 THEN <<>> ELSE <<s[i]>>]
      BY <2>1 DEF Map
    <2> QED  BY <2>2 DEF WithoutNul
  <1>3. ASSUME NEW s \in Seq(Codes), NEW c \in Codes
        PROVE  WithoutNul(s) \in Seq(Codes) /\ WithoutNul(Append(s, c)) = WithoutNul(s) \o f[c]
    <2>1. FlattenSeq(Map(f, s)) \in Seq(Codes) /\ Joins(f, s, c)
      BY FlattenMapAppend
    <2>2. Append(s, c) \in Seq(Codes)
      OBVIOUS
    <2> QED  BY <1>2, <2>1, <2>2 DEF Joins
  <1>4. WithoutNul(<<>>) = <<>>
    BY DEF WithoutNul, FlattenSeq
  <1>5. ASSUME NEW s \in Seq(Codes), NEW c \in Codes
        PROVE  WithoutNul(Append(s, c)) = WithoutNul(s) \o Kept(c)
    BY <1>1, <1>3
  <1> QED  BY <1>3, <1>4, <1>5

Literals == [value : Seq(Codes), escape : BOOLEAN, ended : BOOLEAN]
Opened == [value |-> <<>>, escape |-> FALSE, ended |-> FALSE]

LEMMA ReadCharTyped ==
  ASSUME NEW l \in Literals, NEW c \in Codes
  PROVE  ReadChar(l, c) \in Literals
  <1>1. /\ Append(l.value, c) \in Seq(Codes)
        /\ Append(l.value, IF c = 110 THEN 10 ELSE c) \in Seq(Codes)
    BY DEF Literals, Codes
  <1> QED  BY <1>1 DEF ReadChar, Literals

\* The reading goes from character to character.
LEMMA LiteralFolds ==
  \E F : /\ Folds(F, Codes, Literals, Opened, [p \in Literals \X Codes |-> ReadChar(p[1], p[2])])
         /\ \A s \in Seq(Codes) : Literal(s) = F[s]
  <1> DEFINE next == [p \in Literals \X Codes |-> ReadChar(p[1], p[2])]
  <1>1. next \in [Literals \X Codes -> Literals] /\ Opened \in Literals
    <2>1. Opened \in Literals
      BY DEF Opened, Literals
    <2> QED  BY <2>1, ReadCharTyped
  <1>2. PICK F : Folds(F, Codes, Literals, Opened, next)
    <2> HIDE DEF next
    <2> QED  BY <1>1, FoldExists, Zenon
  <1>3. ASSUME NEW s \in Seq(Codes)
        PROVE  Literal(s) = F[s]
    <2> DEFINE g == [i \in 0 .. Len(s) |-> F[SubSeq(s, 1, i)]]
               f == CHOOSE f : f = [i \in 0 .. Len(s) |->
                        IF i = 0 THEN Opened ELSE ReadChar(f[i - 1], s[i])]
    <2>1. Literal(s) = f[Len(s)]
      BY DEF Literal, Opened
    <2>2. ASSUME NEW i \in 0 .. Len(s)
          PROVE  g[i] = IF i = 0 THEN Opened ELSE ReadChar(g[i - 1], s[i])
      <3>1. CASE i = 0
        BY <1>2, <3>1, FoldPrefix
      <3>2. CASE i # 0
        <4>1. i \in 1 .. Len(s) /\ i - 1 \in 0 .. Len(s) /\ s[i] \in Codes
          BY <3>2, ElementOfSeq
        <4>2. /\ g[i] = F[SubSeq(s, 1, i)] /\ g[i - 1] = F[SubSeq(s, 1, i - 1)]
          BY <4>1
        <4> HIDE DEF next, g
        <4>3. g[i] = next[<<g[i - 1], s[i]>>] /\ g[i - 1] \in Literals
          BY <1>2, <4>1, <4>2, FoldPrefix
        <4> QED  BY <3>2, <4>1, <4>3 DEF next
      <3> QED  BY <3>1, <3>2
    <2>3. g = [i \in 0 .. Len(s) |-> IF i = 0 THEN Opened ELSE ReadChar(g[i - 1], s[i])]
      BY <2>2
    <2>4. f = [i \in 0 .. Len(s) |-> IF i = 0 THEN Opened ELSE ReadChar(f[i - 1], s[i])]
      BY <2>3, Zenon
    <2> HIDE DEF f, g
    <2>5. f[0] = Opened
      BY <2>4
    <2>6. ASSUME NEW i \in 1 .. Len(s), f[i - 1] \in Literals
          PROVE  f[i] = next[<<f[i - 1], s[i]>>]
      <3>1. i \in 0 .. Len(s) /\ i # 0
        OBVIOUS
      <3>2. f[i] = ReadChar(f[i - 1], s[i])
        BY <2>4, <3>1
      <3>3. s[i] \in Codes
        BY ElementOfSeq
      <3> QED  BY <2>6, <3>2, <3>3
    <2> HIDE DEF next
    <2>7. Loops(f, Literals, Opened, next, s)
      BY <2>5, <2>6 DEF Loops
    <2>8. f[Len(s)] = F[s]
      BY <1>2, <2>7, FoldLoop
    <2> QED  BY <2>1, <2>8
  <1> HIDE DEF next
  <1>4. \E G : /\ Folds(G, Codes, Literals, Opened, next)
               /\ \A s \in Seq(Codes) : Literal(s) = G[s]
    BY <1>2, <1>3
  <1> QED  BY <1>4 DEF next

LEMMA LiteralAppend ==
  /\ Literal(<<>>) = Opened
  /\ \A s \in Seq(Codes) : \A c \in Codes : Literal(Append(s, c)) = ReadChar(Literal(s), c)
  <1> DEFINE next == [p \in Literals \X Codes |-> ReadChar(p[1], p[2])]
  <1>1. PICK F : Folds(F, Codes, Literals, Opened, next) /\ \A s \in Seq(Codes) : Literal(s) = F[s]
    BY LiteralFolds
  <1>2. ASSUME NEW s \in Seq(Codes), NEW c \in Codes
        PROVE  Literal(Append(s, c)) = ReadChar(Literal(s), c)
    <2>1. Append(s, c) \in Seq(Codes)
      OBVIOUS
    <2>2. F[s] \in Literals /\ F[Append(s, c)] = next[<<F[s], c>>]
      <3> HIDE DEF next
      <3> QED  BY <1>1 DEF Folds
    <2> QED  BY <1>1, <2>1, <2>2
  <1>3. Literal(<<>>) = Opened
    <2>1. <<>> \in Seq(Codes)
      OBVIOUS
    <2> HIDE DEF next
    <2> QED  BY <1>1, <2>1 DEF Folds
  <1> QED  BY <1>2, <1>3

Said(s) == [value |-> WithoutNul(s), escape |-> FALSE, ended |-> FALSE]

\* MySQL reads from what safestr makes of a string the string.
LEMMA SafeRead == \A s \in Seq(Codes) : Literal(SafeStr(s)) = Said(s)
  <1> DEFINE S == {s \in Seq(Codes) : Literal(SafeStr(s)) = Said(s)}
  <1>1. <<>> \in S
    BY SafeStrAppend, LiteralAppend, WithoutNulAppend DEF Opened, Said
  <1>2. ASSUME NEW s \in Seq(Codes), NEW c \in Codes, s \in S
        PROVE  Append(s, c) \in S
    <2> DEFINE t == SafeStr(s)
               w == WithoutNul(s)
    <2>1. /\ t \in Seq(Codes) /\ w \in Seq(Codes)
          /\ Literal(t) = [value |-> w, escape |-> FALSE, ended |-> FALSE]
      BY <1>2, SafeStrAppend, WithoutNulAppend DEF Said
    <2>2. SafeStr(Append(s, c)) = t \o Escaped(c) /\ WithoutNul(Append(s, c)) = w \o Kept(c)
      BY SafeStrAppend, WithoutNulAppend
    <2> HIDE DEF t, w
    <2>3. Literal(t \o Escaped(c)) = [value |-> w \o Kept(c), escape |-> FALSE, ended |-> FALSE]
      <3>1. CASE c = 0
        <4>1. Escaped(c) = <<>> /\ Kept(c) = <<>>
          BY <3>1 DEF Escaped, Kept, Quote, DoubleQuote, Backslash
        <4>2. t \o <<>> = t /\ w \o <<>> = w
          BY <2>1, ConcatEmptySeq
        <4> QED  BY <2>1, <4>1, <4>2
      <3>2. CASE c \in {Quote, Backslash, DoubleQuote}
        <4>1. c # 0 /\ c # 110 /\ Backslash \in Codes
          BY <3>2 DEF Quote, DoubleQuote, Backslash, Codes
        <4>2. Escaped(c) = <<Backslash, c>> /\ Kept(c) = <<c>>
          BY <3>2, <4>1 DEF Escaped, Kept
        <4>3. t \o <<Backslash, c>> = Append(Append(t, Backslash), c) /\ w \o <<c>> = Append(w, c)
          BY <2>1, <4>1
        <4>4. Append(t, Backslash) \in Seq(Codes)
          BY <2>1, <4>1
        <4>5. Literal(Append(t, Backslash)) = [value |-> w, escape |-> TRUE, ended |-> FALSE]
          <5>1. Literal(Append(t, Backslash)) = ReadChar(Literal(t), Backslash)
            BY <2>1, <4>1, LiteralAppend
          <5>2. ReadChar([value |-> w, escape |-> FALSE, ended |-> FALSE], Backslash)
                  = [value |-> w, escape |-> TRUE, ended |-> FALSE]
            BY DEF ReadChar
          <5> QED  BY <2>1, <5>1, <5>2
        <4>6. Literal(Append(Append(t, Backslash), c)) = ReadChar(Literal(Append(t, Backslash)), c)
          BY <4>4, LiteralAppend
        <4>7. ReadChar([value |-> w, escape |-> TRUE, ended |-> FALSE], c)
                = [value |-> Append(w, c), escape |-> FALSE, ended |-> FALSE]
          BY <4>1 DEF ReadChar
        <4> QED  BY <4>2, <4>3, <4>5, <4>6, <4>7
      <3>3. CASE c # 0 /\ c \notin {Quote, Backslash, DoubleQuote}
        <4>1. Escaped(c) = <<c>> /\ Kept(c) = <<c>> /\ c # Backslash /\ c # Quote
          BY <3>3 DEF Escaped, Kept
        <4>2. t \o <<c>> = Append(t, c) /\ w \o <<c>> = Append(w, c)
          BY <2>1
        <4>3. Literal(Append(t, c)) = ReadChar(Literal(t), c)
          BY <2>1, LiteralAppend
        <4>4. ReadChar([value |-> w, escape |-> FALSE, ended |-> FALSE], c)
                = [value |-> Append(w, c), escape |-> FALSE, ended |-> FALSE]
          BY <4>1 DEF ReadChar
        <4> QED  BY <2>1, <4>1, <4>2, <4>3, <4>4
      <3> QED  BY <3>1, <3>2, <3>3
    <2>4. Append(s, c) \in Seq(Codes)
      OBVIOUS
    <2> QED  BY <2>2, <2>3, <2>4 DEF Said
  <1>3. Seq(Codes) \subseteq S
    <2> HIDE DEF S
    <2> QED  BY <1>1, <1>2, SeqInd
  <1> QED  BY <1>3

-----------------------------------------------------------------------------
\* unsafestr.  A pass takes the character at Taken and goes on behind it.
Taken(s, i) == IF i <= Len(s) /\ s[i] = Backslash THEN i + 1 ELSE i
Onward(f, s, i) == IF Taken(s, i) > Len(s) THEN <<>> ELSE <<s[Taken(s, i)]>> \o f[Taken(s, i) + 1]

Unsafes(f, s) ==
    /\ f \in [1 .. Len(s) + 2 -> Seq(Codes)]
    /\ \A i \in 1 .. Len(s) + 2 : f[i] = Onward(f, s, i)

LEMMA OnwardTyped ==
  ASSUME NEW s \in Seq(Codes), NEW f \in [1 .. Len(s) + 2 -> Seq(Codes)],
         NEW i \in 1 .. Len(s) + 2
  PROVE  Onward(f, s, i) \in Seq(Codes)
  <1>1. Len(s) \in Nat /\ Taken(s, i) \in 1 .. Len(s) + 3
    BY DEF Taken
  <1>2. CASE Taken(s, i) > Len(s)
    BY <1>2 DEF Onward
  <1>3. CASE Taken(s, i) <= Len(s)
    <2>1. s[Taken(s, i)] \in Codes
      BY <1>1, <1>3, ElementOfSeq
    <2>2. Taken(s, i) + 1 \in 1 .. Len(s) + 2
      BY <1>1, <1>3
    <2>3. f[Taken(s, i) + 1] \in Seq(Codes) /\ <<s[Taken(s, i)]>> \in Seq(Codes)
      BY <2>1, <2>2
    <2>4. <<s[Taken(s, i)]>> \o f[Taken(s, i) + 1] \in Seq(Codes)
      BY <2>3, ConcatProperties
    <2> QED  BY <1>1, <1>3, <2>4 DEF Onward
  <1> QED  BY <1>1, <1>2, <1>3

\* From the end of the string backwards.
LEMMA UnsafesExists ==
  ASSUME NEW s \in Seq(Codes)
  PROVE  \E f : Unsafes(f, s)
  <1> DEFINE L == Len(s) + 2
             P(f, n) == \A i \in 1 .. L : i + n > L => f[i] = Onward(f, s, i)
             N == {n \in Nat : \E f \in [1 .. L -> Seq(Codes)] : P(f, n)}
  <1>1. L \in Nat /\ Len(s) \in Nat
    OBVIOUS
  <1>2. 0 \in N
    <2>1. [i \in 1 .. L |-> <<>>] \in [1 .. L -> Seq(Codes)]
      OBVIOUS
    <2>2. \A i \in 1 .. L : ~(i + 0 > L)
      BY <1>1
    <2> QED  BY <2>1, <2>2
  <1>3. ASSUME NEW n \in Nat, n \in N
        PROVE  n + 1 \in N
    <2>1. PICK f \in [1 .. L -> Seq(Codes)] : P(f, n)
      BY <1>3
    <2> DEFINE k == L - n
               g == [i \in 1 .. L |-> IF i = k THEN Onward(f, s, k) ELSE f[i]]
    <2>2. g \in [1 .. L -> Seq(Codes)]
      BY OnwardTyped
    <2>3. ASSUME NEW i \in 1 .. L, i + (n + 1) > L
          PROVE  g[i] = Onward(g, s, i)
      <3>1. i >= k /\ k \in Int
        BY <1>1, <2>3
      <3>2. g[i] = Onward(f, s, i)
        <4>1. CASE i = k
          BY <4>1
        <4>2. CASE i > k
          BY <1>1, <2>1, <3>1, <4>2
        <4> QED  BY <3>1, <4>1, <4>2
      <3>3. Onward(g, s, i) = Onward(f, s, i)
        <4>1. CASE Taken(s, i) > Len(s)
          BY <4>1 DEF Onward
        <4>2. CASE Taken(s, i) <= Len(s)
          <5>1. Taken(s, i) + 1 \in 1 .. L /\ Taken(s, i) + 1 > k
            BY <1>1, <3>1, <4>2 DEF Taken
          <5>2. g[Taken(s, i) + 1] = f[Taken(s, i) + 1]
            <6> HIDE DEF L, k
            <6>1. Taken(s, i) + 1 # k
              BY <3>1, <5>1
            <6> QED  BY <5>1, <6>1
          <5> HIDE DEF g
          <5> QED  BY <5>2 DEF Onward
        <4>3. Taken(s, i) \in Nat
          BY <1>1 DEF Taken
        <4> QED  BY <1>1, <4>1, <4>2, <4>3
      <3> QED  BY <3>2, <3>3
    <2>4. P(g, n + 1)
      BY <2>3
    <2>5. n + 1 \in Nat
      OBVIOUS
    <2> HIDE DEF g, P, L, k
    <2> QED  BY <2>2, <2>4, <2>5
  <1>4. Nat \subseteq N
    <2> HIDE DEF N
    <2> QED  BY <1>2, <1>3, NatInd
  <1>5. L \in N
    BY <1>1, <1>4
  <1>6. PICK f \in [1 .. L -> Seq(Codes)] : P(f, L)
    BY <1>5
  <1>7. \A i \in 1 .. L : i + L > L
    BY <1>1
  <1> QED  BY <1>6, <1>7 DEF Unsafes

LEMMA UnsafeStrIs ==
  ASSUME NEW s \in Seq(Codes)
  PROVE  \E f : Unsafes(f, s) /\ UnsafeStr(s) = f[1]
  <1> DEFINE R(f, i) == LET j == IF i <= Len(s) /\ s[i] = Backslash THEN i + 1 ELSE i
                        IN  IF j > Len(s) THEN <<>> ELSE <<s[j]>> \o f[j + 1]
             h == CHOOSE f : f = [i \in 1 .. Len(s) + 2 |-> R(f, i)]
  <1>1. UnsafeStr(s) = h[1]
    BY DEF UnsafeStr
  <1>2. \A f : \A i : R(f, i) = Onward(f, s, i)
    BY DEF Onward, Taken
  <1>3. PICK f : Unsafes(f, s)
    BY UnsafesExists
  <1> HIDE DEF R
  <1>4. f = [i \in 1 .. Len(s) + 2 |-> R(f, i)]
    <2>1. \A i \in 1 .. Len(s) + 2 : f[i] = R(f, i)
      BY <1>2, <1>3 DEF Unsafes
    <2>2. f \in [1 .. Len(s) + 2 -> Seq(Codes)]
      BY <1>3 DEF Unsafes
    <2> QED  BY <2>1, <2>2
  <1>5. h = [i \in 1 .. Len(s) + 2 |-> R(h, i)]
    BY <1>4, Zenon
  <1> HIDE DEF h
  <1>6. \A i \in 1 .. Len(s) + 2 : h[i] = Onward(h, s, i)
    BY <1>2, <1>5
  <1> DEFINE L == Len(s) + 2
             N == {n \in Nat : \A i \in 1 .. L : i + n > L => h[i] = f[i]}
  <1>7. L \in Nat /\ Len(s) \in Nat
    OBVIOUS
  <1>8. 0 \in N
    BY <1>7
  <1>9. ASSUME NEW n \in Nat, n \in N
        PROVE  n + 1 \in N
    <2>1. ASSUME NEW i \in 1 .. L, i + (n + 1) > L
          PROVE  h[i] = f[i]
      <3>1. h[i] = Onward(h, s, i) /\ f[i] = Onward(f, s, i)
        BY <1>3, <1>6 DEF Unsafes
      <3>2. CASE Taken(s, i) > Len(s)
        BY <3>1, <3>2 DEF Onward
      <3>3. CASE Taken(s, i) <= Len(s)
        <4>1. Taken(s, i) + 1 \in 1 .. L /\ (Taken(s, i) + 1) + n > L
          BY <1>7, <2>1, <3>3 DEF Taken
        <4>2. h[Taken(s, i) + 1] = f[Taken(s, i) + 1]
          BY <1>9, <4>1
        <4> QED  BY <3>1, <4>2 DEF Onward
      <3>4. Taken(s, i) \in Nat
        BY <1>7 DEF Taken
      <3> QED  BY <1>7, <3>2, <3>3, <3>4
    <2> QED  BY <2>1
  <1>10. Nat \subseteq N
    <2> HIDE DEF N
    <2> QED  BY <1>8, <1>9, NatInd
  <1>11. h[1] = f[1]
    <2>1. L \in N
      BY <1>7, <1>10
    <2>2. 1 \in 1 .. L /\ 1 + L > L
      BY <1>7
    <2> QED  BY <2>1, <2>2
  <1> QED  BY <1>1, <1>3, <1>11

\* How unsafestr gets past what safestr makes of the first characters.
Passes(s) ==
    \A z \in Seq(Codes) : \A f :
        Unsafes(f, SafeStr(s) \o z) =>
            f[1] = WithoutNul(s) \o f[Len(SafeStr(s)) + 1]

LEMMA PassesNone == Passes(<<>>)
  <1> SUFFICES ASSUME NEW z \in Seq(Codes), NEW f, Unsafes(f, SafeStr(<<>>) \o z)
               PROVE  f[1] = WithoutNul(<<>>) \o f[Len(SafeStr(<<>>)) + 1]
    BY DEF Passes
  <1>1. SafeStr(<<>>) = <<>> /\ WithoutNul(<<>>) = <<>>
    BY SafeStrAppend, WithoutNulAppend
  <1>2. Unsafes(f, z)
    BY <1>1, ConcatEmptySeq
  <1>3. f[1] \in Seq(Codes)
    BY <1>2 DEF Unsafes
  <1>4. Len(SafeStr(<<>>)) + 1 = 1
    BY <1>1
  <1> QED  BY <1>1, <1>3, <1>4, ConcatEmptySeq

\* (A name for the equation, which the provers do not find otherwise.)
Regroup(r, s, t) == (r \o s) \o t = r \o (s \o t)

LEMMA Regrouped == \A r, s, t \in Seq(Codes) : Regroup(r, s, t)
  BY ConcatAssociative DEF Regroup

LEMMA PassesNext ==
  ASSUME NEW s \in Seq(Codes), NEW c \in Codes, Passes(s)
  PROVE  Passes(Append(s, c))
  <1> SUFFICES ASSUME NEW z \in Seq(Codes), NEW f, Unsafes(f, SafeStr(Append(s, c)) \o z)
               PROVE  f[1] = WithoutNul(Append(s, c)) \o f[Len(SafeStr(Append(s, c))) + 1]
    BY DEF Passes
  <1>1. PICK t \in Seq(Codes) : t = SafeStr(s)
    BY SafeStrAppend
  <1>2. PICK w \in Seq(Codes) : w = WithoutNul(s)
    BY WithoutNulAppend
  <1>3. PICK e \in Seq(Codes) : e = Escaped(c)
    BY EscapedTyped
  <1>4. SafeStr(Append(s, c)) = t \o e /\ WithoutNul(Append(s, c)) = w \o Kept(c)
    BY <1>1, <1>2, <1>3, SafeStrAppend, WithoutNulAppend
  <1>5. PICK x \in Seq(Codes) : x = e \o z
    BY ConcatProperties
  <1>6. PICK y \in Seq(Codes) : y = t \o x
    BY ConcatProperties
  <1>7. (t \o e) \o z = y
    <2>1. Regroup(t, e, z)
      BY Regrouped
    <2> QED  BY <1>5, <1>6, <2>1 DEF Regroup
  <1>8. Unsafes(f, y)
    BY <1>4, <1>7
  <1>9. f[1] = w \o f[Len(t) + 1]
    BY <1>1, <1>2, <1>6, <1>8 DEF Passes
  <1>10. /\ Len(t) \in Nat /\ Len(e) \in Nat /\ Len(z) \in Nat
         /\ Len(y) = Len(t) + Len(e) + Len(z) /\ Len(t \o e) = Len(t) + Len(e)
         /\ \A i \in 1 .. Len(e) : y[Len(t) + i] = e[i]
    BY <1>5, <1>6, ConcatProperties
  <1>11. f[Len(t) + 1] = Kept(c) \o f[Len(t) + Len(e) + 1]
    <2>1. \A i \in 1 .. Len(y) + 2 : f[i] = Onward(f, y, i) /\ f[i] \in Seq(Codes)
      BY <1>8 DEF Unsafes
    <2>2. Len(t) + 1 \in 1 .. Len(y) + 2
      BY <1>10
    <2>3. CASE c = 0
      <3>1. e = <<>> /\ Kept(c) = <<>>
        BY <1>3, <2>3 DEF Escaped, Kept, Quote, DoubleQuote, Backslash
      <3>2. Len(t) + Len(e) + 1 = Len(t) + 1
        BY <1>10, <3>1
      <3>3. f[Len(t) + 1] \in Seq(Codes)
        BY <2>1, <2>2
      <3> QED  BY <3>1, <3>2, <3>3, ConcatEmptySeq
    <2>4. CASE c \in {Quote, Backslash, DoubleQuote}
      <3>1. c # 0
        BY <2>4 DEF Quote, DoubleQuote, Backslash
      <3>2. e = <<Backslash, c>> /\ Kept(c) = <<c>>
        BY <1>3, <2>4, <3>1 DEF Escaped, Kept
      <3>3. Len(e) = 2 /\ e[1] = Backslash /\ e[2] = c
        BY <3>2
      <3>4. y[Len(t) + 1] = Backslash /\ y[Len(t) + 2] = c
        BY <1>10, <3>3
      <3>5. Taken(y, Len(t) + 1) = Len(t) + 2
        BY <1>10, <3>3, <3>4 DEF Taken
      <3>6. Onward(f, y, Len(t) + 1) = <<c>> \o f[Len(t) + 3]
        <4>1. Len(t) + 2 + 1 = Len(t) + 3 /\ ~(Len(t) + 2 > Len(y))
          BY <1>10, <3>3
        <4> QED  BY <3>4, <3>5, <4>1 DEF Onward
      <3>7. Len(t) + Len(e) + 1 = Len(t) + 3
        BY <1>10, <3>3
      <3> QED  BY <2>1, <2>2, <3>2, <3>6, <3>7
    <2>5. CASE c # 0 /\ c \notin {Quote, Backslash, DoubleQuote}
      <3>1. e = <<c>> /\ Kept(c) = <<c>> /\ c # Backslash
        BY <1>3, <2>5 DEF Escaped, Kept
      <3>2. Len(e) = 1 /\ e[1] = c
        BY <3>1
      <3>3. y[Len(t) + 1] = c
        BY <1>10, <3>2
      <3>4. Taken(y, Len(t) + 1) = Len(t) + 1
        BY <3>1, <3>3 DEF Taken
      <3>5. Onward(f, y, Len(t) + 1) = <<c>> \o f[Len(t) + 2]
        <4>1. Len(t) + 1 + 1 = Len(t) + 2 /\ ~(Len(t) + 1 > Len(y))
          BY <1>10, <3>2
        <4> QED  BY <3>3, <3>4, <4>1 DEF Onward
      <3>6. Len(t) + Len(e) + 1 = Len(t) + 2
        BY <1>10, <3>2
      <3> QED  BY <2>1, <2>2, <3>1, <3>5, <3>6
    <2> QED  BY <2>3, <2>4, <2>5
  <1>12. PICK r \in Seq(Codes) : r = f[Len(t) + Len(e) + 1]
    <2>1. Len(t) + Len(e) + 1 \in 1 .. Len(y) + 2
      BY <1>10
    <2> QED  BY <1>8, <2>1 DEF Unsafes
  <1>13. PICK k \in Seq(Codes) : k = Kept(c)
    <2>1. <<c>> \in Seq(Codes) /\ <<>> \in Seq(Codes)
      OBVIOUS
    <2> QED  BY <2>1 DEF Kept
  <1>14. Regroup(w, k, r)
    BY Regrouped
  <1>15. (w \o k) \o r = w \o (k \o r)
    BY <1>14, Zenon DEF Regroup
  <1>16. f[1] = w \o (k \o r)
    BY <1>9, <1>11, <1>12, <1>13, Zenon
  <1>17. Len(SafeStr(Append(s, c))) + 1 = Len(t) + Len(e) + 1
    BY <1>4, <1>10
  <1>18. WithoutNul(Append(s, c)) = w \o k
    BY <1>4, <1>13
  <1> QED  BY <1>12, <1>15, <1>16, <1>17, <1>18, Zenon

\* unsafestr makes of what safestr makes of a string the string.
LEMMA UnsafeRead == \A s \in Seq(Codes) : UnsafeStr(SafeStr(s)) = WithoutNul(s)
  <1> DEFINE S == {s \in Seq(Codes) : Passes(s)}
  <1>1. <<>> \in S
    BY PassesNone
  <1>2. ASSUME NEW s \in Seq(Codes), NEW c \in Codes, s \in S
        PROVE  Append(s, c) \in S
    BY <1>2, PassesNext
  <1>3. Seq(Codes) \subseteq S
    <2> HIDE DEF S
    <2> QED  BY <1>1, <1>2, SeqInd
  <1>4. ASSUME NEW s \in Seq(Codes)
        PROVE  UnsafeStr(SafeStr(s)) = WithoutNul(s)
    <2>1. PICK t \in Seq(Codes) : t = SafeStr(s)
      BY SafeStrAppend
    <2>2. PICK w \in Seq(Codes) : w = WithoutNul(s)
      BY WithoutNulAppend
    <2>3. PICK f : Unsafes(f, t) /\ UnsafeStr(t) = f[1]
      BY UnsafeStrIs
    <2>4. t \o <<>> = t /\ <<>> \in Seq(Codes)
      BY ConcatEmptySeq
    <2>5. Passes(s)
      BY <1>3
    <2>6. f[1] = w \o f[Len(t) + 1]
      BY <2>1, <2>2, <2>3, <2>4, <2>5 DEF Passes
    <2>7. f[Len(t) + 1] = <<>>
      <3>1. Len(t) \in Nat /\ Len(t) + 1 \in 1 .. Len(t) + 2
        OBVIOUS
      <3>2. Taken(t, Len(t) + 1) = Len(t) + 1
        BY <3>1 DEF Taken
      <3>3. Onward(f, t, Len(t) + 1) = <<>>
        BY <3>1, <3>2 DEF Onward
      <3> QED  BY <2>3, <3>1, <3>3 DEF Unsafes
    <2> QED  BY <2>1, <2>2, <2>3, <2>6, <2>7, ConcatEmptySeq
  <1> QED  BY <1>4

-----------------------------------------------------------------------------
\* str.  Numbers and their quotients.
LEMMA Divided ==
  ASSUME NEW a \in Nat, NEW b \in 2 .. 16, NEW m \in Int, NEW r \in Int,
         m = a \div b, r = a % b
  PROVE  a = b * m + r /\ r \in 0 .. b - 1 /\ m \in 0 .. a /\ (a > 0 => m < a)
  <1>1. a = b * m + r
    OBVIOUS
  <1>2. r \in 0 .. b - 1
    OBVIOUS
  <1>3. 0 <= m /\ m <= a
    BY <1>1, <1>2
  <1>4. a > 0 => m < a
    BY <1>1, <1>2
  <1> QED  BY <1>1, <1>2, <1>3, <1>4

LEMMA Truncated ==
  ASSUME NEW q \in Int, NEW b \in 2 .. 16
  PROVE  /\ Quot(q, b) \in Int /\ Rest(q, b) \in Int
         /\ Abs(q) \in Nat /\ Abs(Quot(q, b)) \in Nat /\ Abs(Rest(q, b)) \in 0 .. b - 1
         /\ Abs(q) = b * Abs(Quot(q, b)) + Abs(Rest(q, b))
         /\ q >= 0 => Quot(q, b) \in 0 .. q
         /\ q < 0 => Quot(q, b) \in q .. 0
         /\ q # 0 => Abs(Quot(q, b)) < Abs(q)
  <1>1. CASE q >= 0
    <2>1. PICK m \in Int, r \in Int : m = q \div b /\ r = q % b
      OBVIOUS
    <2>2. /\ m \in 0 .. q /\ q = b * m + r /\ r \in 0 .. b - 1 /\ (q > 0 => m < q)
      BY <1>1, <2>1, Divided
    <2>3. Quot(q, b) = m /\ Rest(q, b) = q - b * m
      BY <1>1, <2>1 DEF Quot, Rest
    <2>4. Rest(q, b) = r
      BY <2>2, <2>3
    <2>5. Abs(q) = q /\ Abs(Quot(q, b)) = m /\ Abs(Rest(q, b)) = r
      BY <1>1, <2>2, <2>3, <2>4 DEF Abs
    <2> QED  BY <1>1, <2>2, <2>3, <2>4, <2>5
  <1>2. CASE q < 0
    <2>1. -q \in Nat
      BY <1>2
    <2>2. PICK m \in Int, r \in Int : m = (-q) \div b /\ r = (-q) % b
      BY <2>1
    <2>3. /\ m \in 0 .. -q /\ -q = b * m + r /\ r \in 0 .. b - 1 /\ m < -q
      BY <1>2, <2>1, <2>2, Divided
    <2>4. Quot(q, b) = -m /\ Rest(q, b) = q - b * (-m)
      BY <1>2, <2>2 DEF Quot, Rest
    <2>5. Rest(q, b) = -r
      <3>1. b * (-m) = -(b * m) /\ b * m \in Int
        OBVIOUS
      <3> QED  BY <2>3, <2>4, <3>1
    <2>6. Abs(q) = -q /\ Abs(Quot(q, b)) = m /\ Abs(Rest(q, b)) = r
      BY <1>2, <2>3, <2>4, <2>5 DEF Abs
    <2> QED  BY <1>2, <2>3, <2>4, <2>5, <2>6
  <1> QED  BY <1>1, <1>2

LEMMA IntsTyped ==
  /\ Ints \subseteq Int
  /\ \A n \in Ints : Abs(n) <= Word \div 2 /\ Abs(n) \in Nat
  /\ Word \div 2 \in Nat /\ Word = 2 * (Word \div 2) /\ Word \div 2 >= 1
  /\ Long \div 2 \in Nat /\ Long = 2 * (Long \div 2) /\ Word \div 2 <= Long \div 2
  <1>1. /\ Word \div 2 \in Nat /\ Word = 2 * (Word \div 2) /\ Word \div 2 >= 1
        /\ Long \div 2 \in Nat /\ Long = 2 * (Long \div 2) /\ Word \div 2 <= Long \div 2
    BY CodecAssumption
  <1> QED  BY <1>1 DEF Ints, Abs

LEMMA QuotInts ==
  ASSUME NEW q \in Ints, NEW b \in 2 .. 16
  PROVE  Quot(q, b) \in Ints
  <1>1. q \in Int
    BY IntsTyped
  <1>2. Quot(q, b) \in Int /\ (q >= 0 => Quot(q, b) \in 0 .. q) /\ (q < 0 => Quot(q, b) \in q .. 0)
    BY <1>1, Truncated
  <1> QED  BY <1>1, <1>2, IntsTyped DEF Ints

\* The digits of a base, of which no two are alike.
DigitsOf(b) == {Digit(d) : d \in 0 .. b - 1}

LEMMA DigitsOfTyped ==
  ASSUME NEW b \in 2 .. 16
  PROVE  /\ DigitsOf(b) \subseteq Codes
         /\ \A x \in DigitsOf(b) : x >= 48
         /\ \A d \in 0 .. b - 1 : Digit(d) \in DigitsOf(b)
  BY DEF DigitsOf, Digit, Codes

LEMMA DigitOnce ==
  ASSUME NEW b \in 2 .. 16, NEW d \in 0 .. b - 1
  PROVE  (CHOOSE e \in 0 .. b - 1 : Digit(e) = Digit(d)) = d
  <1>1. \A e \in 0 .. b - 1 : Digit(e) = Digit(d) => e = d
    BY DEF Digit
  <1> QED  BY <1>1

\* A pass of the loop in str, and all of them.
Pass(D, q, b) == <<Digit(Abs(Rest(q, b)))>> \o
                     IF Quot(q, b) = 0 THEN <<>> ELSE D[Quot(q, b)]

Written(D, b) ==
    D \in [Ints -> Seq(DigitsOf(b))] /\ \A q \in Ints : D[q] = Pass(D, q, b)

LEMMA PassTyped ==
  ASSUME NEW b \in 2 .. 16, NEW D \in [Ints -> Seq(DigitsOf(b))], NEW q \in Ints
  PROVE  Pass(D, q, b) \in Seq(DigitsOf(b))
  <1>1. q \in Int
    BY IntsTyped
  <1>2. Abs(Rest(q, b)) \in 0 .. b - 1
    BY <1>1, Truncated
  <1>3. Digit(Abs(Rest(q, b))) \in DigitsOf(b)
    BY <1>2, DigitsOfTyped
  <1>4. Quot(q, b) \in Ints
    BY QuotInts
  <1>5. PICK t \in Seq(DigitsOf(b)) : t = IF Quot(q, b) = 0 THEN <<>> ELSE D[Quot(q, b)]
    <2>1. <<>> \in Seq(DigitsOf(b))
      OBVIOUS
    <2> QED  BY <1>4, <2>1
  <1>6. <<Digit(Abs(Rest(q, b)))>> \in Seq(DigitsOf(b))
    BY <1>3
  <1>7. <<Digit(Abs(Rest(q, b)))>> \o t \in Seq(DigitsOf(b))
    BY <1>6, ConcatProperties
  <1> QED  BY <1>5, <1>7 DEF Pass

\* For ever larger numbers.
LEMMA WrittenExists ==
  ASSUME NEW b \in 2 .. 16
  PROVE  \E D : Written(D, b)
  <1> DEFINE S == Seq(DigitsOf(b))
             P(D, n) == \A q \in Ints : Abs(q) < n => D[q] = Pass(D, q, b)
             N == {n \in Nat : \E D \in [Ints -> S] : P(D, n)}
  <1>1. 0 \in N
    <2>1. [q \in Ints |-> <<>>] \in [Ints -> S]
      OBVIOUS
    <2>2. \A q \in Ints : ~(Abs(q) < 0)
      BY IntsTyped
    <2> QED  BY <2>1, <2>2
  <1>2. ASSUME NEW n \in Nat, n \in N
        PROVE  n + 1 \in N
    <2>1. PICK D \in [Ints -> S] : P(D, n)
      BY <1>2
    <2> DEFINE E == [q \in Ints |-> Pass(D, q, b)]
    <2>2. E \in [Ints -> S]
      BY PassTyped
    <2>3. ASSUME NEW q \in Ints, Abs(q) < n + 1
          PROVE  E[q] = Pass(E, q, b)
      <3>1. q \in Int /\ Quot(q, b) \in Ints
        BY IntsTyped, QuotInts
      <3>2. E[q] = Pass(D, q, b)
        OBVIOUS
      <3> HIDE DEF P
      <3>3. Quot(q, b) # 0 => E[Quot(q, b)] = D[Quot(q, b)]
        <4>1. SUFFICES ASSUME Quot(q, b) # 0
                       PROVE  E[Quot(q, b)] = D[Quot(q, b)]
          OBVIOUS
        <4>2. q # 0
          BY <4>1 DEF Quot
        <4>3. Abs(Quot(q, b)) < Abs(q) /\ Abs(q) \in Nat /\ Abs(Quot(q, b)) \in Nat
          BY <3>1, <4>2, Truncated
        <4>4. Abs(Quot(q, b)) < n
          BY <2>3, <4>3
        <4>5. D[Quot(q, b)] = Pass(D, Quot(q, b), b)
          BY <2>1, <3>1, <4>4 DEF P
        <4> QED  BY <3>1, <4>5
      <3> HIDE DEF E
      <3> QED  BY <3>2, <3>3 DEF Pass
    <2>4. P(E, n + 1)
      BY <2>3
    <2>5. n + 1 \in Nat
      OBVIOUS
    <2> HIDE DEF E, P
    <2> QED  BY <2>2, <2>4, <2>5
  <1>3. Nat \subseteq N
    <2> HIDE DEF N
    <2> QED  BY <1>1, <1>2, NatInd
  <1>4. Word \in N
    BY <1>3, CodecAssumption
  <1>5. PICK D \in [Ints -> S] : P(D, Word)
    BY <1>4
  <1>6. \A q \in Ints : Abs(q) < Word
    BY IntsTyped
  <1>7. \A q \in Ints : D[q] = Pass(D, q, b)
    BY <1>5, <1>6
  <1> HIDE DEF P, N
  <1> QED  BY <1>5, <1>7 DEF Written, Pass

\* Nothing else has the same passes.
LEMMA WrittenOnce ==
  ASSUME NEW b \in 2 .. 16, NEW D, Written(D, b), NEW E, \A q \in Ints : E[q] = Pass(E, q, b)
  PROVE  \A q \in Ints : E[q] = D[q]
  <1> DEFINE N == {n \in Nat : \A q \in Ints : Abs(q) < n => E[q] = D[q]}
  <1>1. 0 \in N
    BY IntsTyped
  <1>2. ASSUME NEW n \in Nat, n \in N
        PROVE  n + 1 \in N
    <2>1. ASSUME NEW q \in Ints, Abs(q) < n + 1
          PROVE  E[q] = D[q]
      <3>1. q \in Int /\ Quot(q, b) \in Ints
        BY IntsTyped, QuotInts
      <3>2. E[q] = Pass(E, q, b) /\ D[q] = Pass(D, q, b)
        BY DEF Written
      <3>3. ASSUME Quot(q, b) # 0
            PROVE  E[Quot(q, b)] = D[Quot(q, b)]
        <4>1. q # 0
          BY <3>3 DEF Quot
        <4>2. Abs(Quot(q, b)) < Abs(q) /\ Abs(q) \in Nat /\ Abs(Quot(q, b)) \in Nat
          BY <3>1, <4>1, Truncated
        <4>3. Abs(Quot(q, b)) < n
          BY <2>1, <4>2
        <4> QED  BY <1>2, <3>1, <4>3
      <3> QED  BY <3>2, <3>3 DEF Pass
    <2> QED  BY <2>1
  <1>3. Nat \subseteq N
    <2> HIDE DEF N
    <2> QED  BY <1>1, <1>2, NatInd
  <1>4. Word \in N
    BY <1>3, CodecAssumption
  <1>5. \A q \in Ints : Abs(q) < Word
    BY IntsTyped
  <1> QED  BY <1>4, <1>5

LEMMA DigitsWritten ==
  ASSUME NEW b \in 2 .. 16
  PROVE  \E D : Written(D, b) /\ \A n \in Ints : Digits(n, b) = D[n]
  <1> DEFINE E == CHOOSE E : E = [q \in Ints |-> <<Digit(Abs(Rest(q, b)))>> \o
                                     IF Quot(q, b) = 0 THEN <<>> ELSE E[Quot(q, b)]]
  <1>1. \A n : Digits(n, b) = E[n]
    BY DEF Digits
  <1>2. PICK D : Written(D, b)
    BY WrittenExists
  <1>3. D = [q \in Ints |-> <<Digit(Abs(Rest(q, b)))>> \o
                IF Quot(q, b) = 0 THEN <<>> ELSE D[Quot(q, b)]]
    <2>1. D = [q \in Ints |-> D[q]]
      BY <1>2 DEF Written
    <2>2. \A q \in Ints : D[q] = <<Digit(Abs(Rest(q, b)))>> \o
                IF Quot(q, b) = 0 THEN <<>> ELSE D[Quot(q, b)]
      BY <1>2, Zenon DEF Written, Pass
    <2> QED  BY <2>1, <2>2, Zenon
  <1>4. E = [q \in Ints |-> <<Digit(Abs(Rest(q, b)))>> \o
                IF Quot(q, b) = 0 THEN <<>> ELSE E[Quot(q, b)]]
    BY <1>3, Zenon
  <1> HIDE DEF E
  <1>5. \A q \in Ints : E[q] = Pass(E, q, b)
    BY <1>4, Zenon DEF Pass
  <1>6. \A q \in Ints : E[q] = D[q]
    BY <1>2, <1>5, WrittenOnce
  <1> QED  BY <1>1, <1>2, <1>6

\* What a text says, from digit to digit.
LEMMA ValueFolds ==
  ASSUME NEW b \in 2 .. 16
  PROVE  \E F : /\ Folds(F, DigitsOf(b), Nat, 0,
                         [p \in Nat \X DigitsOf(b) |->
                             p[1] * b + CHOOSE d \in 0 .. b - 1 : Digit(d) = p[2]])
                /\ \A s \in Seq(DigitsOf(b)) : Value(s, b) = F[s]
  <1> DEFINE A == DigitsOf(b)
             of(x) == CHOOSE d \in 0 .. b - 1 : Digit(d) = x
             next == [p \in Nat \X A |-> p[1] * b + of(p[2])]
  <1>1. next \in [Nat \X A -> Nat]
    <2>1. ASSUME NEW x \in A
          PROVE  of(x) \in Nat
      <3>1. PICK d \in 0 .. b - 1 : x = Digit(d)
        BY DEF DigitsOf
      <3> QED  BY <3>1, DigitOnce
    <2> HIDE DEF A, of
    <2> QED  BY <2>1
  <1>2. PICK F : Folds(F, A, Nat, 0, next)
    <2> HIDE DEF next, A
    <2>1. 0 \in Nat
      OBVIOUS
    <2> QED  BY <1>1, <2>1, FoldExists, Zenon
  <1>3. ASSUME NEW s \in Seq(A)
        PROVE  Value(s, b) = F[s]
    <2> DEFINE g == [i \in 0 .. Len(s) |-> F[SubSeq(s, 1, i)]]
               f == CHOOSE f : f = [i \in 0 .. Len(s) |-> IF i = 0 THEN 0 ELSE f[i - 1] * b + of(s[i])]
    <2>1. Value(s, b) = f[Len(s)]
      BY DEF Value
    <2> HIDE DEF A, of
    <2>2. ASSUME NEW i \in 0 .. Len(s)
          PROVE  g[i] = IF i = 0 THEN 0 ELSE g[i - 1] * b + of(s[i])
      <3>1. CASE i = 0
        BY <1>2, <3>1, FoldPrefix
      <3>2. CASE i # 0
        <4>1. i \in 1 .. Len(s) /\ i - 1 \in 0 .. Len(s) /\ s[i] \in A
          BY <3>2, ElementOfSeq
        <4>2. g[i] = F[SubSeq(s, 1, i)] /\ g[i - 1] = F[SubSeq(s, 1, i - 1)]
          BY <4>1
        <4> HIDE DEF next, g
        <4>3. g[i] = next[<<g[i - 1], s[i]>>] /\ g[i - 1] \in Nat
          BY <1>2, <4>1, <4>2, FoldPrefix
        <4> QED  BY <3>2, <4>1, <4>3 DEF next
      <3> QED  BY <3>1, <3>2
    <2>3. g = [i \in 0 .. Len(s) |-> IF i = 0 THEN 0 ELSE g[i - 1] * b + of(s[i])]
      BY <2>2
    <2>4. f = [i \in 0 .. Len(s) |-> IF i = 0 THEN 0 ELSE f[i - 1] * b + of(s[i])]
      BY <2>3, Zenon
    <2> HIDE DEF f, g
    <2>5. f[0] = 0
      BY <2>4
    <2>6. ASSUME NEW i \in 1 .. Len(s), f[i - 1] \in Nat
          PROVE  f[i] = next[<<f[i - 1], s[i]>>]
      <3>1. i \in 0 .. Len(s) /\ i # 0
        OBVIOUS
      <3>2. f[i] = f[i - 1] * b + of(s[i])
        BY <2>4, <3>1
      <3>3. s[i] \in A
        BY ElementOfSeq
      <3> QED  BY <2>6, <3>2, <3>3
    <2> HIDE DEF next
    <2>7. Loops(f, Nat, 0, next, s)
      BY <2>5, <2>6 DEF Loops
    <2>8. f[Len(s)] = F[s]
      BY <1>2, <2>7, FoldLoop
    <2> QED  BY <2>1, <2>8
  <1> HIDE DEF next
  <1>4. \E G : /\ Folds(G, A, Nat, 0, next)
               /\ \A s \in Seq(A) : Value(s, b) = G[s]
    BY <1>2, <1>3
  <1> QED  BY <1>4 DEF next

LEMMA ValueAppend ==
  ASSUME NEW b \in 2 .. 16, NEW s \in Seq(DigitsOf(b)), NEW d \in 0 .. b - 1
  PROVE  /\ Value(<<>>, b) = 0 /\ Value(s, b) \in Nat
         /\ Value(Append(s, Digit(d)), b) = Value(s, b) * b + d
  <1> DEFINE A == DigitsOf(b)
             next == [p \in Nat \X A |-> p[1] * b + CHOOSE e \in 0 .. b - 1 : Digit(e) = p[2]]
  <1>1. PICK F : Folds(F, A, Nat, 0, next) /\ \A r \in Seq(A) : Value(r, b) = F[r]
    BY ValueFolds
  <1>2. Digit(d) \in A
    BY DigitsOfTyped
  <1> HIDE DEF A
  <1>3. Append(s, Digit(d)) \in Seq(A) /\ <<>> \in Seq(A) /\ s \in Seq(A)
    BY <1>2 DEF A
  <1>4. F[s] \in Nat /\ F[<<>>] = 0 /\ F[Append(s, Digit(d))] = next[<<F[s], Digit(d)>>]
    <2> HIDE DEF next
    <2> QED  BY <1>1, <1>2, <1>3 DEF Folds
  <1>5. next[<<F[s], Digit(d)>>] = F[s] * b + d
    <2>1. (CHOOSE e \in 0 .. b - 1 : Digit(e) = Digit(d)) = d
      BY DigitOnce
    <2>2. next[<<F[s], Digit(d)>>] = F[s] * b + CHOOSE e \in 0 .. b - 1 : Digit(e) = Digit(d)
      BY <1>2, <1>4
    <2> QED  BY <2>1, <2>2, Zenon
  <1> HIDE DEF next
  <1>6. F[Append(s, Digit(d))] = F[s] * b + d
    BY <1>4, <1>5
  <1> QED  BY <1>1, <1>3, <1>4, <1>6, Zenon

\* A text without a sign is that of a number.
Says(t, n, b) ==
    /\ t \in Seq(DigitsOf(b)) /\ t # <<>>
    /\ Value(t, b) = n
    /\ t[1] = Digit(0) => t = <<Digit(0)>>
    /\ b = 10 => A2Ubigint(t) = n

LEMMA CodesInt == Codes \subseteq Int
  BY DEF Codes

LEMMA SeqSub ==
  ASSUME NEW A, NEW B, A \subseteq B, NEW s \in Seq(A)
  PROVE  s \in Seq(B)
  OBVIOUS

LEMMA SaysDigit ==
  ASSUME NEW b \in 2 .. 16, NEW d \in 0 .. b - 1, d < Long
  PROVE  Says(<<Digit(d)>>, d, b)
  <1>1. Digit(d) \in DigitsOf(b) /\ d \in Nat
    BY DigitsOfTyped
  <1>2. <<Digit(d)>> \in Seq(DigitsOf(b)) /\ <<>> \in Seq(DigitsOf(b)) /\ <<Digit(d)>> # <<>>
    BY <1>1
  <1>3. <<Digit(d)>> = Append(<<>>, Digit(d))
    OBVIOUS
  <1>4. Value(<<Digit(d)>>, b) = 0 * b + d
    BY <1>2, <1>3, ValueAppend
  <1>5. ASSUME b = 10
        PROVE  A2Ubigint(<<Digit(d)>>) = d
    <2>1. Digit(d) = 48 + d /\ Digit(d) \in Int /\ <<>> \in Seq(Int)
      BY <1>5 DEF Digit
    <2>2. A2Ubigint(<<Digit(d)>>) = (A2Ubigint(<<>>) * 10 + (Digit(d) - 48)) % Long
      BY <1>3, <2>1, A2UbigintAppend
    <2>3. A2Ubigint(<<Digit(d)>>) = d % Long
      BY <2>1, <2>2, A2UbigintAppend
    <2>4. Long \in Nat /\ d % Long = d
      BY <1>1, CodecAssumption
    <2> QED  BY <2>3, <2>4
  <1> QED  BY <1>1, <1>2, <1>4, <1>5 DEF Says

LEMMA SaysNext ==
  ASSUME NEW b \in 2 .. 16, NEW d \in 0 .. b - 1, NEW m \in Nat \ {0}, NEW t, Says(t, m, b),
         b * m + d < Long
  PROVE  Says(Append(t, Digit(d)), b * m + d, b)
  <1>1. t \in Seq(DigitsOf(b)) /\ t # <<>> /\ Value(t, b) = m
    BY DEF Says
  <1>2. Digit(d) \in DigitsOf(b) /\ d \in Nat
    BY DigitsOfTyped
  <1>3. Append(t, Digit(d)) \in Seq(DigitsOf(b)) /\ Append(t, Digit(d)) # <<>>
    BY <1>1, <1>2
  <1>4. Value(Append(t, Digit(d)), b) = b * m + d
    <2>1. Value(Append(t, Digit(d)), b) = m * b + d
      BY <1>1, ValueAppend
    <2>2. m * b = b * m
      OBVIOUS
    <2> QED  BY <2>1, <2>2
  <1>5. Append(t, Digit(d))[1] = t[1] /\ t[1] # Digit(0)
    <2>1. Append(t, Digit(d))[1] = t[1]
      BY <1>1, <1>2
    <2>2. t # <<Digit(0)>>
      <3>1. 0 \in 0 .. b - 1 /\ 0 < Long
        BY CodecAssumption
      <3>2. Value(<<Digit(0)>>, b) = 0
        BY <3>1, SaysDigit DEF Says
      <3> QED  BY <1>1, <3>2
    <2> QED  BY <2>1, <2>2 DEF Says
  <1>6. ASSUME b = 10
        PROVE  A2Ubigint(Append(t, Digit(d))) = 10 * m + d
    <2>1. Digit(d) = 48 + d /\ Digit(d) \in Int
      BY <1>6 DEF Digit
    <2>2. t \in Seq(Int)
      <3>1. DigitsOf(b) \subseteq Int
        BY DigitsOfTyped, CodesInt
      <3> QED  BY <1>1, <3>1, SeqSub, Zenon
    <2>3. A2Ubigint(t) = m
      BY <1>6 DEF Says
    <2>4. A2Ubigint(Append(t, Digit(d))) = (m * 10 + (Digit(d) - 48)) % Long
      BY <2>1, <2>2, <2>3, A2UbigintAppend
    <2>5. m * 10 + (Digit(d) - 48) = 10 * m + d
      BY <2>1
    <2>6. 10 * m + d \in Nat /\ 10 * m + d < Long /\ Long \in Nat
      BY <1>2, <1>6, CodecAssumption
    <2> HIDE DEF Says
    <2>7. (10 * m + d) % Long = 10 * m + d
      <3> DEFINE x == 10 * m + d
      <3> HIDE DEF x
      <3>1. x \in Nat /\ x < Long /\ Long \in Nat
        BY <2>6 DEF x
      <3>2. x % Long = x
        BY <3>1
      <3> QED  BY <3>2 DEF x
    <2> QED  BY <2>4, <2>5, <2>7, Zenon
  <1> QED  BY <1>3, <1>4, <1>5, <1>6 DEF Says

LEMMA ReverseNext ==
  ASSUME NEW A, NEW s \in Seq(A), NEW x \in A
  PROVE  Reverse(<<x>> \o s) = Append(Reverse(s), x)
  <1>1. PICK r \in Seq(A) : r = <<x>> \o s
    <2>1. <<x>> \in Seq(A)
      OBVIOUS
    <2> QED  BY <2>1, ConcatProperties
  <1>2. Len(s) \in Nat /\ Len(r) = Len(s) + 1 /\ r[1] = x /\ \A i \in 1 .. Len(s) : r[i + 1] = s[i]
    BY <1>1
  <1>3. Reverse(s) \in Seq(A) /\ Len(Reverse(s)) = Len(s)
    BY DEF Reverse
  <1>4. Append(Reverse(s), x) \in Seq(A) /\ Len(Append(Reverse(s), x)) = Len(s) + 1
    BY <1>3
  <1>5. Reverse(r) \in Seq(A) /\ Len(Reverse(r)) = Len(s) + 1
    BY <1>2 DEF Reverse
  <1>6. ASSUME NEW i \in 1 .. Len(s) + 1
        PROVE  Reverse(r)[i] = Append(Reverse(s), x)[i]
    <2>1. Reverse(r)[i] = r[Len(s) + 1 - i + 1]
      BY <1>2 DEF Reverse
    <2>2. CASE i = Len(s) + 1
      <3>1. Append(Reverse(s), x)[i] = x
        BY <1>3, <2>2
      <3>2. Len(s) + 1 - i + 1 = 1
        BY <1>2, <2>2
      <3> QED  BY <1>2, <2>1, <3>1, <3>2
    <2>3. CASE i \in 1 .. Len(s)
      <3>1. Append(Reverse(s), x)[i] = Reverse(s)[i]
        BY <1>3, <2>3
      <3>2. Reverse(s)[i] = s[Len(s) - i + 1]
        BY <2>3 DEF Reverse
      <3>3. Len(s) - i + 1 \in 1 .. Len(s) /\ Len(s) + 1 - i + 1 = Len(s) - i + 1 + 1
        BY <1>2, <2>3
      <3> QED  BY <1>2, <2>1, <3>1, <3>2, <3>3
    <2>4. i = Len(s) + 1 \/ i \in 1 .. Len(s)
      BY <1>2
    <2> QED  BY <2>2, <2>3, <2>4
  <1>7. Reverse(r) = Append(Reverse(s), x)
    BY <1>4, <1>5, <1>6, SeqEqual
  <1> QED  BY <1>1, <1>7

LEMMA ReverseLast ==
  ASSUME NEW A, NEW s \in Seq(A), NEW x \in A
  PROVE  Reverse(s \o <<x>>) = <<x>> \o Reverse(s)
  <1>1. <<x>> \in Seq(A)
    OBVIOUS
  <1>2. PICK r \in Seq(A) : r = s \o <<x>>
    BY <1>1, ConcatProperties
  <1>3. /\ Len(s) \in Nat /\ Len(r) = Len(s) + 1 /\ r[Len(s) + 1] = x
        /\ \A i \in 1 .. Len(s) : r[i] = s[i]
    BY <1>2
  <1>4. Reverse(s) \in Seq(A) /\ Len(Reverse(s)) = Len(s)
    BY DEF Reverse
  <1>5. PICK t \in Seq(A) : t = <<x>> \o Reverse(s)
    BY <1>1, <1>4, ConcatProperties
  <1>6. Len(t) = Len(s) + 1 /\ t[1] = x /\ \A i \in 1 .. Len(s) : t[i + 1] = Reverse(s)[i]
    BY <1>3, <1>4, <1>5
  <1>7. Reverse(r) \in Seq(A) /\ Len(Reverse(r)) = Len(s) + 1
    BY <1>3 DEF Reverse
  <1>8. ASSUME NEW i \in 1 .. Len(s) + 1
        PROVE  Reverse(r)[i] = t[i]
    <2>1. Reverse(r)[i] = r[Len(s) + 1 - i + 1]
      BY <1>3 DEF Reverse
    <2>2. CASE i = 1
      <3>1. Len(s) + 1 - i + 1 = Len(s) + 1
        BY <1>3, <2>2
      <3> QED  BY <1>3, <1>6, <2>1, <2>2, <3>1
    <2>3. CASE i # 1
      <3>1. i - 1 \in 1 .. Len(s) /\ (i - 1) + 1 = i
        BY <1>3, <2>3
      <3>2. t[i] = Reverse(s)[i - 1]
        BY <1>6, <3>1
      <3>3. Reverse(s)[i - 1] = s[Len(s) - (i - 1) + 1]
        BY <3>1 DEF Reverse
      <3>4. Len(s) - (i - 1) + 1 \in 1 .. Len(s) /\ Len(s) + 1 - i + 1 = Len(s) - (i - 1) + 1
        BY <1>3, <3>1
      <3> QED  BY <1>3, <2>1, <3>2, <3>3, <3>4
    <2> QED  BY <2>2, <2>3
  <1>9. Reverse(r) = t
    BY <1>6, <1>7, <1>8, SeqEqual
  <1> QED  BY <1>2, <1>5, <1>9

\* The digits of a number say it: those of its quotient do.
LEMMA DigitsSay ==
  ASSUME NEW b \in 2 .. 16, NEW D, Written(D, b)
  PROVE  \A q \in Ints : Says(Reverse(D[q]), Abs(q), b)
  <1> DEFINE N == {n \in Nat : \A q \in Ints : Abs(q) < n => Says(Reverse(D[q]), Abs(q), b)}
  <1>1. 0 \in N
    BY IntsTyped
  <1>2. ASSUME NEW n \in Nat, n \in N
        PROVE  n + 1 \in N
    <2>1. ASSUME NEW q \in Ints, Abs(q) < n + 1
          PROVE  Says(Reverse(D[q]), Abs(q), b)
      <3>1. q \in Int /\ Quot(q, b) \in Ints
        BY IntsTyped, QuotInts
      <3>2. PICK d \in 0 .. b - 1 : d = Abs(Rest(q, b))
        BY <3>1, Truncated
      <3>3. PICK m \in Nat : m = Abs(Quot(q, b))
        BY <3>1, Truncated
      <3>4. Abs(q) = b * m + d
        BY <3>1, <3>2, <3>3, Truncated, Zenon
      <3>5. b * m + d < Long
        BY <3>4, IntsTyped
      <3>6. D[q] = <<Digit(d)>> \o IF Quot(q, b) = 0 THEN <<>> ELSE D[Quot(q, b)]
        BY <3>2, Zenon DEF Written, Pass
      <3>7. Digit(d) \in DigitsOf(b)
        BY DigitsOfTyped
      <3>8. CASE Quot(q, b) = 0
        <4>1. m = 0
          BY <3>3, <3>8 DEF Abs
        <4>2. b * m = 0
          BY <4>1
        <4>3. Abs(q) = d /\ d < Long
          BY <3>4, <3>5, <4>2
        <4>4. D[q] = <<Digit(d)>> \o <<>>
          BY <3>6, <3>8
        <4>5. D[q] = <<Digit(d)>>
          BY <4>4
        <4>6. Reverse(<<Digit(d)>>) = <<Digit(d)>>
          BY DEF Reverse
        <4>7. Says(<<Digit(d)>>, d, b)
          BY <4>3, SaysDigit
        <4> QED  BY <4>3, <4>5, <4>6, <4>7
      <3>9. CASE Quot(q, b) # 0
        <4>1. m \in Nat \ {0}
          <5>1. Quot(q, b) \in Int
            BY <3>1, Truncated
          <5> QED  BY <3>3, <3>9, <5>1 DEF Abs
        <4>2. q # 0
          BY <3>9 DEF Quot
        <4>3. m < Abs(q) /\ Abs(q) \in Nat
          BY <3>1, <3>3, <4>2, Truncated
        <4>4. Abs(Quot(q, b)) < n
          BY <2>1, <3>3, <4>3
        <4>5. PICK s \in Seq(DigitsOf(b)) : s = D[Quot(q, b)]
          BY <3>1 DEF Written
        <4>6. Says(Reverse(s), m, b)
          BY <1>2, <3>1, <3>3, <4>4, <4>5
        <4>7. Says(Append(Reverse(s), Digit(d)), b * m + d, b)
          BY <3>5, <4>1, <4>6, SaysNext
        <4>8. D[q] = <<Digit(d)>> \o s
          BY <3>6, <3>9, <4>5
        <4>9. Reverse(<<Digit(d)>> \o s) = Append(Reverse(s), Digit(d))
          BY <3>7, ReverseNext
        <4> QED  BY <3>4, <4>7, <4>8, <4>9, Zenon
      <3> QED  BY <3>8, <3>9
    <2> QED  BY <2>1
  <1>3. Nat \subseteq N
    <2> HIDE DEF N
    <2> QED  BY <1>1, <1>2, NatInd
  <1>4. Word \in N
    BY <1>3, CodecAssumption
  <1>5. \A q \in Ints : Abs(q) < Word
    BY IntsTyped
  <1> QED  BY <1>4, <1>5

\* What str makes of a number.
WithSign(t, n, b) == IF n < 0 /\ b = 10 THEN <<Minus>> \o t ELSE t

LEMMA StrSays ==
  ASSUME NEW b \in 2 .. 16, NEW n \in Ints
  PROVE  \E t : Says(t, Abs(n), b) /\ Str(n, b) = WithSign(t, n, b)
  <1>1. PICK D : Written(D, b) /\ \A q \in Ints : Digits(q, b) = D[q]
    BY DigitsWritten
  <1>2. PICK s \in Seq(DigitsOf(b)) : s = D[n]
    BY <1>1 DEF Written
  <1>3. Says(Reverse(s), Abs(n), b)
    BY <1>1, <1>2, DigitsSay
  <1>4. Digits(n, b) = s
    BY <1>1, <1>2
  <1>5. CASE ~(n < 0 /\ b = 10)
    <2>1. Str(n, b) = Reverse(s \o <<>>)
      BY <1>4, <1>5 DEF Str
    <2>2. s \o <<>> = s
      BY ConcatEmptySeq
    <2> QED  BY <1>3, <1>5, <2>1, <2>2 DEF WithSign
  <1>6. CASE n < 0 /\ b = 10
    <2>1. Str(n, b) = Reverse(s \o <<Minus>>)
      BY <1>4, <1>6 DEF Str
    <2>2. s \in Seq(Codes)
      BY DigitsOfTyped
    <2>3. Minus \in Codes
      BY DEF Minus, Codes
    <2>4. Reverse(s \o <<Minus>>) = <<Minus>> \o Reverse(s)
      BY <2>2, <2>3, ReverseLast
    <2> QED  BY <1>3, <1>6, <2>1, <2>4 DEF WithSign
  <1> QED  BY <1>5, <1>6

-----------------------------------------------------------------------------
\* a2bigint.  In 64 bits a number of the program, and its opposite, has itself.
LEMMA SignedIs ==
  ASSUME NEW n \in Ints
  PROVE  /\ n >= 0 => Signed(Abs(n)) = n
         /\ n < 0 => Signed(-Abs(n)) = n
  <1> DEFINE h == Long \div 2
  <1>1. n \in Int /\ Abs(n) \in Nat /\ Abs(n) <= Word \div 2 /\ (n >= 0 => n < Word \div 2)
    BY IntsTyped DEF Ints
  <1>2. h \in Nat /\ Long = 2 * h /\ Word \div 2 <= h /\ Word \div 2 \in Nat /\ Word \div 2 >= 1
    BY IntsTyped
  <1>3. Signed(n) = IF n % Long < h THEN n % Long ELSE (n % Long) - Long
    BY DEF Signed
  <1> HIDE DEF h
  <1>4. CASE n >= 0
    <2>1. Abs(n) = n /\ n < h
      BY <1>1, <1>2, <1>4 DEF Abs
    <2>2. n % Long = n
      BY <1>1, <1>2, <1>4, <2>1
    <2>3. Signed(n) = n
      BY <1>3, <2>1, <2>2
    <2> QED  BY <1>1, <1>4, <2>1, <2>3
  <1>5. CASE n < 0
    <2>1. -Abs(n) = n /\ -n <= h
      BY <1>1, <1>2, <1>5 DEF Abs
    <2>2. n % Long = n + Long
      BY <1>1, <1>2, <1>5, <2>1
    <2>3. ~(n + Long < h) /\ n + Long - Long = n
      BY <1>1, <1>2, <2>1
    <2>4. Signed(n) = n
      BY <1>1, <1>2, <1>3, <2>2, <2>3
    <2> QED  BY <1>1, <1>5, <2>1, <2>4
  <1> QED  BY <1>1, <1>4, <1>5

LEMMA SaysFirst ==
  ASSUME NEW b \in 2 .. 16, NEW t, NEW n, Says(t, n, b)
  PROVE  t \in Seq(Codes) /\ t # <<>> /\ t[1] # Minus /\ t[1] \in DigitsOf(b)
  <1>1. t \in Seq(DigitsOf(b)) /\ t # <<>>
    BY DEF Says
  <1>2. t[1] \in DigitsOf(b)
    BY <1>1
  <1>3. t[1] >= 48 /\ t[1] \in Codes
    BY <1>2, DigitsOfTyped
  <1>4. t \in Seq(Codes)
    BY <1>1, DigitsOfTyped, SeqSub
  <1> QED  BY <1>1, <1>2, <1>3, <1>4 DEF Minus, Codes

LEMMA SignedText ==
  ASSUME NEW t \in Seq(Codes)
  PROVE  /\ <<Minus>> \o t # <<>> /\ (<<Minus>> \o t)[1] = Minus
         /\ Tail(<<Minus>> \o t) = t
  <1>1. Minus \in Codes
    BY DEF Minus, Codes
  <1> QED  BY <1>1

\* The getters read from str's text of a number the number.
LEMMA NumberBack ==
  ASSUME NEW n \in Ints
  PROVE  /\ A2Bigint(Str(n, 10)) = n
         /\ n >= 0 => A2Ubigint(Str(n, 10)) = n
  <1>1. PICK t : Says(t, Abs(n), 10) /\ Str(n, 10) = WithSign(t, n, 10)
    BY StrSays
  <1>2. t \in Seq(Codes) /\ t # <<>> /\ t[1] # Minus
    BY <1>1, SaysFirst
  <1>3. A2Ubigint(t) = Abs(n)
    BY <1>1 DEF Says
  <1>4. n \in Int
    BY IntsTyped
  <1>5. CASE n >= 0
    <2>1. Str(n, 10) = t
      BY <1>1, <1>4, <1>5 DEF WithSign
    <2>2. A2Bigint(t) = Signed(Abs(n))
      BY <1>2, <1>3 DEF A2Bigint
    <2>3. Abs(n) = n
      BY <1>4, <1>5 DEF Abs
    <2> QED  BY <1>3, <1>5, <2>1, <2>2, <2>3, SignedIs
  <1>6. CASE n < 0
    <2>1. Str(n, 10) = <<Minus>> \o t
      BY <1>1, <1>6 DEF WithSign
    <2>2. A2Bigint(Str(n, 10)) = Signed(-A2Ubigint(t))
      BY <1>2, <2>1, SignedText DEF A2Bigint
    <2> QED  BY <1>3, <1>4, <1>6, <2>2, SignedIs
  <1> QED  BY <1>4, <1>5, <1>6

-----------------------------------------------------------------------------
\* Where a value is on its way, and what is there.
ValueInv ==
    /\ kind = "string" =>
           /\ given \in Seq(Codes)
           /\ step \in {"given", "text", "column", "got", "unsafe"}
           /\ step # "given" => text = SafeStr(given)
           /\ step \in {"column", "got"} => column = WithoutNul(given)
           /\ step \in {"got", "unsafe"} => got = WithoutNul(given)
    /\ kind = "int" =>
           /\ given \in Ints /\ base \in Nat
           /\ step \in {"given", "text", "column", "got"}
           /\ step # "given" => text = Str(given, base)
           /\ step \in {"column", "got"} => base = 10 /\ column \in {text, NULL}
           /\ step = "got" => got = IF column = NULL THEN 0 ELSE given

LEMMA ValueInvInit == ValueInit => ValueInv
  <1>1. Chars \subseteq Codes
    BY CodecAssumption DEF Codes
  <1>2. ASSUME NEW s \in Strings
        PROVE  s \in Seq(Codes)
    <2>1. PICK n \in Nat : s \in [1 .. n -> Chars]
      BY CodecAssumption DEF Strings
    <2> QED  BY <1>1, <2>1
  <1>3. Bases \subseteq Nat
    BY CodecAssumption
  <1> QED  BY <1>2, <1>3 DEF ValueInit, ValueInv

LEMMA ValueInvStep == ValueInv /\ [ValueNext]_valueVars => ValueInv'
  <1> SUFFICES ASSUME ValueInv, [ValueNext]_valueVars PROVE ValueInv'
    OBVIOUS
  <1> USE DEF ValueInv
  <1>1. CASE Compose
    BY <1>1 DEF Compose
  <1>2. CASE Store
    <2>1. CASE kind = "string"
      <3>1. given \in Seq(Codes) /\ text = SafeStr(given)
        BY <1>2, <2>1 DEF Store
      <3>2. Literal(text).value = WithoutNul(given)
        <4>1. Literal(SafeStr(given)) = Said(given)
          BY <3>1, SafeRead
        <4> QED  BY <3>1, <4>1 DEF Said
      <3> QED  BY <1>2, <2>1, <3>2 DEF Store
    <2>2. CASE kind = "int"
      BY <1>2, <2>2 DEF Store
    <2> QED  BY <1>2, <2>1, <2>2 DEF Store
  <1>3. CASE Get
    <2>1. CASE kind = "string"
      BY <1>3, <2>1 DEF Get
    <2>2. CASE kind = "int"
      <3>1. given \in Ints /\ base = 10 /\ text = Str(given, 10) /\ column \in {text, NULL}
        BY <1>3, <2>2 DEF Get
      <3>2. A2Bigint(text) = given /\ (given >= 0 => A2Ubigint(text) = given)
        BY <3>1, NumberBack
      <3>3. got' = IF column = NULL THEN 0 ELSE given
        BY <1>3, <2>2, <3>1, <3>2 DEF Get, Getbigint, Getubigint
      <3> QED  BY <1>3, <2>2, <3>3 DEF Get
    <2> QED  BY <1>3, <2>1, <2>2 DEF Get
  <1>4. CASE Unsafe
    <2>1. given \in Seq(Codes) /\ text = SafeStr(given)
      BY <1>4 DEF Unsafe
    <2>2. UnsafeStr(SafeStr(given)) = WithoutNul(given)
      BY <2>1, UnsafeRead
    <2> QED  BY <1>4, <2>1, <2>2 DEF Unsafe
  <1>5. CASE UNCHANGED valueVars
    BY <1>5 DEF valueVars
  <1> QED  BY <1>1, <1>2, <1>3, <1>4, <1>5 DEF ValueNext

LEMMA LiteralSaid == ValueInv => LiteralWhole
  <1> SUFFICES ASSUME ValueInv, kind = "string", step # "given"
               PROVE  ~Literal(text).ended /\ ~Literal(text).escape
    BY DEF LiteralWhole
  <1>1. given \in Seq(Codes) /\ text = SafeStr(given)
    BY DEF ValueInv
  <1>2. Literal(SafeStr(given)) = Said(given)
    BY <1>1, SafeRead
  <1> QED  BY <1>1, <1>2 DEF Said

LEMMA TextSaid == ValueInv => TextRight
  <1> SUFFICES ASSUME ValueInv, kind = "int", step # "given"
               PROVE  TextRight
    BY DEF TextRight
  <1>1. given \in Ints /\ base \in Nat /\ text = Str(given, base)
    BY DEF ValueInv
  <1>2. CASE base \notin 2 .. 16
    BY <1>1, <1>2 DEF Str, TextRight
  <1>3. CASE base \in 2 .. 16
    <2>1. PICK t : Says(t, Abs(given), base) /\ text = WithSign(t, given, base)
      BY <1>1, <1>3, StrSays
    <2>2. t \in Seq(Codes) /\ t # <<>>
      BY <1>3, <2>1, SaysFirst
    <2>3. (t[1] = Digit(0) => Len(t) = 1) /\ Value(t, base) = Abs(given)
      BY <2>1 DEF Says
    <2>4. CASE given < 0 /\ base = 10
      <3>1. text = <<Minus>> \o t
        BY <2>1, <2>4 DEF WithSign
      <3>2. text[1] = Minus /\ Tail(text) = t
        BY <2>2, <3>1, SignedText
      <3> QED  BY <1>3, <2>2, <2>3, <2>4, <3>2 DEF TextRight
    <2>5. CASE ~(given < 0 /\ base = 10)
      <3>1. text = t
        BY <2>1, <2>5 DEF WithSign
      <3> QED  BY <1>3, <2>2, <2>3, <2>5, <3>1 DEF TextRight
    <2> QED  BY <2>4, <2>5
  <1> QED  BY <1>2, <1>3

\* What the program has of a value at every point of its way is what it was given.
THEOREM ValueInvariance == ValueSpec => []ValueInv
  BY ValueInvInit, ValueInvStep, PTL DEF ValueSpec

\* Whatever the strings, what safestr makes of them is the whole of a literal and
\* no more: the quotes around it in the statement are a pair (main.cpp:50-71).
THEOREM LiteralsWhole == ValueSpec => []LiteralWhole
  BY ValueInvariance, LiteralSaid, PTL

\* Strings of any length come back, without their characters 0 (Query.cpp:327-364).
THEOREM StringsKept == ValueSpec => []StringKept
  <1>1. ValueInv => StringKept
    BY DEF ValueInv, StringKept
  <1> QED  BY <1>1, ValueInvariance, PTL

\* In ints of any width every number comes back (str.cpp:21-39, Query.cpp:415-441).
THEOREM NumbersKept == ValueSpec => []NumberKept
  <1>1. ValueInv => NumberKept
    BY DEF ValueInv, NumberKept
  <1> QED  BY <1>1, ValueInvariance, PTL

\* In ints of any width str writes every number in every base (str.cpp:21-39).
THEOREM TextsRight == ValueSpec => []TextRight
  BY ValueInvariance, TextSaid, PTL

-----------------------------------------------------------------------------
\* What a name has in the shared map.
Mapped ==
    /\ m_mmap \in [DOMAIN m_mmap -> Numbers] /\ DOMAIN m_mmap \subseteq ColumnNames
    /\ \A n \in DOMAIN m_mmap :
           m_mmap[n] = {} \/ (n \in DOMAIN Defined /\ m_mmap[n] = Defined[n])

Given ==
    /\ type \in {"set", "enum"}
    /\ m_value \in [Obj -> Numbers] /\ members \in [Obj -> SUBSET DOMAIN Defined]
    /\ DOMAIN m_vmap = Obj
    /\ \A o \in Obj : \A n \in members[o] : n \in DOMAIN m_mmap /\ m_mmap[n] = Defined[n]
    /\ type = "set" => \A o \in Obj : m_value[o] = UNION {Defined[n] : n \in members[o]}
    /\ type = "enum" => \A o \in Obj : \A n \in members[o] : m_value[o] = Defined[n]

\* A map from numbers to names is what these names have in the shared map.
Turns(vmap, ns) ==
    /\ DOMAIN vmap = {m_mmap[n] : n \in ns}
    /\ \A v \in DOMAIN vmap : vmap[v] \in ns /\ m_mmap[vmap[v]] = v

Turned ==
    type = "enum" =>
        \A o \in Obj \ unnamed : \E ns \in SUBSET DOMAIN m_mmap : Turns(m_vmap[o], ns)

ColumnInv == Mapped /\ Given /\ Turned

\* What the program defines, for a SET as for an ENUM: names other than the empty
\* one with numbers other than 0, each its own.
LEMMA DefinedNames ==
  /\ DOMAIN Defined \subseteq ColumnNames /\ NoName \notin DOMAIN Defined
  /\ \A n \in DOMAIN Defined : Defined[n] \in Numbers /\ Defined[n] # {}
  /\ \A m, n \in DOMAIN Defined : Defined[m] = Defined[n] => m = n
  <1>1. CASE type = "set"
    <2>1. Defined = SetBits
      BY <1>1 DEF Defined
    <2> QED  BY <2>1, ColumnsAssumption DEF ColumnNames
  <1>2. CASE type # "set"
    <2>1. Defined = EnumNumbers
      BY <1>2 DEF Defined
    <2> QED  BY <2>1, ColumnsAssumption DEF ColumnNames
  <1> QED  BY <1>1, <1>2

\* It does not change with the map.
LEMMA DefinedStays ==
  ASSUME type' = type
  PROVE  Defined' = Defined
  BY DEF Defined

\* Two names of a SET have no bit in common.
LEMMA Apart ==
  ASSUME type = "set", NEW m \in DOMAIN Defined, NEW n \in DOMAIN Defined,
         Defined[m] \cap Defined[n] # {}
  PROVE  m = n
  BY ColumnsAssumption DEF Defined

LEMMA NumberOf ==
  ASSUME Mapped, NEW m \in DOMAIN m_mmap, NEW n \in DOMAIN Defined, m_mmap[m] = Defined[n]
  PROVE  m = n
  <1>1. Defined[n] # {}
    BY DefinedNames
  <1>2. m \in DOMAIN Defined /\ m_mmap[m] = Defined[m]
    BY <1>1 DEF Mapped
  <1> QED  BY <1>2, DefinedNames

LEMMA WholeMapTurned == Mapped => Turns(TurnedOver, DOMAIN m_mmap)
  BY DEF Mapped, Turns, TurnedOver

\* A part of the map that turns into as many numbers as the map has names is all
\* of it.
LEMMA AsLarge ==
  ASSUME Mapped, NEW ns \in SUBSET DOMAIN m_mmap, NEW vmap, Turns(vmap, ns),
         Cardinality(DOMAIN vmap) = Cardinality(DOMAIN m_mmap)
  PROVE  ns = DOMAIN m_mmap
  <1>1. IsFiniteSet(DOMAIN m_mmap)
    BY ColumnsAssumption, FS_Subset DEF Mapped
  <1>2. /\ IsFiniteSet(ns) /\ Cardinality(ns) <= Cardinality(DOMAIN m_mmap)
        /\ Cardinality(ns) = Cardinality(DOMAIN m_mmap) => ns = DOMAIN m_mmap
    BY <1>1, FS_Subset
  <1>3. Cardinality({m_mmap[n] : n \in ns}) <= Cardinality(ns)
    <2> DEFINE T == {m_mmap[n] : n \in ns}
               f == [n \in ns |-> m_mmap[n]]
    <2>1. f \in Surjection(ns, T)
      BY DEF Surjection
    <2> HIDE DEF T, f
    <2>2. Cardinality(T) <= Cardinality(ns)
      BY <1>2, <2>1, FS_Surjection
    <2> QED  BY <2>2 DEF T
  <1>4. Cardinality(ns) \in Nat /\ Cardinality(DOMAIN m_mmap) \in Nat
    BY <1>1, <1>2, FS_CardinalityType
  <1> QED  BY <1>2, <1>3, <1>4 DEF Turns

\* What String makes of an object's map.
LEMMA RenewedTurns ==
  ASSUME ColumnInv, type = "enum", NEW o \in Obj \ unnamed
  PROVE  Turns(Renewed(o), DOMAIN m_mmap)
  <1>1. PICK ns \in SUBSET DOMAIN m_mmap : Turns(m_vmap[o], ns)
    BY DEF ColumnInv, Turned
  <1>2. Turns(TurnedOver, DOMAIN m_mmap)
    BY WholeMapTurned DEF ColumnInv
  <1>3. CASE Cardinality(DOMAIN m_vmap[o]) = Cardinality(DOMAIN m_mmap)
    BY <1>1, <1>3, AsLarge DEF ColumnInv, Renewed
  <1>4. CASE Cardinality(DOMAIN m_vmap[o]) # Cardinality(DOMAIN m_mmap)
    <2>1. DOMAIN m_vmap[o] \subseteq DOMAIN TurnedOver
      BY <1>1, <1>2 DEF Turns
    <2>2. /\ DOMAIN Renewed(o) = DOMAIN TurnedOver
          /\ \A v \in DOMAIN TurnedOver : Renewed(o)[v] = TurnedOver[v]
      BY <1>4, <2>1 DEF Renewed
    <2> QED  BY <1>2, <2>2 DEF Turns
  <1> QED  BY <1>3, <1>4

-----------------------------------------------------------------------------
LEMMA SetSaid == ColumnInv => SetKept
  <1> SUFFICES ASSUME ColumnInv, type = "set", NEW o \in Obj
               PROVE  /\ SetString(o) = members[o]
                      /\ {n \in ColumnNames : InSetOf(o, n)} = members[o]
    BY DEF SetKept
  <1>1. m_value[o] = UNION {Defined[n] : n \in members[o]} /\ members[o] \subseteq DOMAIN Defined
    BY DEF ColumnInv, Given
  <1>2. ASSUME NEW n \in DOMAIN m_mmap, m_value[o] \cap m_mmap[n] # {}
        PROVE  n \in members[o]
    <2>1. n \in DOMAIN Defined /\ m_mmap[n] = Defined[n]
      BY <1>2 DEF ColumnInv, Mapped
    <2>2. PICK m \in members[o] : Defined[m] \cap Defined[n] # {}
      BY <1>1, <1>2, <2>1
    <2> QED  BY <1>1, <2>1, <2>2, Apart
  <1>3. ASSUME NEW n \in members[o]
        PROVE  n \in DOMAIN m_mmap /\ m_value[o] \cap m_mmap[n] # {}
    <2>1. n \in DOMAIN m_mmap /\ m_mmap[n] = Defined[n] /\ n \in DOMAIN Defined
      BY <1>1 DEF ColumnInv, Given
    <2>2. Defined[n] # {} /\ Defined[n] \subseteq m_value[o]
      BY <1>1, <2>1, DefinedNames
    <2> QED  BY <2>1, <2>2
  <1>4. SetString(o) = members[o]
    BY <1>2, <1>3 DEF SetString
  <1>5. DOMAIN m_mmap \subseteq ColumnNames
    BY DEF ColumnInv, Mapped
  <1>6. \A n \in ColumnNames : InSetOf(o, n) <=> n \in members[o]
    BY <1>2, <1>3, <1>5 DEF InSetOf, At
  <1> QED  BY <1>3, <1>4, <1>5, <1>6

LEMMA EnumSaid == ColumnInv => EnumKept
  <1> SUFFICES ASSUME ColumnInv, type = "enum", NEW o \in Obj \ unnamed, NEW n \in members[o]
               PROVE  EnumString(o) = n
    BY DEF EnumKept
  <1>1. /\ m_value[o] = Defined[n] /\ n \in DOMAIN Defined
        /\ n \in DOMAIN m_mmap /\ m_mmap[n] = Defined[n]
    BY DEF ColumnInv, Given
  <1>2. Turns(Renewed(o), DOMAIN m_mmap)
    BY RenewedTurns
  <1>3. /\ m_value[o] \in DOMAIN Renewed(o)
        /\ Renewed(o)[m_value[o]] \in DOMAIN m_mmap
        /\ m_mmap[Renewed(o)[m_value[o]]] = m_value[o]
    BY <1>1, <1>2 DEF Turns
  <1>4. Renewed(o)[m_value[o]] = n
    BY <1>1, <1>3, NumberOf DEF ColumnInv
  <1> QED  BY <1>3, <1>4 DEF EnumString

-----------------------------------------------------------------------------
LEMMA ColumnInvInit == ColumnInit => ColumnInv
  <1> SUFFICES ASSUME ColumnInit PROVE ColumnInv
    OBVIOUS
  <1>1. PICK ns \in SUBSET DOMAIN Defined : m_mmap = [n \in ns |-> Defined[n]]
    BY DEF ColumnInit
  <1>2. Mapped
    BY <1>1, DefinedNames DEF Mapped
  <1>3. Given
    BY DEF ColumnInit, Given, Numbers
  <1>4. Turned
    <2> SUFFICES ASSUME type = "enum", NEW o \in Obj
                 PROVE  Turns(m_vmap[o], DOMAIN m_mmap)
      BY DEF Turned
    <2>1. m_vmap[o] = TurnedOver
      BY DEF ColumnInit
    <2> QED  BY <1>2, <2>1, WholeMapTurned
  <1> QED  BY <1>2, <1>3, <1>4 DEF ColumnInv

\* The shared map only gains entries.
Grows ==
    /\ DOMAIN m_mmap \subseteq DOMAIN m_mmap'
    /\ \A n \in DOMAIN m_mmap : m_mmap'[n] = m_mmap[n]

LEMMA Touched ==
  ASSUME Mapped, NEW ns \in SUBSET ColumnNames, Touch(ns), type' = type
  PROVE  Mapped' /\ Grows /\ (\A n \in ns : n \in DOMAIN m_mmap' /\ m_mmap'[n] = At(n))
  BY DefinedStays DEF Mapped, Touch, At, Grows, Numbers

LEMMA DefinedNow ==
  ASSUME Mapped, NEW n \in DOMAIN Defined, Define(n)
  PROVE  Mapped' /\ Grows
  BY DefinedNames, DefinedStays DEF Mapped, Define, Grows

\* What was true of an object that a step leaves alone stays true.
LEMMA TurnedStays ==
  ASSUME ColumnInv, Grows, UNCHANGED <<type, m_vmap, unnamed>>
  PROVE  Turned'
  <1> SUFFICES ASSUME type = "enum", NEW o \in Obj \ unnamed
               PROVE  \E ns \in SUBSET DOMAIN m_mmap' : Turns(m_vmap[o], ns)'
    BY DEF Turned
  <1>1. PICK ns \in SUBSET DOMAIN m_mmap : Turns(m_vmap[o], ns)
    BY DEF ColumnInv, Turned
  <1>2. /\ ns \in SUBSET DOMAIN m_mmap'
        /\ {m_mmap'[n] : n \in ns} = {m_mmap[n] : n \in ns}
    BY <1>1 DEF Grows
  <1>3. Turns(m_vmap[o], ns)'
    BY <1>1, <1>2 DEF Turns, Grows
  <1> QED  BY <1>2, <1>3

\* An object's names and number, when it gets the names ms.
LEMMA GivenStays ==
  ASSUME ColumnInv, Mapped', Grows, UNCHANGED <<type, m_vmap>>,
         NEW o \in Obj, NEW v \in Numbers, NEW ms \in SUBSET DOMAIN Defined,
         Becomes(o, v), Has(o, ms),
         \A n \in ms : n \in DOMAIN m_mmap' /\ m_mmap'[n] = Defined[n],
         type = "set" => v = UNION {Defined[n] : n \in ms},
         type = "enum" => \A n \in ms : v = Defined[n]
  PROVE  Given'
  <1>1. /\ m_value' \in [Obj -> Numbers] /\ members' \in [Obj -> SUBSET DOMAIN Defined]
        /\ m_value'[o] = v /\ members'[o] = ms
        /\ \A p \in Obj \ {o} : m_value'[p] = m_value[p] /\ members'[p] = members[p]
    BY DEF ColumnInv, Given, Becomes, Has
  <1>2. \A p \in Obj : \A n \in members'[p] : n \in DOMAIN m_mmap' /\ m_mmap'[n] = Defined[n]
    BY <1>1 DEF ColumnInv, Given, Grows
  <1>3. type' = "set" => \A p \in Obj : m_value'[p] = UNION {Defined[n] : n \in members'[p]}
    BY <1>1 DEF ColumnInv, Given
  <1>4. type' = "enum" => \A p \in Obj : \A n \in members'[p] : m_value'[p] = Defined[n]
    BY <1>1 DEF ColumnInv, Given
  <1> QED  BY <1>1, <1>2, <1>3, <1>4, DefinedStays DEF Given, ColumnInv

\* A text's number is that of its defined names.
LEMMA MaskKnown ==
  ASSUME Mapped, NEW ns \in SUBSET ColumnNames
  PROVE  /\ Known(ns) \subseteq DOMAIN Defined /\ Known(ns) \subseteq DOMAIN m_mmap
         /\ \A n \in Known(ns) : m_mmap[n] = Defined[n] /\ At(n) = Defined[n]
         /\ Mask(ns) = UNION {Defined[n] : n \in Known(ns)}
         /\ Mask(ns) \in Numbers
  <1>1. \A n \in ColumnNames : At(n) # {} =>
            n \in DOMAIN m_mmap /\ n \in DOMAIN Defined /\ m_mmap[n] = Defined[n]
    BY DEF Mapped, At
  <1>2. \A n \in ColumnNames : At(n) \in Numbers
    BY DEF Mapped, At, Numbers
  <1>3. \A n \in Known(ns) : At(n) = Defined[n] /\ n \in DOMAIN m_mmap /\ n \in DOMAIN Defined
    BY <1>1 DEF Known, At
  <1>4. Mask(ns) \in Numbers
    BY <1>2 DEF Mask, Numbers
  <1>5. Mask(ns) = UNION {Defined[n] : n \in Known(ns)}
    BY <1>3 DEF Mask, Known
  <1> QED  BY <1>1, <1>3, <1>4, <1>5 DEF Known

\* Sets of names and their bits.
Of(ns) == UNION {Defined[n] : n \in ns}

LEMMA Parts ==
  ASSUME type = "set", NEW as \in SUBSET DOMAIN Defined, NEW bs \in SUBSET DOMAIN Defined
  PROVE  /\ Of(as) \ Of(bs) = Of(as \ bs)
         /\ Of(as) \cup Of(bs) = Of(as \cup bs)
         /\ Of(as) \cap Of(bs) = Of(as \cap bs)
  <1>1. \A ns \in SUBSET DOMAIN Defined : \A b : b \in Of(ns) <=> \E n \in ns : b \in Defined[n]
    BY DEF Of
  <1>2. \A m, n \in DOMAIN Defined : \A b : b \in Defined[m] /\ b \in Defined[n] => m = n
    BY Apart
  <1>3. /\ as \ bs \in SUBSET DOMAIN Defined /\ as \cup bs \in SUBSET DOMAIN Defined
        /\ as \cap bs \in SUBSET DOMAIN Defined
    OBVIOUS
  <1>4. Of(as) \ Of(bs) = Of(as \ bs)
    <2>1. ASSUME NEW b, b \in Of(as), b \notin Of(bs) PROVE b \in Of(as \ bs)
      BY <1>1, <1>3, <2>1
    <2>2. ASSUME NEW b, b \in Of(as \ bs) PROVE b \in Of(as) /\ b \notin Of(bs)
      <3>1. PICK m \in as \ bs : b \in Defined[m]
        BY <1>1, <1>3, <2>2
      <3>2. ASSUME b \in Of(bs) PROVE FALSE
        <4>1. PICK n \in bs : b \in Defined[n]
          BY <1>1, <3>2
        <4> QED  BY <1>2, <3>1, <4>1
      <3> QED  BY <1>1, <3>1, <3>2
    <2> QED  BY <2>1, <2>2
  <1>5. Of(as) \cup Of(bs) = Of(as \cup bs)
    BY <1>1, <1>3
  <1>6. Of(as) \cap Of(bs) = Of(as \cap bs)
    <2>1. ASSUME NEW b, b \in Of(as), b \in Of(bs) PROVE b \in Of(as \cap bs)
      <3>1. PICK m \in as : b \in Defined[m]
        BY <1>1, <2>1
      <3>2. PICK n \in bs : b \in Defined[n]
        BY <1>1, <2>1
      <3>3. m \in as \cap bs
        BY <1>2, <3>1, <3>2
      <3> QED  BY <1>1, <1>3, <3>1, <3>3
    <2>2. ASSUME NEW b, b \in Of(as \cap bs) PROVE b \in Of(as) /\ b \in Of(bs)
      BY <1>1, <1>3, <2>2
    <2> QED  BY <2>1, <2>2
  <1> QED  BY <1>4, <1>5, <1>6

-----------------------------------------------------------------------------
LEMMA SetTextStep ==
  ASSUME ColumnInv, NEW o \in Obj, NEW ns \in SUBSET ColumnNames, SetText(o, ns)
  PROVE  ColumnInv'
  <1> DEFINE ms == Known(ns)
             old == members[o]
  <1>1. /\ type = "set" /\ UNCHANGED <<type, m_vmap, unnamed>> /\ Mapped' /\ Grows
        /\ \A n \in ns : n \in DOMAIN m_mmap' /\ m_mmap'[n] = At(n)
    BY Touched DEF SetText, ColumnInv
  <1>2. /\ ms \subseteq ns /\ ms \in SUBSET DOMAIN Defined
        /\ \A n \in ms : At(n) = Defined[n]
        /\ Mask(ns) = Of(ms)
    BY MaskKnown DEF ColumnInv, Of, Known
  <1>3. /\ m_value[o] = Of(old) /\ old \in SUBSET DOMAIN Defined
        /\ \A n \in old : n \in DOMAIN m_mmap' /\ m_mmap'[n] = Defined[n]
    BY <1>1 DEF ColumnInv, Given, Of, Grows
  <1>4. \E v, ks : /\ Becomes(o, v) /\ Has(o, ks) /\ ks \subseteq old \cup ms /\ v = Of(ks)
    <2>1. CASE Assign(o, ns) /\ Has(o, ms)
      BY <1>2, <2>1 DEF Assign
    <2>2. CASE Becomes(o, m_value[o] \cup Mask(ns)) /\ Has(o, old \cup ms)
      <3>0. Of(old) \cup Of(ms) = Of(old \cup ms)
        <4>1. old \in SUBSET DOMAIN Defined /\ ms \in SUBSET DOMAIN Defined
          BY <1>2, <1>3
        <4> HIDE DEF old, ms
        <4> QED  BY <1>1, <4>1, Parts
      <3>1. m_value[o] \cup Mask(ns) = Of(old \cup ms)
        BY <1>2, <1>3, <3>0
      <3>2. old \cup ms \subseteq old \cup ms
        OBVIOUS
      <3> QED  BY <2>2, <3>1, <3>2
    <2>3. CASE Becomes(o, m_value[o] \ Mask(ns)) /\ Has(o, old \ ms)
      <3>0. Of(old) \ Of(ms) = Of(old \ ms)
        <4>1. old \in SUBSET DOMAIN Defined /\ ms \in SUBSET DOMAIN Defined
          BY <1>2, <1>3
        <4> HIDE DEF old, ms
        <4> QED  BY <1>1, <4>1, Parts
      <3>1. m_value[o] \ Mask(ns) = Of(old \ ms)
        BY <1>2, <1>3, <3>0
      <3>2. old \ ms \subseteq old \cup ms
        OBVIOUS
      <3> QED  BY <2>3, <3>1, <3>2
    <2> QED  BY <2>1, <2>2, <2>3 DEF SetText
  <1>5. PICK v, ks : /\ Becomes(o, v) /\ Has(o, ks) /\ ks \subseteq old \cup ms /\ v = Of(ks)
    BY <1>4
  <1>6. ks \in SUBSET DOMAIN Defined /\ v \in Numbers
    BY <1>2, <1>3, <1>5, DefinedNames DEF Of, Numbers
  <1>7. \A n \in ks : n \in DOMAIN m_mmap' /\ m_mmap'[n] = Defined[n]
    BY <1>1, <1>2, <1>3, <1>5
  <1>8. Given'
    BY <1>1, <1>5, <1>6, <1>7, GivenStays DEF Of
  <1> QED  BY <1>1, <1>8, TurnedStays DEF ColumnInv

LEMMA SetNumberStep ==
  ASSUME ColumnInv, NEW o \in Obj, NEW ns \in SUBSET ColumnNames, SetNumber(o, ns)
  PROVE  ColumnInv'
  <1> DEFINE old == members[o]
  <1>1. /\ type = "set" /\ UNCHANGED <<type, m_mmap, m_vmap, unnamed>> /\ Mapped' /\ Grows
        /\ ns \subseteq Known(ColumnNames)
    BY DefinedStays DEF SetNumber, ColumnInv, Mapped, Grows
  <1>2. /\ Known(ns) = ns /\ ns \in SUBSET DOMAIN Defined /\ Mask(ns) = Of(ns)
        /\ \A n \in ns : n \in DOMAIN m_mmap /\ m_mmap[n] = Defined[n]
    <2>1. Known(ns) = ns
      BY <1>1 DEF Known
    <2> QED  BY <2>1, MaskKnown DEF ColumnInv, Of
  <1>3. /\ m_value[o] = Of(old) /\ old \in SUBSET DOMAIN Defined
        /\ \A n \in old : n \in DOMAIN m_mmap /\ m_mmap[n] = Defined[n]
    BY <1>1 DEF ColumnInv, Given, Of
  <1>4. \E v, ks : /\ Becomes(o, v) /\ Has(o, ks) /\ ks \subseteq old \cup ns /\ v = Of(ks)
    <2>1. CASE Becomes(o, Mask(ns)) /\ Has(o, ns)
      BY <1>2, <2>1
    <2>2. CASE Becomes(o, m_value[o] \cup Mask(ns)) /\ Has(o, old \cup ns)
      <3>0. Of(old) \cup Of(ns) = Of(old \cup ns)
        <4>1. old \in SUBSET DOMAIN Defined /\ ns \in SUBSET DOMAIN Defined
          BY <1>2, <1>3
        <4> HIDE DEF old
        <4> QED  BY <1>1, <4>1, Parts
      <3>1. m_value[o] \cup Mask(ns) = Of(old \cup ns)
        BY <1>2, <1>3, <3>0
      <3>2. old \cup ns \subseteq old \cup ns
        OBVIOUS
      <3> QED  BY <2>2, <3>1, <3>2
    <2>3. CASE Becomes(o, m_value[o] \cap Mask(ns)) /\ Has(o, old \cap ns)
      <3>0. Of(old) \cap Of(ns) = Of(old \cap ns)
        <4>1. old \in SUBSET DOMAIN Defined /\ ns \in SUBSET DOMAIN Defined
          BY <1>2, <1>3
        <4> HIDE DEF old
        <4> QED  BY <1>1, <4>1, Parts
      <3>1. m_value[o] \cap Mask(ns) = Of(old \cap ns)
        BY <1>2, <1>3, <3>0
      <3>2. old \cap ns \subseteq old \cup ns
        OBVIOUS
      <3> QED  BY <2>3, <3>1, <3>2
    <2> QED  BY <2>1, <2>2, <2>3 DEF SetNumber
  <1>5. PICK v, ks : /\ Becomes(o, v) /\ Has(o, ks) /\ ks \subseteq old \cup ns /\ v = Of(ks)
    BY <1>4
  <1>6. ks \in SUBSET DOMAIN Defined /\ v \in Numbers
    BY <1>2, <1>3, <1>5, DefinedNames DEF Of, Numbers
  <1>7. \A n \in ks : n \in DOMAIN m_mmap' /\ m_mmap'[n] = Defined[n]
    BY <1>1, <1>2, <1>3, <1>5
  <1>8. Given'
    BY <1>1, <1>5, <1>6, <1>7, GivenStays DEF Of
  <1> QED  BY <1>1, <1>8, TurnedStays DEF ColumnInv

LEMMA EnumNameStep ==
  ASSUME ColumnInv, NEW o \in Obj, NEW n \in ColumnNames, EnumName(o, n)
  PROVE  ColumnInv'
  <1>1. /\ type = "enum" /\ UNCHANGED <<type, m_vmap, unnamed>> /\ Mapped' /\ Grows
        /\ n \in DOMAIN m_mmap' /\ m_mmap'[n] = At(n)
        /\ Becomes(o, At(n)) /\ Has(o, Known({n}))
    BY Touched DEF EnumName, ColumnInv
  <1>2. /\ Known({n}) \in SUBSET DOMAIN Defined /\ Known({n}) \subseteq {n}
        /\ \A k \in Known({n}) : At(k) = Defined[k]
    BY MaskKnown DEF ColumnInv, Known
  <1>3. At(n) \in Numbers
    BY DEF At, ColumnInv, Mapped, Numbers
  <1>4. Given'
    BY <1>1, <1>2, <1>3, GivenStays
  <1> QED  BY <1>1, <1>4, TurnedStays DEF ColumnInv

LEMMA EnumNumberStep ==
  ASSUME ColumnInv, NEW o \in Obj, NEW v \in Numbers, EnumNumber(o, v)
  PROVE  ColumnInv'
  <1> DEFINE ms == {n \in Known(ColumnNames) : At(n) = v}
  <1>1. /\ type = "enum" /\ UNCHANGED <<type, m_mmap, m_vmap, unnamed>> /\ Mapped' /\ Grows
        /\ Becomes(o, v) /\ Has(o, ms)
    BY DefinedStays DEF EnumNumber, ColumnInv, Mapped, Grows
  <1>2. /\ ms \in SUBSET DOMAIN Defined
        /\ \A n \in ms : n \in DOMAIN m_mmap' /\ m_mmap'[n] = Defined[n] /\ v = Defined[n]
    BY <1>1, MaskKnown DEF ColumnInv
  <1>3. Given'
    BY <1>1, <1>2, GivenStays
  <1> QED  BY <1>1, <1>3, TurnedStays DEF ColumnInv

LEMMA StringStep ==
  ASSUME ColumnInv, NEW o \in Obj, String(o)
  PROVE  ColumnInv'
  <1>1. type = "enum" /\ UNCHANGED <<type, m_mmap, m_value, members>> /\ DOMAIN m_vmap' = Obj
    BY DEF String, ColumnInv, Given
  <1>2. Mapped' /\ Given'
    BY <1>1, DefinedStays DEF ColumnInv, Mapped, Given
  <1>3. Turned'
    <2> SUFFICES ASSUME NEW p \in Obj, p \notin unnamed'
                 PROVE  \E ns \in SUBSET DOMAIN m_mmap : Turns(m_vmap'[p], ns)
      BY <1>1 DEF Turned, Turns
    <2>1. p \notin unnamed
      BY DEF String
    <2>2. CASE p # o
      <3>1. m_vmap'[p] = m_vmap[p]
        BY <2>2 DEF String, ColumnInv, Given
      <3> QED  BY <1>1, <2>1, <3>1 DEF ColumnInv, Turned
    <2>3. CASE p = o
      <3>1. Turns(Renewed(o), DOMAIN m_mmap)
        BY <1>1, <2>1, <2>3, RenewedTurns
      <3>2. m_value[o] \in DOMAIN Renewed(o)
        BY <2>3 DEF String
      <3>3. m_vmap'[o] = [v \in DOMAIN Renewed(o) \cup {m_value[o]} |->
                             IF v = m_value[o] THEN EnumString(o) ELSE Renewed(o)[v]]
        BY DEF String, ColumnInv, Given
      <3>4. /\ DOMAIN m_vmap'[o] = DOMAIN Renewed(o)
            /\ \A v \in DOMAIN Renewed(o) : m_vmap'[o][v] = Renewed(o)[v]
        BY <3>2, <3>3 DEF EnumString
      <3>5. Turns(m_vmap'[o], DOMAIN m_mmap)
        BY <3>1, <3>4 DEF Turns
      <3> QED  BY <2>3, <3>5
    <2> QED  BY <2>2, <2>3
  <1> QED  BY <1>2, <1>3 DEF ColumnInv

LEMMA ColumnInvStep == ColumnInv /\ [ColumnNext]_columnVars => ColumnInv'
  <1> SUFFICES ASSUME ColumnInv, [ColumnNext]_columnVars PROVE ColumnInv'
    OBVIOUS
  <1>1. CASE UNCHANGED columnVars
    BY <1>1, DefinedStays DEF columnVars, ColumnInv, Mapped, Given, Turned, Turns
  <1>2. ASSUME Mapped', Grows, UNCHANGED <<type, m_value, m_vmap, members, unnamed>>
        PROVE  ColumnInv'
    <2>1. Given'
      BY <1>2, DefinedStays DEF ColumnInv, Given, Grows
    <2> QED  BY <1>2, <2>1, TurnedStays DEF ColumnInv
  <1>3. ASSUME NEW n \in DOMAIN Defined, Define(n) PROVE ColumnInv'
    BY <1>2, <1>3, DefinedNow DEF Define, ColumnInv
  <1>4. ASSUME NEW n \in ColumnNames, InSet(n) PROVE ColumnInv'
    BY <1>2, <1>4, Touched DEF InSet, ColumnInv
  <1> QED  BY <1>1, <1>3, <1>4, SetTextStep, SetNumberStep, EnumNameStep, EnumNumberStep,
              StringStep DEF ColumnNext

\* What objects and the shared map have of one another, whatever other objects do.
THEOREM ColumnsInvariant == ColumnSpec => []ColumnInv
  BY ColumnInvInit, ColumnInvStep, PTL DEF ColumnSpec

\* A SET has the names it was given (set_t.cpp:32-135).
THEOREM SetsKept == ColumnSpec => []SetKept
  BY ColumnsInvariant, SetSaid, PTL

\* An ENUM, whose names have any numbers but 0, each its own, says the name it was
\* given unless it was asked for that of a number without one (enum_t.cpp:27-63).
THEOREM EnumsKept == ColumnSpec => []EnumKept
  BY ColumnsInvariant, EnumSaid, PTL
=============================================================================
