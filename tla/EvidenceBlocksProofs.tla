------------------------ MODULE EvidenceBlocksProofs -------------------------
(***************************************************************************)
(* Proofs about EvidenceBlocks for every document, every sequence of kinds *)
(* and sections of its elements and every setting of the limits: no word   *)
(* of the body is lost, repeated or moved, and the limits are kept.        *)
(*                                                                         *)
(* The loops of the code are recursive functions here.  Each has a lemma   *)
(* that it is defined, by induction on the number of its turns, and one on *)
(* what its last turn adds.                                                *)
(***************************************************************************)
EXTENDS EvidenceBlocks, OrderedProofs, SequenceTheorems

(***************************************************************************)
(* Two functions that start alike and go on alike are alike.               *)
(***************************************************************************)
LEMMA LoopsAgree ==
  ASSUME NEW N \in Nat, NEW f, NEW g, f[0] = g[0],
         \A n \in 1..N : f[n - 1] = g[n - 1] => f[n] = g[n]
  PROVE  \A n \in 0..N : f[n] = g[n]
<1> DEFINE S == {n \in Nat : n <= N => f[n] = g[n]}
<1>1. 0 \in S
  OBVIOUS
<1>2. ASSUME NEW n \in Nat, n \in S PROVE n + 1 \in S
  <2>1. CASE n + 1 <= N
    <3>1. n + 1 \in 1..N /\ (n + 1) - 1 = n /\ n <= N
      BY <2>1
    <3>2. f[n] = g[n]
      BY <1>2, <3>1
    <3>3. f[n + 1] = g[n + 1]
      BY <3>1, <3>2
    <3>4. QED
      BY <3>3
  <2>2. QED
    BY <2>1
<1> HIDE DEF S
<1>3. \A n \in Nat : n \in S
  BY <1>1, <1>2, InductionOnSet
<1>4. QED
  BY <1>3 DEF S

-----------------------------------------------------------------------------
(***************************************************************************)
(* Sums of sequences of numbers.                                           *)
(***************************************************************************)
Sums(numbers, N, f) ==
    f = [n \in 0..N |-> IF n = 0 THEN 0 ELSE f[n - 1] + numbers[n]]

\* The recursion of Total is defined.
LEMMA SumsExist == ASSUME NEW numbers, NEW N \in Nat PROVE \E f : Sums(numbers, N, f)
<1> DEFINE S == {n \in Nat : \E f : Sums(numbers, n, f)}
<1>1. 0 \in S
  <2>1. Sums(numbers, 0, [n \in 0..0 |-> 0])
    BY DEF Sums
  <2>2. QED
    BY <2>1
<1>2. ASSUME NEW n \in Nat, n \in S PROVE n + 1 \in S
  <2>1. PICK f : Sums(numbers, n, f)
    BY <1>2
  <2> DEFINE g == [i \in 0..(n + 1) |-> IF i = n + 1 THEN f[n] + numbers[i] ELSE f[i]]
  <2>2. ASSUME NEW i \in 0..(n + 1)
        PROVE  g[i] = IF i = 0 THEN 0 ELSE g[i - 1] + numbers[i]
    <3>1. i # 0 => i - 1 \in 0..n /\ g[i - 1] = f[i - 1]
      OBVIOUS
    <3>2. i # n + 1 => f[i] = IF i = 0 THEN 0 ELSE f[i - 1] + numbers[i]
      BY <2>1 DEF Sums
    <3>3. QED
      BY <3>1, <3>2
  <2>3. Sums(numbers, n + 1, g)
    BY <2>2 DEF Sums
  <2>4. QED
    BY <2>3
<1> HIDE DEF S
<1>3. \A n \in Nat : n \in S
  BY <1>1, <1>2, InductionOnSet
<1>4. QED
  BY <1>3 DEF S

\* Each turn adds a number to what there was.
LEMMA SumsGo ==
  ASSUME NEW N \in Nat, NEW numbers, NEW f, Sums(numbers, N, f)
  PROVE  f[0] = 0 /\ \A n \in 1..N : f[n] = f[n - 1] + numbers[n]
BY DEF Sums

\* Nothing adds up to zero.
LEMMA TotalOfNone == Total(<<>>) = 0
<1>1. PICK f : Sums(<<>>, 0, f)
  BY SumsExist
<1>2. \A g : Sums(<<>>, 0, g) => g[0] = 0
  BY DEF Sums
<1>3. QED
  BY <1>1, <1>2 DEF Total, Sums

\* Total is the last value of the recursion.
LEMMA TotalIs ==
  ASSUME NEW numbers, Len(numbers) \in Nat
  PROVE  \E f : Sums(numbers, Len(numbers), f) /\ Total(numbers) = f[Len(numbers)]
<1> DEFINE f == CHOOSE f : Sums(numbers, Len(numbers), f)
<1>1. Sums(numbers, Len(numbers), f)
  BY SumsExist
<1>2. Total(numbers) = f[Len(numbers)]
  BY DEF Total, Sums
<1>3. QED
  BY <1>1, <1>2

\* A sequence that goes on as another does has that one's sum before its last.
LEMMA SumsGoOn ==
  ASSUME NEW N \in Nat, NEW numbers, NEW more, NEW f, NEW g,
         \A n \in 1..N : more[n] = numbers[n], Sums(numbers, N, f), Sums(more, N + 1, g)
  PROVE  g[N + 1] = f[N] + more[N + 1]
<1>1. f[0] = 0 /\ \A n \in 1..N : f[n] = f[n - 1] + numbers[n]
  BY SumsGo
<1>2. g[0] = 0 /\ \A n \in 1..(N + 1) : g[n] = g[n - 1] + more[n]
  <2>1. N + 1 \in Nat
    OBVIOUS
  <2>2. QED
    BY <2>1, SumsGo
<1>3. \A n \in 1..N : f[n - 1] = g[n - 1] => f[n] = g[n]
  BY <1>1, <1>2
<1>4. \A n \in 0..N : f[n] = g[n]
  BY <1>1, <1>2, <1>3, LoopsAgree
<1>5. QED
  BY <1>2, <1>4

\* A number more is added to the sum.
LEMMA TotalOfMore ==
  ASSUME NEW numbers \in Seq(Nat), NEW x \in Nat
  PROVE  Total(Append(numbers, x)) = Total(numbers) + x
<1>1. PICK N, more : N = Len(numbers) /\ more = Append(numbers, x)
  OBVIOUS
<1>2. /\ N \in Nat /\ Len(numbers) = N /\ Len(more) = N + 1 /\ more[N + 1] = x
      /\ \A n \in 1..N : more[n] = numbers[n]
  BY <1>1
<1>3. PICK f : Sums(numbers, N, f) /\ Total(numbers) = f[N]
  BY <1>2, TotalIs
<1>4. PICK g : Sums(more, N + 1, g) /\ Total(more) = g[N + 1]
  BY <1>2, TotalIs
<1>5. g[N + 1] = f[N] + more[N + 1]
  <2>1. N \in Nat /\ \A n \in 1..N : more[n] = numbers[n]
    BY <1>2
  <2>2. Sums(numbers, N, f)
    BY <1>3
  <2>3. Sums(more, N + 1, g)
    BY <1>4
  <2>4. QED
    BY <2>1, <2>2, <2>3, SumsGoOn
<1>6. QED
  BY <1>1, <1>2, <1>3, <1>4, <1>5

\* It is a natural number.
LEMMA TotalType ==
  ASSUME NEW numbers \in Seq(Nat)
  PROVE  Total(numbers) \in Nat
<1>1. PICK N : N = Len(numbers) /\ N \in Nat /\ \A n \in 1..N : numbers[n] \in Nat
  OBVIOUS
<1>2. PICK f : Sums(numbers, N, f) /\ Total(numbers) = f[N]
  BY <1>1, TotalIs
<1>3. f[0] = 0 /\ \A n \in 1..N : f[n] = f[n - 1] + numbers[n]
  BY <1>1, <1>2, SumsGo, SMTT(30)
<1> DEFINE S == {n \in Nat : n <= N => f[n] \in Nat}
<1>4. 0 \in S
  BY <1>3
<1>5. ASSUME NEW n \in Nat, n \in S PROVE n + 1 \in S
  <2>1. CASE n + 1 <= N
    <3>1. n + 1 \in 1..N /\ (n + 1) - 1 = n /\ n <= N
      BY <1>1, <2>1
    <3>2. f[n] \in Nat /\ f[n + 1] = f[n] + numbers[n + 1] /\ numbers[n + 1] \in Nat
      BY <1>1, <1>3, <1>5, <3>1
    <3>3. QED
      BY <3>2
  <2>2. QED
    BY <2>1
<1> HIDE DEF S
<1>6. \A n \in Nat : n \in S
  BY <1>4, <1>5, InductionOnSet
<1>7. f[N] \in Nat
  BY <1>1, <1>6 DEF S
<1>8. QED
  BY <1>2, <1>7

-----------------------------------------------------------------------------
(***************************************************************************)
(* Texts, one after the other.                                             *)
(***************************************************************************)
Joins(seqs, N, f) ==
    f = [n \in 1..N |-> IF n = 1 THEN seqs[n] ELSE f[n - 1] \o seqs[n]]

Turn(seqs, f, n) == (n = 1 => f[n] = seqs[n]) /\ (n # 1 => f[n] = f[n - 1] \o seqs[n])

Begins(more, seqs, N) == \A n \in 1..N : more[n] = seqs[n]

\* The recursion of FlattenSeq is defined.
LEMMA JoinsExist == ASSUME NEW seqs, NEW N \in Nat PROVE \E f : Joins(seqs, N, f)
<1> DEFINE S == {n \in Nat : \E f : Joins(seqs, n, f)}
<1>1. 0 \in S
  <2>1. Joins(seqs, 0, [n \in 1..0 |-> 0])
    BY DEF Joins
  <2>2. QED
    BY <2>1
<1>2. ASSUME NEW n \in Nat, n \in S PROVE n + 1 \in S
  <2>1. PICK f : Joins(seqs, n, f)
    BY <1>2
  <2> DEFINE g == [i \in 1..(n + 1) |-> IF i = n + 1
                                        THEN IF n = 0 THEN seqs[1] ELSE f[n] \o seqs[n + 1]
                                        ELSE f[i]]
  <2>2. ASSUME NEW i \in 1..(n + 1)
        PROVE  g[i] = IF i = 1 THEN seqs[i] ELSE g[i - 1] \o seqs[i]
    <3>1. CASE i = n + 1
      BY <3>1
    <3>2. CASE i # n + 1
      <4>1. i \in 1..n /\ g[i] = f[i]
        BY <3>2
      <4>2. f[i] = IF i = 1 THEN seqs[i] ELSE f[i - 1] \o seqs[i]
        BY <2>1, <4>1 DEF Joins
      <4>3. i # 1 => g[i - 1] = f[i - 1]
        BY <4>1
      <4>4. QED
        BY <4>1, <4>2, <4>3
    <3>3. QED
      BY <3>1, <3>2
  <2>3. Joins(seqs, n + 1, g)
    BY <2>2 DEF Joins
  <2>4. QED
    BY <2>3
<1> HIDE DEF S
<1>3. \A n \in Nat : n \in S
  BY <1>1, <1>2, InductionOnSet
<1>4. QED
  BY <1>3 DEF S

\* So that it is one of the functions it describes.
LEMMA FlattenIs ==
  ASSUME NEW seqs, Len(seqs) \in Nat, Len(seqs) # 0
  PROVE  \E f : Joins(seqs, Len(seqs), f) /\ FlattenSeq(seqs) = f[Len(seqs)]
<1> DEFINE f == CHOOSE f : Joins(seqs, Len(seqs), f)
<1>1. Joins(seqs, Len(seqs), f)
  BY JoinsExist
<1>2. FlattenSeq(seqs) = f[Len(seqs)]
  BY DEF FlattenSeq, Joins
<1>3. QED
  BY <1>1, <1>2

\* Each turn adds a text to what there was.
LEMMA JoinsGo ==
  ASSUME NEW N \in Nat, NEW seqs, NEW f, NEW n \in 1..N, Joins(seqs, N, f)
  PROVE  Turn(seqs, f, n)
BY DEF Joins, Turn

\* No texts are an empty text.
LEMMA FlattenNone == FlattenSeq(<<>>) = <<>>
BY DEF FlattenSeq

\* One text is itself.
LEMMA FlattenOne == ASSUME NEW x PROVE FlattenSeq(<<x>>) = x
<1> DEFINE seqs == <<x>>
<1>1. Len(seqs) = 1 /\ seqs[1] = x
  OBVIOUS
<1> HIDE DEF seqs
<1>2. PICK f : Joins(seqs, 1, f) /\ FlattenSeq(seqs) = f[1]
  <2>1. Len(seqs) \in Nat /\ Len(seqs) # 0 /\ Len(seqs) = 1
    BY <1>1
  <2>2. QED
    BY <2>1, FlattenIs
<1>3. f[1] = seqs[1]
  <2>1. PICK N \in Nat : N = 1
    OBVIOUS
  <2>2. Joins(seqs, N, f) /\ 1 \in 1..N
    BY <1>2, <2>1
  <2>3. \A n \in 1..N : Turn(seqs, f, n)
    BY <2>2, JoinsGo
  <2>4. QED
    BY <2>2, <2>3 DEF Turn
<1>4. QED
  BY <1>1, <1>2, <1>3 DEF seqs

GoesOn(more, f, N, g, M) == g[M] = f[N] \o more[M]

\* The texts of a sequence that goes on as another does begin with that one's.
LEMMA JoinsGoOn ==
  ASSUME NEW N \in Nat, NEW M \in Nat, NEW seqs, NEW more, NEW f, NEW g,
         N # 0, M = N + 1, Begins(more, seqs, N), Joins(seqs, N, f), Joins(more, M, g)
  PROVE  GoesOn(more, f, N, g, M)
<1>1. f[1] = seqs[1] /\ \A n \in 2..N : f[n] = f[n - 1] \o seqs[n]
  <2>1. \A n \in 1..N : Turn(seqs, f, n)
    BY JoinsGo
  <2>2. 1 \in 1..N /\ \A n \in 2..N : n \in 1..N /\ n # 1
    OBVIOUS
  <2>3. QED
    BY <2>1, <2>2 DEF Turn
<1>2. g[1] = more[1] /\ \A n \in 2..M : g[n] = g[n - 1] \o more[n]
  <2>1. \A n \in 1..M : Turn(more, g, n)
    BY JoinsGo
  <2>2. 1 \in 1..M /\ \A n \in 2..M : n \in 1..M /\ n # 1
    OBVIOUS
  <2>3. QED
    BY <2>1, <2>2 DEF Turn
<1> DEFINE S == {n \in Nat : n + 1 <= N => f[n + 1] = g[n + 1]}
<1>3. 0 \in S
  <2>1. 1 \in 1..N /\ 0 + 1 = 1
    OBVIOUS
  <2>2. more[1] = seqs[1]
    BY <2>1 DEF Begins
  <2>3. f[0 + 1] = g[0 + 1]
    BY <1>1, <1>2, <2>1, <2>2
  <2>4. QED
    BY <2>3
<1>4. ASSUME NEW n \in Nat, n \in S PROVE n + 1 \in S
  <2>1. CASE (n + 1) + 1 <= N
    <3>1. (n + 1) + 1 \in 2..N /\ ((n + 1) + 1) - 1 = n + 1 /\ n + 1 <= N
          /\ (n + 1) + 1 \in 2..M /\ (n + 1) + 1 \in 1..N
      BY <2>1
    <3>2. f[n + 1] = g[n + 1]
      BY <1>4, <3>1
    <3>3. f[(n + 1) + 1] = f[n + 1] \o seqs[(n + 1) + 1]
      BY <1>1, <3>1
    <3>4. g[(n + 1) + 1] = g[n + 1] \o more[(n + 1) + 1]
      BY <1>2, <3>1
    <3>5. more[(n + 1) + 1] = seqs[(n + 1) + 1]
      BY <3>1 DEF Begins
    <3>6. f[(n + 1) + 1] = g[(n + 1) + 1]
      BY <3>2, <3>3, <3>4, <3>5, Zenon
    <3>7. QED
      BY <3>6
  <2>2. QED
    BY <2>1
<1> HIDE DEF S
<1>5. \A n \in Nat : n \in S
  BY <1>3, <1>4, InductionOnSet
<1>6. N - 1 \in Nat /\ (N - 1) + 1 = N /\ M \in 2..M /\ M - 1 = N
  OBVIOUS
<1>7. f[N] = g[N]
  BY <1>5, <1>6 DEF S
<1>8. g[M] = g[N] \o more[M]
  BY <1>2, <1>6
<1>9. QED
  BY <1>7, <1>8 DEF GoesOn

\* A text more comes last.
LEMMA FlattenAppend ==
  ASSUME NEW T, NEW seqs \in Seq(Seq(T)), NEW x \in Seq(T)
  PROVE  FlattenSeq(Append(seqs, x)) = FlattenSeq(seqs) \o x
<1>1. PICK N \in Nat : N = Len(seqs)
  OBVIOUS
<1>2. PICK M \in Nat : M = N + 1
  OBVIOUS
<1> DEFINE more == Append(seqs, x)
<1>3. /\ Len(more) = M /\ more[M] = x
      /\ \A n \in 1..N : more[n] = seqs[n]
  BY <1>1, <1>2
<1>4. N = 0 => seqs = <<>> /\ more = <<x>>
  <2>1. Append(<<>>, x) = <<x>>
    OBVIOUS
  <2>2. Len(seqs) = 0 => seqs = <<>>
    OBVIOUS
  <2>3. QED
    BY <1>1, <2>1, <2>2
<1> HIDE DEF more
<1>5. CASE N = 0
  <2>1. <<>> \o x = x
    OBVIOUS
  <2>2. FlattenSeq(more) = <<>> \o x /\ FlattenSeq(seqs) = <<>>
    BY <1>4, <1>5, <2>1, FlattenNone, FlattenOne
  <2>3. QED
    BY <2>2 DEF more
<1>6. CASE N # 0
  <2>1. PICK f : Joins(seqs, N, f) /\ FlattenSeq(seqs) = f[N]
    <3>1. Len(seqs) \in Nat /\ Len(seqs) # 0
      BY <1>1, <1>6
    <3>2. QED
      BY <1>1, <3>1, FlattenIs
  <2>2. PICK g : Joins(more, M, g) /\ FlattenSeq(more) = g[M]
    <3>1. Len(more) \in Nat /\ Len(more) # 0
      BY <1>2, <1>3
    <3>2. QED
      BY <1>3, <3>1, FlattenIs
  <2>3. GoesOn(more, f, N, g, M)
    <3>1. Begins(more, seqs, N)
      BY <1>3 DEF Begins
    <3>2. Joins(seqs, N, f)
      BY <2>1
    <3>3. Joins(more, M, g)
      BY <2>2
    <3>4. QED
      BY <1>2, <1>6, <3>1, <3>2, <3>3, JoinsGoOn
  <2>4. FlattenSeq(more) = FlattenSeq(seqs) \o x
    BY <1>3, <2>1, <2>2, <2>3 DEF GoesOn
  <2>5. QED
    BY <2>4 DEF more
<1>7. QED
  BY <1>5, <1>6

\* A set of sequences that has the empty one, and with each one those that are
\* longer by one, has them all.
LEMMA InductionOnSeq ==
  ASSUME NEW T, NEW S, <<>> \in S, \A s \in Seq(T), x \in T : s \in S => Append(s, x) \in S
  PROVE  \A s \in Seq(T) : s \in S
<1> DEFINE Long == {n \in Nat : \A s \in Seq(T) : Len(s) = n => s \in S}
<1>1. 0 \in Long
  <2>1. \A s \in Seq(T) : Len(s) = 0 => s = <<>>
    OBVIOUS
  <2>2. QED
    BY <2>1
<1>2. ASSUME NEW n \in Nat, n \in Long PROVE n + 1 \in Long
  <2> SUFFICES ASSUME NEW s \in Seq(T), Len(s) = n + 1 PROVE s \in S
    OBVIOUS
  <2> DEFINE most == SubSeq(s, 1, n)
  <2>1. most \in Seq(T) /\ Len(most) = n /\ s[n + 1] \in T
    OBVIOUS
  <2>2. s = Append(most, s[n + 1])
    <3>1. /\ Append(most, s[n + 1]) \in Seq(T) /\ Len(Append(most, s[n + 1])) = n + 1
          /\ \A i \in 1..n : Append(most, s[n + 1])[i] = most[i]
          /\ Append(most, s[n + 1])[n + 1] = s[n + 1]
      BY <2>1, AppendProperties
    <3>2. \A i \in 1..n : most[i] = s[i]
      OBVIOUS
    <3>3. \A i \in 1..(n + 1) : i \in 1..n \/ i = n + 1
      OBVIOUS
    <3>4. \A i \in 1..Len(s) : s[i] = Append(most, s[n + 1])[i]
      BY <3>1, <3>2, <3>3
    <3>5. QED
      BY <3>1, <3>4, SeqEqual
  <2>3. most \in S
    BY <1>2, <2>1
  <2> HIDE DEF most
  <2>4. Append(most, s[n + 1]) \in S
    BY <2>1, <2>3
  <2>5. QED
    BY <2>2, <2>4
<1> HIDE DEF Long
<1>3. \A n \in Nat : n \in Long
  BY <1>1, <1>2, InductionOnSet
<1>4. QED
  BY <1>3 DEF Long

\* A sequence of texts is a text.
LEMMA FlattenType ==
  ASSUME NEW T, NEW seqs \in Seq(Seq(T)) PROVE FlattenSeq(seqs) \in Seq(T)
<1> DEFINE S == {s \in Seq(Seq(T)) : FlattenSeq(s) \in Seq(T)}
<1>1. <<>> \in S
  BY FlattenNone, EmptySeq
<1>2. ASSUME NEW s \in Seq(Seq(T)), NEW x \in Seq(T), s \in S PROVE Append(s, x) \in S
  <2>1. FlattenSeq(Append(s, x)) = FlattenSeq(s) \o x
    BY FlattenAppend
  <2>2. FlattenSeq(s) \o x \in Seq(T)
    BY <1>2, ConcatProperties
  <2>3. Append(s, x) \in Seq(Seq(T))
    BY AppendProperties
  <2>4. QED
    BY <2>1, <2>2, <2>3
<1> HIDE DEF S
<1>3. seqs \in S
  BY <1>1, <1>2, InductionOnSeq
<1>4. QED
  BY <1>3 DEF S

\* The texts of two sequences, one after the other.
LEMMA FlattenConcat ==
  ASSUME NEW T, NEW seqs \in Seq(Seq(T)), NEW more \in Seq(Seq(T))
  PROVE  FlattenSeq(seqs \o more) = FlattenSeq(seqs) \o FlattenSeq(more)
<1> DEFINE S == {s \in Seq(Seq(T)) : FlattenSeq(seqs \o s) = FlattenSeq(seqs) \o FlattenSeq(s)}
<1>1. <<>> \in S
  <2>1. seqs \o <<>> = seqs /\ FlattenSeq(seqs) \o <<>> = FlattenSeq(seqs)
    BY FlattenType, ConcatEmptySeq
  <2>2. QED
    BY <2>1, FlattenNone, EmptySeq
<1>2. ASSUME NEW s \in Seq(Seq(T)), NEW x \in Seq(T), s \in S PROVE Append(s, x) \in S
  <2>1. seqs \o Append(s, x) = Append(seqs \o s, x) /\ seqs \o s \in Seq(Seq(T))
    BY SMTT(30)
  <2>2. FlattenSeq(Append(seqs \o s, x)) = FlattenSeq(seqs \o s) \o x
    BY <2>1, FlattenAppend
  <2>3. FlattenSeq(Append(s, x)) = FlattenSeq(s) \o x
    BY FlattenAppend
  <2>4. FlattenSeq(seqs \o s) = FlattenSeq(seqs) \o FlattenSeq(s)
    BY <1>2
  <2>5. (FlattenSeq(seqs) \o FlattenSeq(s)) \o x = FlattenSeq(seqs) \o (FlattenSeq(s) \o x)
    <3>1. FlattenSeq(seqs) \in Seq(T) /\ FlattenSeq(s) \in Seq(T)
      BY FlattenType
    <3>2. x \in Seq(T)
      OBVIOUS
    <3>3. \A a, b, c \in Seq(T) : (a \o b) \o c = a \o (b \o c)
      BY ConcatAssociative, SMTT(30)
    <3>4. QED
      BY <3>1, <3>2, <3>3, Zenon
  <2>6. FlattenSeq(seqs \o Append(s, x)) = FlattenSeq(seqs) \o FlattenSeq(Append(s, x))
    BY <2>1, <2>2, <2>3, <2>4, <2>5, Zenon
  <2>7. Append(s, x) \in Seq(Seq(T))
    BY AppendProperties
  <2>8. QED
    BY <2>6, <2>7
<1> HIDE DEF S
<1>3. more \in S
  BY <1>1, <1>2, InductionOnSeq
<1>4. QED
  BY <1>3 DEF S

-----------------------------------------------------------------------------
(***************************************************************************)
(* Estimates, and the pieces that a text is cut into.                      *)
(***************************************************************************)

\* An estimate is a number, of a word at least one, that grows with the text;
\* of two texts together it is at most one more than of each.
LEMMA TokensSound ==
  ASSUME NEW n \in Nat, NEW k \in Nat
  PROVE  /\ Tokens(n) \in Nat
         /\ n # 0 => Tokens(n) # 0
         /\ n <= k => Tokens(n) <= Tokens(k)
         /\ Tokens(n + k) <= Tokens(n) + Tokens(k) + 1
BY DEF Tokens

\* A piece of as many words as the limit allows is within it.
LEMMA WordsInSound ==
  ASSUME NEW max \in Nat \ {0}
  PROVE  /\ WordsIn(max) \in Nat \ {0}
         /\ \A n \in Nat : n <= WordsIn(max) => Tokens(n) <= max
BY DEF WordsIn, Tokens

\* The last of the pieces of w words begins before the end of n words.
LEMMA PiecesCover ==
  ASSUME NEW n \in Nat, NEW w \in Nat \ {0}
  PROVE  LET last == (n + w - 1) \div w IN
         /\ last \in Nat
         /\ n <= last * w
         /\ \A i \in 1..last : (i - 1) * w < n
<1> DEFINE last == (n + w - 1) \div w
<1>1. last \in Nat /\ last * w <= n + w - 1 /\ n + w - 1 < last * w + w
  OBVIOUS
<1> HIDE DEF last
<1>2. n <= last * w
  BY <1>1
<1>3. ASSUME NEW i \in 1..last PROVE (i - 1) * w < n
  <2>1. (i - 1) * w <= (last - 1) * w
    BY <1>1
  <2>2. (last - 1) * w = last * w - w
    BY <1>1
  <2>3. QED
    BY <1>1, <2>1, <2>2
<1>4. QED
  BY <1>1, <1>2, <1>3 DEF last

\* The parts of a text, that ends the i-th time at c[i]: each goes on where the
\* one before ended, has a word at least and is within the limit.
Cuts(parts, text, c, max) ==
    /\ c[0] = 0 /\ c[Len(parts)] = Len(text)
    /\ \A i \in 0..Len(parts) : c[i] \in 0..Len(text)
    /\ \A i \in 1..Len(parts) :
            /\ c[i - 1] < c[i]
            /\ Tokens(c[i] - c[i - 1]) <= max
            /\ parts[i] = SubSeq(text, c[i - 1] + 1, c[i])

\* Pieces cuts a text.
LEMMA PiecesCut ==
  ASSUME NEW T, NEW text \in Seq(T), NEW max \in Nat \ {0}
  PROVE  Pieces(text, max) \in Seq(Seq(T)) /\ \E c : Cuts(Pieces(text, max), text, c, max)
<1>1. PICK n \in Nat : n = Len(text)
  OBVIOUS
<1>2. PICK w \in Nat \ {0} : w = WordsIn(max) /\ \A k \in Nat : k <= w => Tokens(k) <= max
  BY WordsInSound
<1>3. PICK last \in Nat : /\ last = (n + w - 1) \div w
                          /\ n <= last * w
                          /\ \A i \in 1..last : (i - 1) * w < n
  BY PiecesCover
<1> DEFINE parts == Pieces(text, max)
           c == [i \in 0..last |-> IF i * w < n THEN i * w ELSE n]
<1>4. ASSUME NEW i \in 1..last
      PROVE  /\ c[i - 1] = (i - 1) * w /\ i * w = (i - 1) * w + w
             /\ c[i] = IF i * w < n THEN i * w ELSE n
             /\ i * w \in Nat /\ (i - 1) * w \in Nat /\ (i - 1) * w < n
  <2>1. i - 1 \in 0..last /\ i \in 0..last
    OBVIOUS
  <2>2. (i - 1) * w < n
    BY <1>3
  <2>3. i * w = (i - 1) * w + w /\ i * w \in Nat /\ (i - 1) * w \in Nat
    OBVIOUS
  <2>4. QED
    BY <2>1, <2>2, <2>3
<1>5. parts = [i \in 1..last |-> SubSeq(text, (i - 1) * w + 1, IF i * w < n THEN i * w ELSE n)]
  BY <1>1, <1>2, <1>3 DEF Pieces
<1>6. c[0] = 0 /\ c[last] = n
  BY <1>3
<1>7. \A i \in 0..last : c[i] \in 0..n
  <2> SUFFICES ASSUME NEW i \in 0..last PROVE c[i] \in 0..n
    OBVIOUS
  <2>1. i * w \in Nat
    OBVIOUS
  <2>2. QED
    BY <2>1
<1> HIDE DEF parts, c
<1>8. ASSUME NEW i \in 1..last
      PROVE  /\ c[i - 1] < c[i] /\ Tokens(c[i] - c[i - 1]) <= max
             /\ parts[i] = SubSeq(text, c[i - 1] + 1, c[i])
  <2>1. c[i - 1] < c[i] /\ c[i] - c[i - 1] \in Nat /\ c[i] - c[i - 1] <= w
    <3>1. PICK p \in Nat, q \in Nat : p = (i - 1) * w /\ q = i * w /\ q = p + w /\ p < n
      BY <1>4
    <3>2. c[i - 1] = p /\ c[i] = IF q < n THEN q ELSE n
      BY <1>4, <3>1
    <3>3. QED
      BY <3>1, <3>2
  <2>2. parts[i] = SubSeq(text, c[i - 1] + 1, c[i])
    BY <1>4, <1>5
  <2>3. QED
    BY <1>2, <2>1, <2>2
<1>9. parts \in Seq(Seq(T)) /\ Len(parts) = last
  <2>1. \A i \in 1..last : parts[i] \in Seq(T)
    <3> SUFFICES ASSUME NEW i \in 1..last PROVE parts[i] \in Seq(T)
      OBVIOUS
    <3>1. parts[i] = SubSeq(text, c[i - 1] + 1, c[i])
      BY <1>8
    <3>2. PICK a \in 0..n, b \in 0..n : a = c[i - 1] /\ b = c[i]
      <4>1. i - 1 \in 0..last /\ i \in 0..last
        OBVIOUS
      <4>2. QED
        BY <1>7, <4>1
    <3>3. SubSeq(text, a + 1, b) \in Seq(T)
      <4>1. \A j \in (a + 1)..b : text[j] \in T
        BY <1>1, <3>2
      <4>2. a + 1 \in Int /\ b \in Int
        OBVIOUS
      <4>3. QED
        BY <4>1, <4>2, SubSeqProperties
    <3>4. QED
      BY <3>1, <3>2, <3>3, Zenon
  <2>2. parts \in [1..last -> Seq(T)]
    <3>1. parts = [i \in 1..last |-> parts[i]]
      BY <1>5
    <3>2. QED
      BY <2>1, <3>1
  <2>3. QED
    BY <2>2
<1>10. Cuts(parts, text, c, max)
  BY <1>1, <1>6, <1>7, <1>8, <1>9 DEF Cuts
<1>11. QED
  BY <1>9, <1>10 DEF parts

\* So does _split_oversized.
LEMMA SplitCuts ==
  ASSUME NEW T, NEW text \in Seq(T), text # <<>>
  PROVE  Split(text) \in Seq(Seq(T)) /\ \E c : Cuts(Split(text), text, c, BlockMax)
<1>1. BlockMax \in Nat \ {0}
  BY EvidenceAssumption
<1>2. CASE Tokens(Len(text)) <= BlockMax
  <2>1. PICK n \in Nat : n = Len(text) /\ n # 0
    OBVIOUS
  <2> DEFINE parts == <<text>>
             c == [i \in 0..1 |-> IF i = 0 THEN 0 ELSE n]
  <2>2. parts \in Seq(Seq(T)) /\ Len(parts) = 1 /\ parts[1] = text
    OBVIOUS
  <2>3. SubSeq(text, 0 + 1, n) = text
    BY <2>1, SubSeqFull
  <2>4. c[0] = 0 /\ c[1] = n /\ \A i \in 0..1 : c[i] \in 0..n
    BY <2>1
  <2> HIDE DEF parts, c
  <2>5. \A i \in 1..1 : i = 1 /\ i - 1 = 0
    OBVIOUS
  <2>6. n - 0 = n /\ 0 < n
    BY <2>1
  <2>7. Cuts(parts, text, c, BlockMax)
    BY <1>2, <2>1, <2>2, <2>3, <2>4, <2>5, <2>6 DEF Cuts
  <2>8. QED
    BY <1>2, <2>2, <2>7 DEF Split, parts
<1>3. CASE ~(Tokens(Len(text)) <= BlockMax)
  BY <1>1, <1>3, PiecesCut DEF Split
<1>4. QED
  BY <1>2, <1>3

CutAt(T, parts, text, c, max, n) ==
    /\ SubSeq(text, 1, c[n - 1]) \in Seq(T) /\ parts[n] \in Seq(T)
    /\ SubSeq(text, 1, c[n - 1]) \o parts[n] = SubSeq(text, 1, c[n])
    /\ parts[n] # <<>> /\ Len(parts[n]) = c[n] - c[n - 1] /\ Tokens(Len(parts[n])) <= max
    /\ \A i \in 1..Len(parts[n]) : parts[n][i] = text[c[n - 1] + i]

\* The parts of a text, up to one of them, are the text up to its end.
LEMMA CutsJoin ==
  ASSUME NEW T, NEW text \in Seq(T), NEW parts \in Seq(Seq(T)), NEW c, NEW max,
         Cuts(parts, text, c, max), NEW n \in 1..Len(parts)
  PROVE  CutAt(T, parts, text, c, max, n)
<1>1. PICK a \in Nat, b \in Nat : /\ a = c[n - 1] /\ b = c[n] /\ a < b /\ b <= Len(text)
                                 /\ Tokens(b - a) <= max
  <2>1. n - 1 \in 0..Len(parts) /\ n \in 0..Len(parts)
    OBVIOUS
  <2>2. c[n - 1] \in 0..Len(text) /\ c[n] \in 0..Len(text)
    BY <2>1 DEF Cuts
  <2>3. c[n - 1] < c[n] /\ Tokens(c[n] - c[n - 1]) <= max
    BY DEF Cuts
  <2>4. Len(text) \in Nat
    OBVIOUS
  <2>5. QED
    BY <2>2, <2>3, <2>4
<1>2. parts[n] = SubSeq(text, a + 1, b)
  <2>1. parts[n] = SubSeq(text, c[n - 1] + 1, c[n])
    BY DEF Cuts
  <2>2. QED
    BY <1>1, <2>1
<1> DEFINE part == SubSeq(text, a + 1, b)
<1>3. PICK m \in Nat : m = Len(text) /\ b <= m
  BY <1>1
<1>4. SubSeq(text, 1, a) \o part = SubSeq(text, 1, b)
  <2>1. 1 \in 1..(Len(text) + 1) /\ a \in (1 - 1)..Len(text) /\ b \in a..Len(text)
    BY <1>1, <1>3
  <2>2. QED
    BY <2>1, ConcatAdjacentSubSeq
<1>5. SubSeq(text, 1, a) \in Seq(T)
  <2>1. \A i \in 1..a : text[i] \in T
    BY <1>1, <1>3
  <2>2. QED
    BY <2>1, SubSeqProperties
<1>6. part \in Seq(T) /\ Len(part) = b - a /\ \A i \in 1..(b - a) : part[i] = text[a + i]
  <2>1. \A i \in (a + 1)..b : text[i] \in T
    BY <1>1, <1>3, SMTT(30)
  <2>2. PICK d \in Int : d = a + 1 /\ b \in Int
    BY <1>1
  <2>3. part = SubSeq(text, d, b)
    BY <2>2
  <2> HIDE DEF part
  <2>4. /\ part \in Seq(T) /\ Len(part) = (IF d <= b THEN b - d + 1 ELSE 0)
        /\ \A i \in 1..(b - d + 1) : part[i] = text[d + i - 1]
    BY <2>1, <2>2, <2>3, SubSeqProperties
  <2>5. b - d + 1 = b - a /\ d <= b /\ \A i \in 1..(b - a) : d + i - 1 = a + i
    <3>1. a < b /\ d = a + 1
      BY <1>1, <2>2
    <3>2. QED
      BY <3>1
  <2>6. QED
    BY <2>4, <2>5
<1> HIDE DEF part
<1>7. part # <<>>
  BY <1>1, <1>6, SMTT(30)
<1>8. parts[n] = part
  BY <1>2 DEF part
<1>9. QED
  BY <1>1, <1>4, <1>5, <1>6, <1>7, <1>8 DEF CutAt

\* All of them are the text.
LEMMA CutsFlatten ==
  ASSUME NEW T, NEW text \in Seq(T), NEW parts \in Seq(Seq(T)), NEW c, NEW max,
         Cuts(parts, text, c, max)
  PROVE  FlattenSeq(parts) = text
<1>1. PICK N \in Nat : N = Len(parts)
  OBVIOUS
<1> DEFINE S == {n \in Nat : n <= N => FlattenSeq(SubSeq(parts, 1, n)) = SubSeq(text, 1, c[n])}
<1>2. 0 \in S
  <2>1. SubSeq(parts, 1, 0) = <<>> /\ SubSeq(text, 1, 0) = <<>>
    BY SubSeqEmpty
  <2>2. c[0] = 0
    BY DEF Cuts
  <2>3. QED
    BY <2>1, <2>2, FlattenNone
<1>3. ASSUME NEW n \in Nat, n \in S PROVE n + 1 \in S
  <2>1. CASE n + 1 <= N
    <3>1. n + 1 \in 1..Len(parts) /\ (n + 1) - 1 = n /\ n <= N
      BY <1>1, <2>1
    <3>2. SubSeq(parts, 1, n + 1) = Append(SubSeq(parts, 1, n), parts[n + 1])
          /\ SubSeq(parts, 1, n) \in Seq(Seq(T))
      BY <3>1
    <3>3. SubSeq(text, 1, c[n]) \o parts[n + 1] = SubSeq(text, 1, c[n + 1])
          /\ parts[n + 1] \in Seq(T)
      <4>1. PICK k \in 1..Len(parts) : k = n + 1 /\ k - 1 = n
        BY <3>1
      <4>2. CutAt(T, parts, text, c, max, k)
        BY CutsJoin
      <4>3. QED
        BY <4>1, <4>2 DEF CutAt
    <3>4. FlattenSeq(Append(SubSeq(parts, 1, n), parts[n + 1]))
            = FlattenSeq(SubSeq(parts, 1, n)) \o parts[n + 1]
      BY <3>2, <3>3, FlattenAppend
    <3>5. FlattenSeq(SubSeq(parts, 1, n)) = SubSeq(text, 1, c[n])
      BY <1>3, <3>1
    <3>6. FlattenSeq(SubSeq(parts, 1, n + 1)) = SubSeq(text, 1, c[n + 1])
      BY <3>2, <3>3, <3>4, <3>5, Zenon
    <3>7. QED
      BY <3>6
  <2>2. QED
    BY <2>1
<1> HIDE DEF S
<1>4. \A n \in Nat : n \in S
  BY <1>2, <1>3, InductionOnSet
<1>5. FlattenSeq(SubSeq(parts, 1, N)) = SubSeq(text, 1, c[N])
  BY <1>4 DEF S
<1>6. SubSeq(parts, 1, N) = parts /\ c[N] = Len(text) /\ SubSeq(text, 1, Len(text)) = text
  BY <1>1, SubSeqFull DEF Cuts
<1>7. QED
  BY <1>5, <1>6

-----------------------------------------------------------------------------
(***************************************************************************)
(* Two texts, one after the other.                                         *)
(***************************************************************************)
LEMMA JoinSound ==
  ASSUME NEW T, NEW s \in Seq(T), NEW t \in Seq(T)
  PROVE  /\ s \o t \in Seq(T) /\ Len(s \o t) = Len(s) + Len(t)
         /\ t # <<>> => s \o t # <<>> /\ Last(s \o t) = Last(t)
         /\ s # <<>> => s \o t # <<>> /\ Head(s \o t) = Head(s)
         /\ Range(s \o t) = Range(s) \cup Range(t)
<1> DEFINE j == s \o t
<1>1. PICK m \in Nat, n \in Nat : m = Len(s) /\ n = Len(t)
  OBVIOUS
<1>2. /\ j \in Seq(T) /\ Len(j) = m + n
      /\ \A i \in 1..(m + n) : j[i] = IF i <= m THEN s[i] ELSE t[i - m]
  BY <1>1, ConcatProperties
<1> HIDE DEF j
<1>3. t # <<>> => j # <<>> /\ Last(j) = Last(t)
  <2> SUFFICES ASSUME t # <<>> PROVE j # <<>> /\ Last(j) = Last(t)
    OBVIOUS
  <2>1. n # 0
    BY <1>1, EmptySeq
  <2>2. m + n \in 1..(m + n) /\ ~(m + n <= m) /\ (m + n) - m = n /\ m + n # 0
    BY <2>1
  <2>3. j[m + n] = t[n]
    BY <1>2, <2>2
  <2>4. j # <<>>
    BY <1>2, <2>2, EmptySeq
  <2>5. Last(j) = j[m + n] /\ Last(t) = t[n]
    BY <1>1, <1>2 DEF Last
  <2>6. QED
    BY <2>3, <2>4, <2>5
<1>4. s # <<>> => j # <<>> /\ Head(j) = Head(s)
  <2> SUFFICES ASSUME s # <<>> PROVE j # <<>> /\ Head(j) = Head(s)
    OBVIOUS
  <2>1. m # 0
    BY <1>1, EmptySeq
  <2>2. 1 \in 1..(m + n) /\ 1 <= m /\ m + n # 0
    BY <2>1
  <2>3. j[1] = s[1]
    BY <1>2, <2>2
  <2>4. j # <<>>
    BY <1>2, <2>2, EmptySeq
  <2>5. Head(j) = j[1] /\ Head(s) = s[1]
    BY <1>2, <2>4
  <2>6. QED
    BY <2>3, <2>4, <2>5
<1>5. DOMAIN j = 1..(m + n) /\ DOMAIN s = 1..m /\ DOMAIN t = 1..n
  BY <1>1, <1>2
<1>6. ASSUME NEW x \in Range(j) PROVE x \in Range(s) \cup Range(t)
  <2>1. PICK i \in 1..(m + n) : x = j[i]
    BY <1>5, <1>6 DEF Range
  <2>2. CASE i <= m
    <3>1. i \in 1..m /\ x = s[i]
      BY <1>2, <2>1, <2>2
    <3>2. QED
      BY <1>5, <3>1 DEF Range
  <2>3. CASE ~(i <= m)
    <3>1. i - m \in 1..n /\ x = t[i - m]
      BY <1>2, <2>1, <2>3
    <3>2. QED
      BY <1>5, <3>1 DEF Range
  <2>4. QED
    BY <2>2, <2>3
<1>7. ASSUME NEW x \in Range(s) PROVE x \in Range(j)
  <2>1. PICK i \in 1..m : x = s[i]
    BY <1>5, <1>7 DEF Range
  <2>2. i \in 1..(m + n) /\ i <= m
    OBVIOUS
  <2>3. x = j[i]
    BY <1>2, <2>1, <2>2
  <2>4. QED
    BY <1>5, <2>2, <2>3 DEF Range
<1>8. ASSUME NEW x \in Range(t) PROVE x \in Range(j)
  <2>1. PICK i \in 1..n : x = t[i]
    BY <1>5, <1>8 DEF Range
  <2>2. i + m \in 1..(m + n) /\ ~(i + m <= m) /\ (i + m) - m = i
    OBVIOUS
  <2>3. x = j[i + m]
    BY <1>2, <2>1, <2>2
  <2>4. QED
    BY <1>5, <2>2, <2>3 DEF Range
<1>9. Range(j) = Range(s) \cup Range(t)
  BY <1>6, <1>7, <1>8
<1>10. QED
  BY <1>1, <1>2, <1>3, <1>4, <1>9 DEF j

Longer(g, f, n, y) == g = [i \in 1..(n + 1) |-> IF i = n + 1 THEN y ELSE f[i]]

\* A function that is one longer appends to a sequence.
LEMMA LongerAppends ==
  ASSUME NEW U, NEW n \in Nat, NEW y \in U, NEW f, NEW g, f \in [1..n -> U], Longer(g, f, n, y)
  PROVE  f \in Seq(U) /\ g = Append(f, y)
<1>1. f \in Seq(U) /\ Len(f) = n
  OBVIOUS
<1>2. /\ Append(f, y) \in Seq(U) /\ Len(Append(f, y)) = n + 1
      /\ \A i \in 1..n : Append(f, y)[i] = f[i]
      /\ Append(f, y)[n + 1] = y
  BY <1>1, AppendProperties
<1>3. g \in Seq(U) /\ Len(g) = n + 1
  <2>1. \A i \in 1..(n + 1) : (IF i = n + 1 THEN y ELSE f[i]) \in U
    OBVIOUS
  <2>2. g \in [1..(n + 1) -> U]
    BY <2>1 DEF Longer
  <2>3. QED
    BY <2>2
<1>4. \A i \in 1..(n + 1) : g[i] = Append(f, y)[i]
  <2>1. \A i \in 1..(n + 1) : i \in 1..n \/ i = n + 1
    OBVIOUS
  <2>2. QED
    BY <1>2, <2>1 DEF Longer
<1>5. QED
  BY <1>1, <1>2, <1>3, <1>4, SeqEqual

-----------------------------------------------------------------------------
(***************************************************************************)
(* Blocks, and the group that becomes one.                                 *)
(***************************************************************************)
Text == Seq(Nat)
Block == [parts : Seq(Text), path : Seq(STRING), kind : BlockKind]
Group == [path : Seq(STRING), type : {"none", "table", "body"} \cup BlockKind,
          kinds : SUBSET BlockKind, parts : Seq(Text), tokens : Nat]

\* The words of each block.
Texts(bs) == [n \in DOMAIN bs |-> Words(bs[n])]

\* The block that a group becomes.
Closed(g) == [parts |-> g.parts, path |-> g.path, kind |-> CoalescedKind(g.kinds)]

\* The words of a block are a text, and those of one block more come last.
LEMMA TextsAppend ==
  ASSUME NEW bs \in Seq(Block), NEW b \in Block
  PROVE  /\ Words(b) \in Text
         /\ Texts(bs) \in Seq(Text) /\ Len(Texts(bs)) = Len(bs)
         /\ Texts(Append(bs, b)) = Append(Texts(bs), Words(b))
         /\ FlattenSeq(Texts(bs)) \in Text
         /\ FlattenSeq(Texts(Append(bs, b))) = FlattenSeq(Texts(bs)) \o Words(b)
<1>1. \A a \in Block : Words(a) \in Text
  <2> SUFFICES ASSUME NEW a \in Block PROVE Words(a) \in Text
    OBVIOUS
  <2>1. a.parts \in Seq(Seq(Nat))
    BY DEF Block, Text
  <2>2. QED
    BY <2>1, FlattenType DEF Words, Text
<1>2. PICK n \in Nat : n = Len(bs) /\ DOMAIN bs = 1..n
  OBVIOUS
<1>3. Texts(bs) \in [1..n -> Text]
  BY <1>1, <1>2 DEF Texts
<1> DEFINE more == Append(bs, b)
<1>4. /\ more \in Seq(Block) /\ Len(more) = n + 1 /\ DOMAIN more = 1..(n + 1)
      /\ \A i \in 1..n : more[i] = bs[i]
      /\ more[n + 1] = b
  BY <1>2
<1> HIDE DEF more
<1>5. Longer(Texts(more), Texts(bs), n, Words(b))
  <2>1. \A i \in 1..(n + 1) : i # n + 1 => i \in 1..n /\ Texts(bs)[i] = Words(bs[i])
    BY <1>2 DEF Texts
  <2>2. \A i \in 1..(n + 1) :
            Words(more[i]) = IF i = n + 1 THEN Words(b) ELSE Texts(bs)[i]
    BY <1>4, <2>1
  <2>3. QED
    BY <1>4, <2>2 DEF Texts, Longer
<1>6. Texts(bs) \in Seq(Text) /\ Texts(more) = Append(Texts(bs), Words(b))
  <2>1. Words(b) \in Text
    BY <1>1
  <2>2. QED
    BY <1>3, <1>5, <2>1, LongerAppends
<1>7. Len(Texts(bs)) = n
  BY <1>2, <1>3
<1>8. FlattenSeq(Texts(bs)) \in Text
  BY <1>6, FlattenType DEF Text
<1>9. FlattenSeq(Append(Texts(bs), Words(b))) = FlattenSeq(Texts(bs)) \o Words(b)
  <2>1. Texts(bs) \in Seq(Seq(Nat)) /\ Words(b) \in Seq(Nat)
    BY <1>1, <1>6 DEF Text
  <2>2. QED
    BY <2>1, FlattenAppend
<1>10. QED
  BY <1>1, <1>2, <1>6, <1>7, <1>8, <1>9 DEF more

Estimates(parts) == [n \in DOMAIN parts |-> Tokens(Len(parts[n]))]

\* The estimate of parts is a number, that a part more adds its estimate to.
LEMMA PartTokensAppend ==
  ASSUME NEW parts \in Seq(Text), NEW part \in Text
  PROVE  /\ PartTokens(<<>>) = 0
         /\ PartTokens(parts) \in Nat /\ Tokens(Len(part)) \in Nat
         /\ PartTokens(Append(parts, part)) = PartTokens(parts) + Tokens(Len(part))
<1>1. \A p \in Text : Tokens(Len(p)) \in Nat
  <2>1. \A p \in Text : Len(p) \in Nat
    BY DEF Text
  <2>2. QED
    BY <2>1, TokensSound
<1>2. PICK n \in Nat : n = Len(parts) /\ DOMAIN parts = 1..n
  OBVIOUS
<1>3. Estimates(parts) \in [1..n -> Nat]
  <2>1. \A i \in 1..n : parts[i] \in Text
    BY <1>2
  <2>2. \A i \in 1..n : Tokens(Len(parts[i])) \in Nat
    BY <1>1, <2>1
  <2>3. QED
    BY <1>2, <2>2 DEF Estimates
<1> DEFINE more == Append(parts, part)
<1>4. /\ DOMAIN more = 1..(n + 1) /\ more[n + 1] = part
      /\ \A i \in 1..n : more[i] = parts[i]
  BY <1>2
<1> HIDE DEF more
<1>5. Longer(Estimates(more), Estimates(parts), n, Tokens(Len(part)))
  <2>1. \A i \in 1..(n + 1) :
            i # n + 1 => i \in 1..n /\ Estimates(parts)[i] = Tokens(Len(parts[i]))
    BY <1>2 DEF Estimates
  <2>2. \A i \in 1..(n + 1) : Tokens(Len(more[i]))
            = IF i = n + 1 THEN Tokens(Len(part)) ELSE Estimates(parts)[i]
    BY <1>4, <2>1
  <2>3. QED
    BY <1>4, <2>2 DEF Estimates, Longer
<1>6. Estimates(parts) \in Seq(Nat)
      /\ Estimates(more) = Append(Estimates(parts), Tokens(Len(part)))
  <2>1. Tokens(Len(part)) \in Nat
    BY <1>1
  <2>2. QED
    BY <1>3, <1>5, <2>1, LongerAppends
<1>7. Total(Estimates(parts)) \in Nat
      /\ Total(Estimates(more)) = Total(Estimates(parts)) + Tokens(Len(part))
  BY <1>1, <1>6, TotalType, TotalOfMore
<1>8. \A p : PartTokens(p) = Total(Estimates(p))
  BY DEF PartTokens, Estimates
<1>9. PartTokens(<<>>) = 0
  <2>1. Estimates(<<>>) = <<>>
    BY DEF Estimates
  <2>2. QED
    BY <1>8, <2>1, TotalOfNone
<1>10. QED
  BY <1>1, <1>7, <1>8, <1>9 DEF more

\* A group's kinds are of one type, which is its block's.
LEMMA CoalescedType ==
  ASSUME NEW kinds \in SUBSET BlockKind, NEW type, kinds # {},
         \A kind \in kinds : GroupType(kind) = type
  PROVE  CoalescedKind(kinds) \in BlockKind /\ GroupType(CoalescedKind(kinds)) = type
<1>1. IsFiniteSet(kinds)
  <2>1. IsFiniteSet(BlockKind)
    <3>1. \A a, b, c, d : IsFiniteSet({a, b, c, d})
      <4> SUFFICES ASSUME NEW a, NEW b, NEW c, NEW d PROVE IsFiniteSet({a, b, c, d})
        OBVIOUS
      <4>1. IsFiniteSet({a} \cup {b}) /\ IsFiniteSet({c} \cup {d})
        BY FS_Singleton, FS_Union
      <4>2. IsFiniteSet(({a} \cup {b}) \cup ({c} \cup {d}))
        BY <4>1, FS_Union
      <4>3. {a, b, c, d} = ({a} \cup {b}) \cup ({c} \cup {d})
        OBVIOUS
      <4>4. QED
        BY <4>2, <4>3
    <3>2. BlockKind = {"heading", "paragraph", "list_item", "table_row"}
                        \cup {"discussion", "agreement", "conclusion", "note"}
      BY DEF BlockKind
    <3>3. QED
      BY <3>1, <3>2, FS_Union
  <2>2. QED
    BY <2>1, FS_Subset
<1>2. CASE Cardinality(kinds) = 1
  <2>1. PICK kind : kinds = {kind}
    BY <1>1, <1>2, FS_Singleton
  <2>2. CoalescedKind(kinds) = kind
    BY <1>2, <2>1 DEF CoalescedKind
  <2>3. QED
    BY <2>1, <2>2
<1>3. CASE Cardinality(kinds) # 1
  <2>1. PICK a \in kinds, b \in kinds : a # b
    BY <1>1, <1>3, FS_Singleton
  <2>2. GroupType(a) = type /\ GroupType(b) = type /\ a \in BlockKind /\ b \in BlockKind
    OBVIOUS
  <2>3. type = "body"
    BY <2>1, <2>2 DEF GroupType, BlockKind
  <2>4. CoalescedKind(kinds) = "paragraph"
    BY <1>3 DEF CoalescedKind
  <2>5. GroupType("paragraph") = "body" /\ "paragraph" \in BlockKind
    BY DEF GroupType, BlockKind
  <2>6. QED
    BY <2>3, <2>4, <2>5
<1>4. QED
  BY <1>2, <1>3

(***************************************************************************)
(* What is gathered from the first m words of a document.  An origin is a  *)
(* word with the section and the type of its element.                      *)
(***************************************************************************)
Gatherings == [blocks : Seq(Block), group : Group]

\* The estimate of the parts is within the limit, and that of all of them
\* together is less than a token for each part more.
SoundParts(parts) ==
    /\ parts \in Seq(Text) /\ parts # <<>> /\ FlattenSeq(parts) # <<>>
    /\ PartTokens(parts) \in 1..BlockMax
    /\ Tokens(Len(FlattenSeq(parts))) < PartTokens(parts) + Len(parts)

BlockSound(b, m, origins) ==
    /\ b \in Block
    /\ SoundParts(b.parts)
    /\ Last(Words(b)) <= m
    /\ \A word \in Range(Words(b)) : <<word, b.path, GroupType(b.kind)>> \in origins

GroupSound(g, m, origins) ==
    /\ g \in Group
    /\ SoundParts(g.parts)
    /\ g.tokens = PartTokens(g.parts)
    /\ g.kinds # {} /\ \A kind \in g.kinds : GroupType(kind) = g.type
    /\ Last(FlattenSeq(g.parts)) = m
    /\ \A word \in Range(FlattenSeq(g.parts)) : <<word, g.path, g.type>> \in origins

Full(parts) == PartTokens(parts) >= BlockTarget

\* The block b and the parts after it are apart for a reason.
Apart(b, path, type, parts) ==
    /\ b.path = path
    /\ GroupType(b.kind) = type
    /\ Last(Words(b)) + 1 = Head(FlattenSeq(parts))
    => Full(b.parts) \/ PartTokens(b.parts) + Tokens(Len(Head(parts))) > BlockMax

\* So is the last of the blocks from them.
LastApart(bs, path, type, parts) == bs # <<>> => Apart(Last(bs), path, type, parts)

BlocksSound(bs, m, origins) ==
    /\ bs \in Seq(Block)
    /\ \A n \in 1..Len(bs) : BlockSound(bs[n], m, origins)
    /\ \A n \in 1..(Len(bs) - 1) :
            Apart(bs[n], bs[n + 1].path, GroupType(bs[n + 1].kind), bs[n + 1].parts)

Sound(gathering, m, origins) ==
    /\ gathering \in Gatherings
    /\ BlocksSound(gathering.blocks, m, origins)
    /\ gathering.group # NoGroup =>
            LET g == gathering.group IN
            /\ GroupSound(g, m, origins) /\ ~Full(g.parts)
            /\ LastApart(gathering.blocks, g.path, g.type, g.parts)

\* When no group is open, the next part does not adjoin the last block or
\* finds it full.
Spaced(gathering, m) ==
    LET last == Last(gathering.blocks) IN
    gathering.group = NoGroup /\ gathering.blocks # <<>> =>
        Full(last.parts) \/ Last(Words(last)) < m

\* The words that are gathered.
Gotten(gathering) == FlattenSeq(Texts(gathering.blocks)) \o FlattenSeq(gathering.group.parts)

\* A group that is sound becomes a block that is.
LEMMA ClosedSound ==
  ASSUME NEW m \in Nat, NEW origins, NEW g, GroupSound(g, m, origins)
  PROVE  /\ BlockSound(Closed(g), m, origins)
         /\ Closed(g).parts = g.parts /\ Closed(g).path = g.path
         /\ GroupType(Closed(g).kind) = g.type
         /\ Words(Closed(g)) = FlattenSeq(g.parts)
<1>1. g \in Group /\ SoundParts(g.parts) /\ g.kinds # {}
      /\ \A kind \in g.kinds : GroupType(kind) = g.type
  BY DEF GroupSound
<1>2. g.kinds \in SUBSET BlockKind /\ g.path \in Seq(STRING) /\ g.parts \in Seq(Text)
  BY <1>1 DEF Group
<1>3. CoalescedKind(g.kinds) \in BlockKind /\ GroupType(CoalescedKind(g.kinds)) = g.type
  BY <1>1, <1>2, CoalescedType
<1>4. /\ Closed(g) \in Block /\ Closed(g).parts = g.parts /\ Closed(g).path = g.path
      /\ Closed(g).kind = CoalescedKind(g.kinds)
  BY <1>2, <1>3 DEF Closed, Block
<1>5. Words(Closed(g)) = FlattenSeq(g.parts)
  BY <1>4 DEF Words
<1>6. Last(FlattenSeq(g.parts)) = m
      /\ \A word \in Range(FlattenSeq(g.parts)) : <<word, g.path, g.type>> \in origins
  BY DEF GroupSound
<1>7. BlockSound(Closed(g), m, origins)
  BY <1>1, <1>3, <1>4, <1>5, <1>6 DEF BlockSound
<1>8. QED
  BY <1>3, <1>4, <1>5, <1>7

\* Blocks that are sound are with one more that is and is apart.
LEMMA BlocksGrow ==
  ASSUME NEW m \in Nat, NEW origins, NEW bs, NEW b,
         BlocksSound(bs, m, origins), BlockSound(b, m, origins),
         LastApart(bs, b.path, GroupType(b.kind), b.parts)
  PROVE  BlocksSound(Append(bs, b), m, origins)
<1> DEFINE more == Append(bs, b)
<1>1. bs \in Seq(Block) /\ b \in Block
  BY DEF BlocksSound, BlockSound
<1>2. PICK k \in Nat : k = Len(bs)
  BY <1>1
<1>3. /\ more \in Seq(Block) /\ Len(more) = k + 1 /\ more[k + 1] = b
      /\ \A i \in 1..k : more[i] = bs[i]
  BY <1>1, <1>2, AppendProperties
<1> HIDE DEF more
<1>4. ASSUME NEW n \in 1..(k + 1) PROVE BlockSound(more[n], m, origins)
  <2>1. n \in 1..k \/ n = k + 1
    OBVIOUS
  <2>2. \A i \in 1..k : BlockSound(bs[i], m, origins)
    BY <1>2 DEF BlocksSound
  <2>3. QED
    BY <1>3, <2>1, <2>2
<1>5. ASSUME NEW n \in 1..k
      PROVE  Apart(more[n], more[n + 1].path, GroupType(more[n + 1].kind), more[n + 1].parts)
  <2>1. CASE n = k
    <3>1. bs # <<>> /\ Last(bs) = bs[k] /\ more[n] = bs[k] /\ more[n + 1] = b
      BY <1>1, <1>2, <1>3, <2>1 DEF Last
    <3>2. QED
      BY <3>1 DEF LastApart
  <2>2. CASE n # k
    <3>1. n \in 1..(k - 1) /\ n + 1 \in 1..k
      BY <2>2
    <3>2. Apart(bs[n], bs[n + 1].path, GroupType(bs[n + 1].kind), bs[n + 1].parts)
      BY <1>2, <3>1 DEF BlocksSound
    <3>3. more[n] = bs[n] /\ more[n + 1] = bs[n + 1]
      BY <1>3, <3>1
    <3>4. QED
      BY <3>2, <3>3
  <2>3. QED
    BY <2>1, <2>2
<1>6. (k + 1) - 1 = k
  OBVIOUS
<1>7. BlocksSound(more, m, origins)
  BY <1>3, <1>4, <1>5, <1>6 DEF BlocksSound
<1>8. QED
  BY <1>7 DEF more

\* To close a group makes it the last block and keeps the words.
LEMMA CloseGroup ==
  ASSUME NEW m \in Nat, NEW origins, NEW gathering \in Gatherings,
         BlocksSound(gathering.blocks, m, origins), GroupSound(gathering.group, m, origins),
         LET g == gathering.group IN LastApart(gathering.blocks, g.path, g.type, g.parts)
  PROVE  /\ Flush(gathering) = [blocks |-> Append(gathering.blocks, Closed(gathering.group)),
                                group |-> NoGroup]
         /\ Sound(Flush(gathering), m, origins)
         /\ Gotten(Flush(gathering)) = Gotten(gathering)
<1> DEFINE g == gathering.group
           bs == gathering.blocks
           b == Closed(g)
           flushed == [blocks |-> Append(bs, b), group |-> NoGroup]
<1>1. g.parts # <<>> /\ g \in Group /\ bs \in Seq(Block)
  BY DEF GroupSound, SoundParts, Gatherings
<1>2. Flush(gathering) = flushed
  BY <1>1 DEF Flush, Closed
<1>3. /\ BlockSound(b, m, origins) /\ b.parts = g.parts /\ b.path = g.path
      /\ GroupType(b.kind) = g.type /\ Words(b) = FlattenSeq(g.parts)
  BY ClosedSound
<1>4. BlocksSound(Append(bs, b), m, origins)
  <2>1. LastApart(bs, b.path, GroupType(b.kind), b.parts)
    BY <1>3
  <2>2. QED
    BY <1>3, <2>1, BlocksGrow
<1>5. NoGroup \in Group
  <2>1. PICK path \in Seq(STRING), parts \in Seq(Text) : path = <<>> /\ parts = <<>>
    BY EmptySeq
  <2>2. NoGroup = [path |-> path, type |-> "none", kinds |-> {}, parts |-> parts, tokens |-> 0]
    BY <2>1 DEF NoGroup
  <2>3. QED
    BY <2>2 DEF Group
<1>6. b \in Block
  BY <1>3 DEF BlockSound
<1>7. flushed \in Gatherings /\ flushed.blocks = Append(bs, b) /\ flushed.group = NoGroup
  BY <1>1, <1>5, <1>6, AppendProperties DEF Gatherings
<1>8. Sound(flushed, m, origins)
  BY <1>4, <1>7 DEF Sound
<1>9. Gotten(flushed) = Gotten(gathering)
  <2>1. FlattenSeq(Texts(Append(bs, b))) = FlattenSeq(Texts(bs)) \o Words(b)
        /\ FlattenSeq(Texts(bs)) \in Text /\ Words(b) \in Text
    BY <1>1, <1>6, TextsAppend
  <2>2. FlattenSeq(NoGroup.parts) = <<>>
    BY FlattenNone DEF NoGroup
  <2>3. \A a, c \in Text : (a \o c) \o <<>> = a \o c
    BY DEF Text
  <2>4. (FlattenSeq(Texts(bs)) \o Words(b)) \o <<>> = FlattenSeq(Texts(bs)) \o Words(b)
    BY <2>1, <2>3
  <2>5. QED
    BY <1>3, <1>7, <2>1, <2>2, <2>4 DEF Gotten
<1>10. QED
  BY <1>2, <1>8, <1>9

\* Flush closes the group, if one is open.
LEMMA FlushSound ==
  ASSUME NEW m \in Nat, NEW origins, NEW gathering, Sound(gathering, m, origins)
  PROVE  /\ Sound(Flush(gathering), m, origins)
         /\ Flush(gathering).group = NoGroup
         /\ Gotten(Flush(gathering)) = Gotten(gathering)
         /\ gathering.group = NoGroup => Flush(gathering) = gathering
<1>1. gathering \in Gatherings /\ BlocksSound(gathering.blocks, m, origins)
  BY DEF Sound
<1>2. CASE gathering.group = NoGroup
  <2>1. Flush(gathering) = gathering
    BY <1>2 DEF Flush, NoGroup
  <2>2. QED
    BY <1>2, <2>1
<1>3. CASE gathering.group # NoGroup
  <2>1. GroupSound(gathering.group, m, origins)
        /\ LET g == gathering.group IN LastApart(gathering.blocks, g.path, g.type, g.parts)
    BY <1>3 DEF Sound
  <2>2. /\ Flush(gathering) = [blocks |-> Append(gathering.blocks, Closed(gathering.group)),
                               group |-> NoGroup]
        /\ Sound(Flush(gathering), m, origins)
        /\ Gotten(Flush(gathering)) = Gotten(gathering)
    BY <1>1, <2>1, CloseGroup
  <2>3. QED
    BY <1>3, <2>2
<1>4. QED
  BY <1>2, <1>3

\* The last word of a block.
LEMMA LastWord ==
  ASSUME NEW b, NEW m, NEW origins, BlockSound(b, m, origins)
  PROVE  Words(b) \in Text /\ Words(b) # <<>> /\ Last(Words(b)) \in Nat
<1>1. b.parts \in Seq(Seq(Nat)) /\ FlattenSeq(b.parts) # <<>>
  BY DEF BlockSound, SoundParts, Text
<1>2. FlattenSeq(b.parts) \in Seq(Nat)
  BY <1>1, FlattenType
<1>3. Last(FlattenSeq(b.parts)) \in Nat
  BY <1>1, <1>2 DEF Last
<1>4. QED
  BY <1>1, <1>2, <1>3 DEF Words, Text

\* What is sound stays so when the document goes on, of a group that is closed.
LEMMA SoundLater ==
  ASSUME NEW m \in Nat, NEW k \in Nat, m <= k, NEW origins, NEW more, origins \subseteq more,
         NEW bs, BlocksSound(bs, m, origins)
  PROVE  BlocksSound(bs, k, more)
<1>1. ASSUME NEW b, BlockSound(b, m, origins) PROVE BlockSound(b, k, more)
  <2>1. Last(Words(b)) \in Nat
    BY <1>1, LastWord
  <2>2. Last(Words(b)) <= k
    <3>1. Last(Words(b)) <= m
      BY <1>1 DEF BlockSound
    <3>2. QED
      BY <2>1, <3>1
  <2>3. QED
    BY <1>1, <2>2 DEF BlockSound
<1>2. QED
  BY <1>1 DEF BlocksSound

-----------------------------------------------------------------------------
(***************************************************************************)
(* A part more.                                                            *)
(***************************************************************************)

\* The part is the next words, of an element that is no heading.
NextPart(part, m, path, kind, origins) ==
    /\ part \in Text /\ part # <<>>
    /\ Tokens(Len(part)) <= BlockMax
    /\ \A i \in 1..Len(part) : part[i] = m + i /\ <<m + i, path, GroupType(kind)>> \in origins
    /\ path \in Seq(STRING) /\ kind \in BlockKind

Extended(g, part, path, kind) ==
    [path |-> path, type |-> GroupType(kind), kinds |-> g.kinds \cup {kind},
     parts |-> Append(g.parts, part), tokens |-> g.tokens + Tokens(Len(part))]

\* The first and the last word of it, and all of them.
LEMMA NextPartSound ==
  ASSUME NEW m \in Nat, NEW part, NEW path, NEW kind, NEW origins,
         NextPart(part, m, path, kind, origins)
  PROVE  /\ Len(part) \in Nat \ {0} /\ Head(part) = m + 1 /\ Last(part) = m + Len(part)
         /\ \A word \in Range(part) : <<word, path, GroupType(kind)>> \in origins
         /\ Tokens(Len(part)) \in 1..BlockMax
<1>1. part \in Seq(Nat) /\ part # <<>> /\ Tokens(Len(part)) <= BlockMax
  BY DEF NextPart, Text
<1>2. PICK n \in Nat \ {0} : n = Len(part) /\ DOMAIN part = 1..n
  BY <1>1
<1>3. \A i \in 1..n : part[i] = m + i /\ <<m + i, path, GroupType(kind)>> \in origins
  BY <1>2 DEF NextPart
<1>4. Head(part) = part[1] /\ Last(part) = part[n]
  BY <1>1, <1>2 DEF Last
<1>5. Head(part) = m + 1 /\ Last(part) = m + n
  <2>1. 1 \in 1..n /\ n \in 1..n
    OBVIOUS
  <2>2. part[1] = m + 1 /\ part[n] = m + n
    BY <1>3, <2>1
  <2>3. QED
    BY <1>4, <2>2
<1>6. \A word \in Range(part) : <<word, path, GroupType(kind)>> \in origins
  <2>1. \A i \in 1..n : <<part[i], path, GroupType(kind)>> \in origins
    BY <1>3
  <2>2. QED
    BY <1>2, <2>1 DEF Range
<1>7. Tokens(n) \in Nat /\ Tokens(n) # 0
  BY TokensSound
<1>8. BlockMax \in Nat
  BY EvidenceAssumption
<1>9. Tokens(n) \in 1..BlockMax
  BY <1>1, <1>2, <1>7, <1>8
<1>10. QED
  BY <1>2, <1>5, <1>6, <1>9

\* A part is sound alone, and parts that are sound are with it.
LEMMA PartsGrow ==
  ASSUME NEW part \in Text, part # <<>>, Tokens(Len(part)) \in 1..BlockMax
  PROVE  /\ SoundParts(<<part>>) /\ FlattenSeq(<<part>>) = part
         /\ PartTokens(<<part>>) = Tokens(Len(part))
         /\ \A parts : SoundParts(parts) /\ PartTokens(parts) + Tokens(Len(part)) <= BlockMax =>
                /\ SoundParts(Append(parts, part))
                /\ FlattenSeq(Append(parts, part)) = FlattenSeq(parts) \o part
                /\ FlattenSeq(parts) \in Text
                /\ PartTokens(Append(parts, part)) = PartTokens(parts) + Tokens(Len(part))
                /\ Head(Append(parts, part)) = Head(parts)
<1>1. PICK k \in Nat : k = Len(part) /\ Tokens(k) \in Nat
  <2>1. Len(part) \in Nat
    BY DEF Text
  <2>2. QED
    BY <2>1, TokensSound
<1>2. BlockMax \in Nat
  BY EvidenceAssumption
<1>3. FlattenSeq(<<part>>) = part
  BY FlattenOne
<1>4. PartTokens(<<part>>) = Tokens(Len(part))
  <2>1. <<>> \in Seq(Text) /\ Append(<<>>, part) = <<part>>
    OBVIOUS
  <2>2. PartTokens(<<>>) = 0 /\ PartTokens(Append(<<>>, part)) = PartTokens(<<>>) + Tokens(Len(part))
    BY <2>1, PartTokensAppend
  <2>3. QED
    BY <1>1, <2>1, <2>2
<1>5. SoundParts(<<part>>)
  <2>1. <<part>> \in Seq(Text) /\ <<part>> # <<>> /\ Len(<<part>>) = 1
    OBVIOUS
  <2>2. Tokens(Len(part)) < Tokens(Len(part)) + 1
    BY <1>1
  <2>3. QED
    BY <1>3, <1>4, <2>1, <2>2 DEF SoundParts
<1>6. ASSUME NEW parts, SoundParts(parts), PartTokens(parts) + Tokens(Len(part)) <= BlockMax
      PROVE  /\ SoundParts(Append(parts, part))
             /\ FlattenSeq(Append(parts, part)) = FlattenSeq(parts) \o part
             /\ FlattenSeq(parts) \in Text
             /\ PartTokens(Append(parts, part)) = PartTokens(parts) + Tokens(Len(part))
             /\ Head(Append(parts, part)) = Head(parts)
  <2>1. /\ parts \in Seq(Text) /\ parts # <<>> /\ FlattenSeq(parts) # <<>>
        /\ PartTokens(parts) \in 1..BlockMax
        /\ Tokens(Len(FlattenSeq(parts))) < PartTokens(parts) + Len(parts)
    BY <1>6 DEF SoundParts
  <2>2. PartTokens(Append(parts, part)) = PartTokens(parts) + Tokens(Len(part))
    BY <2>1, PartTokensAppend
  <2>3. FlattenSeq(parts) \in Seq(Nat) /\ part \in Seq(Nat)
        /\ FlattenSeq(Append(parts, part)) = FlattenSeq(parts) \o part
    <3>1. parts \in Seq(Seq(Nat)) /\ part \in Seq(Nat)
      BY <2>1 DEF Text
    <3>2. QED
      BY <3>1, FlattenType, FlattenAppend
  <2>4. /\ Len(FlattenSeq(Append(parts, part))) = Len(FlattenSeq(parts)) + k
        /\ FlattenSeq(Append(parts, part)) # <<>>
    <3>1. Len(FlattenSeq(parts) \o part) = Len(FlattenSeq(parts)) + Len(part)
          /\ (part # <<>> => FlattenSeq(parts) \o part # <<>>)
      BY <2>3, JoinSound
    <3>2. QED
      BY <1>1, <2>3, <3>1
  <2>5. PICK n \in Nat, l \in Nat, t \in Nat :
            n = Len(FlattenSeq(parts)) /\ l = Len(parts) /\ t = PartTokens(parts)
    BY <2>1, <2>3
  <2>6. Tokens(n + k) < (t + Tokens(k)) + (l + 1)
    <3>1. Tokens(n) \in Nat /\ Tokens(n + k) <= Tokens(n) + Tokens(k) + 1 /\ Tokens(n + k) \in Nat
      <4>1. n + k \in Nat
        OBVIOUS
      <4>2. QED
        BY <4>1, TokensSound
    <3>2. Tokens(n) < t + l
      BY <2>1, <2>5
    <3>3. QED
      BY <1>1, <3>1, <3>2
  <2>7. /\ Append(parts, part) \in Seq(Text) /\ Append(parts, part) # <<>>
        /\ Len(Append(parts, part)) = l + 1 /\ Head(Append(parts, part)) = Head(parts)
    <3>1. 1 \in 1..Len(parts)
      BY <2>1
    <3>2. /\ Append(parts, part) \in Seq(Text) /\ Append(parts, part) # <<>>
          /\ Len(Append(parts, part)) = Len(parts) + 1
          /\ Append(parts, part)[1] = parts[1]
      BY <2>1, <3>1, AppendProperties
    <3>3. Head(Append(parts, part)) = Append(parts, part)[1] /\ Head(parts) = parts[1]
      BY <2>1, <3>2
    <3>4. QED
      BY <2>5, <3>2, <3>3
  <2>8. PartTokens(Append(parts, part)) \in 1..BlockMax
    BY <1>1, <1>2, <1>6, <2>1, <2>2
  <2>9. SoundParts(Append(parts, part))
    BY <1>1, <2>2, <2>4, <2>5, <2>6, <2>7, <2>8 DEF SoundParts
  <2>10. QED
    BY <2>2, <2>3, <2>7, <2>9 DEF Text
<1>7. QED
  BY <1>3, <1>4, <1>5, <1>6

\* A part opens a group.
LEMMA GroupOpens ==
  ASSUME NEW m \in Nat, NEW part, NEW path, NEW kind, NEW origins,
         NextPart(part, m, path, kind, origins)
  PROVE  LET g == Extended(NoGroup, part, path, kind) IN
         /\ GroupSound(g, m + Len(part), origins)
         /\ FlattenSeq(g.parts) = part /\ g.parts = <<part>>
         /\ g.path = path /\ g.type = GroupType(kind)
<1> DEFINE g == Extended(NoGroup, part, path, kind)
<1>1. part \in Text /\ part # <<>> /\ path \in Seq(STRING) /\ kind \in BlockKind
  BY DEF NextPart
<1>2. /\ Len(part) \in Nat \ {0} /\ Last(part) = m + Len(part)
      /\ \A word \in Range(part) : <<word, path, GroupType(kind)>> \in origins
      /\ Tokens(Len(part)) \in 1..BlockMax
  BY NextPartSound
<1>3. /\ SoundParts(<<part>>) /\ FlattenSeq(<<part>>) = part
      /\ PartTokens(<<part>>) = Tokens(Len(part))
  BY <1>1, <1>2, PartsGrow
<1>4. Append(<<>>, part) = <<part>>
  OBVIOUS
<1>5. Tokens(Len(part)) \in Nat
  BY <1>2
<1>6. g = [path |-> path, type |-> GroupType(kind), kinds |-> {kind}, parts |-> <<part>>,
           tokens |-> Tokens(Len(part))]
  <2>1. NoGroup.kinds = {} /\ NoGroup.parts = <<>> /\ NoGroup.tokens = 0
    BY DEF NoGroup
  <2>2. NoGroup.kinds \cup {kind} = {kind} /\ Append(NoGroup.parts, part) = <<part>>
        /\ NoGroup.tokens + Tokens(Len(part)) = Tokens(Len(part))
    BY <1>4, <1>5, <2>1
  <2>3. QED
    BY <2>2 DEF Extended
<1> HIDE DEF g
<1>7. /\ g.path = path /\ g.type = GroupType(kind) /\ g.kinds = {kind} /\ g.parts = <<part>>
      /\ g.tokens = Tokens(Len(part))
  BY <1>6
<1>8. GroupType(kind) \in {"none", "table", "body"} \cup BlockKind
  BY <1>1 DEF GroupType, BlockKind
<1>9. g \in Group
  <2>1. <<part>> \in Seq(Text)
    BY <1>1
  <2>2. QED
    BY <1>1, <1>5, <1>6, <1>8, <2>1 DEF Group
<1>10. GroupSound(g, m + Len(part), origins)
  BY <1>2, <1>3, <1>7, <1>9 DEF GroupSound
<1>11. QED
  BY <1>3, <1>7, <1>10 DEF g

Grown(h, g, part, path, kind, m, origins) ==
    /\ GroupSound(g, m + Len(part), origins)
    /\ FlattenSeq(g.parts) = FlattenSeq(h.parts) \o part
    /\ Head(FlattenSeq(g.parts)) = Head(FlattenSeq(h.parts)) /\ Head(g.parts) = Head(h.parts)
    /\ g.path = path /\ g.type = GroupType(kind)

\* A part that fits goes on with its group.
LEMMA GroupGrows ==
  ASSUME NEW m \in Nat, NEW part, NEW path, NEW kind, NEW origins, NEW h,
         NextPart(part, m, path, kind, origins), GroupSound(h, m, origins),
         h.path = path, h.type = GroupType(kind), h.tokens + Tokens(Len(part)) <= BlockMax
  PROVE  Grown(h, Extended(h, part, path, kind), part, path, kind, m, origins)
<1> DEFINE g == Extended(h, part, path, kind)
<1>1. part \in Text /\ part # <<>> /\ path \in Seq(STRING) /\ kind \in BlockKind
  BY DEF NextPart
<1>2. /\ Len(part) \in Nat \ {0} /\ Last(part) = m + Len(part)
      /\ \A word \in Range(part) : <<word, path, GroupType(kind)>> \in origins
      /\ Tokens(Len(part)) \in 1..BlockMax
  BY NextPartSound
<1>3. /\ h \in Group /\ SoundParts(h.parts) /\ h.tokens = PartTokens(h.parts)
      /\ \A k \in h.kinds : GroupType(k) = h.type
      /\ \A word \in Range(FlattenSeq(h.parts)) : <<word, h.path, h.type>> \in origins
  BY DEF GroupSound
<1>4. /\ SoundParts(Append(h.parts, part))
      /\ FlattenSeq(Append(h.parts, part)) = FlattenSeq(h.parts) \o part
      /\ FlattenSeq(h.parts) \in Text
      /\ PartTokens(Append(h.parts, part)) = h.tokens + Tokens(Len(part))
      /\ Head(Append(h.parts, part)) = Head(h.parts)
  <2>1. PartTokens(h.parts) + Tokens(Len(part)) <= BlockMax
    BY <1>3
  <2>2. QED
    BY <1>1, <1>2, <1>3, <2>1, PartsGrow
<1>5. /\ g.path = path /\ g.type = GroupType(kind) /\ g.kinds = h.kinds \cup {kind}
      /\ g.parts = Append(h.parts, part) /\ g.tokens = h.tokens + Tokens(Len(part))
  BY DEF Extended
<1>6. g \in Group
  <2>1. GroupType(kind) \in {"none", "table", "body"} \cup BlockKind
    BY <1>1 DEF GroupType, BlockKind
  <2>2. h.kinds \cup {kind} \in SUBSET BlockKind
    BY <1>1, <1>3 DEF Group
  <2>3. Append(h.parts, part) \in Seq(Text)
    BY <1>4 DEF SoundParts
  <2>4. h.tokens + Tokens(Len(part)) \in Nat
    <3>1. h.tokens \in Nat
      BY <1>3 DEF Group
    <3>2. QED
      BY <1>2, <3>1
  <2>5. QED
    BY <1>1, <2>1, <2>2, <2>3, <2>4 DEF Group, Extended
<1> HIDE DEF g
<1>7. /\ FlattenSeq(h.parts) \in Seq(Nat) /\ part \in Seq(Nat) /\ FlattenSeq(h.parts) # <<>>
  BY <1>1, <1>3, <1>4 DEF Text, SoundParts
<1>8. /\ Last(FlattenSeq(g.parts)) = m + Len(part)
      /\ Head(FlattenSeq(g.parts)) = Head(FlattenSeq(h.parts))
      /\ Range(FlattenSeq(g.parts)) = Range(FlattenSeq(h.parts)) \cup Range(part)
  <2>1. /\ Last(FlattenSeq(h.parts) \o part) = Last(part)
        /\ Head(FlattenSeq(h.parts) \o part) = Head(FlattenSeq(h.parts))
        /\ Range(FlattenSeq(h.parts) \o part) = Range(FlattenSeq(h.parts)) \cup Range(part)
    BY <1>1, <1>7, JoinSound
  <2>2. FlattenSeq(g.parts) = FlattenSeq(h.parts) \o part
    BY <1>4, <1>5
  <2>3. QED
    BY <1>2, <2>1, <2>2
<1>9. GroupSound(g, m + Len(part), origins)
  <2>1. \A k \in g.kinds : GroupType(k) = g.type
    BY <1>3, <1>5
  <2>2. \A word \in Range(FlattenSeq(g.parts)) : <<word, g.path, g.type>> \in origins
    BY <1>2, <1>3, <1>5, <1>8
  <2>3. SoundParts(g.parts) /\ g.tokens = PartTokens(g.parts) /\ g.kinds # {}
    BY <1>4, <1>5
  <2>4. QED
    BY <1>6, <1>8, <2>1, <2>2, <2>3 DEF GroupSound
<1>10. Grown(h, g, part, path, kind, m, origins)
  BY <1>4, <1>5, <1>8, <1>9 DEF Grown
<1>11. QED
  BY <1>10 DEF g

Settled(after) == IF after.group.tokens >= BlockTarget THEN Flush(after) ELSE after

\* A block is made of a group as soon as it is full.
LEMMA SettledSound ==
  ASSUME NEW m \in Nat, NEW origins, NEW after \in Gatherings,
         BlocksSound(after.blocks, m, origins), GroupSound(after.group, m, origins),
         LET g == after.group IN LastApart(after.blocks, g.path, g.type, g.parts)
  PROVE  /\ Sound(Settled(after), m, origins) /\ Spaced(Settled(after), m)
         /\ Gotten(Settled(after)) = Gotten(after)
<1>1. after.group.tokens = PartTokens(after.group.parts) /\ after.group.parts # <<>>
  BY DEF GroupSound, SoundParts
<1>2. CASE after.group.tokens >= BlockTarget
  <2>1. /\ Flush(after) = [blocks |-> Append(after.blocks, Closed(after.group)), group |-> NoGroup]
        /\ Sound(Flush(after), m, origins) /\ Gotten(Flush(after)) = Gotten(after)
    BY CloseGroup
  <2>2. Settled(after) = Flush(after)
    BY <1>2 DEF Settled
  <2>3. Last(Append(after.blocks, Closed(after.group))) = Closed(after.group)
    <3>1. after.blocks \in Seq(Block) /\ Closed(after.group) \in Block
      BY ClosedSound DEF Gatherings, BlockSound
    <3>2. /\ Append(after.blocks, Closed(after.group)) \in Seq(Block)
          /\ Len(Append(after.blocks, Closed(after.group))) = Len(after.blocks) + 1
          /\ Append(after.blocks, Closed(after.group))[Len(after.blocks) + 1] = Closed(after.group)
      BY <3>1, AppendProperties
    <3>3. QED
      BY <3>2 DEF Last
  <2>4. Full(Closed(after.group).parts)
    BY <1>1, <1>2 DEF Full, Closed
  <2>5. Spaced(Flush(after), m)
    BY <2>1, <2>3, <2>4 DEF Spaced
  <2>6. QED
    BY <2>1, <2>2, <2>5
<1>3. CASE ~(after.group.tokens >= BlockTarget)
  <2>1. Settled(after) = after /\ after.group # NoGroup /\ ~Full(after.group.parts)
    BY <1>1, <1>3 DEF Settled, NoGroup, Full
  <2>2. Sound(after, m, origins)
    BY <2>1 DEF Sound
  <2>3. Spaced(after, m)
    BY <2>1 DEF Spaced
  <2>4. QED
    BY <2>1, <2>2, <2>3
<1>4. QED
  BY <1>2, <1>3

With(gathering, part, path, kind) ==
    [blocks |-> gathering.blocks, group |-> Extended(gathering.group, part, path, kind)]

\* Three texts, one after the other.
LEMMA TextAssociative == \A a, b, c \in Text : (a \o b) \o c = a \o (b \o c)
<1> SUFFICES ASSUME NEW a \in Text, NEW b \in Text, NEW c \in Text
             PROVE  (a \o b) \o c = a \o (b \o c)
  OBVIOUS
<1>1. a \in Seq(Nat) /\ b \in Seq(Nat) /\ c \in Seq(Nat)
  BY DEF Text
<1>2. \A x, y, z \in Seq(Nat) : (x \o y) \o z = x \o (y \o z)
  BY ConcatAssociative, SMTT(30)
<1>3. QED
  BY <1>1, <1>2, Zenon

\* A text and none.
LEMMA TextEmpty == \A a \in Text : a \o <<>> = a /\ <<>> \o a = a
BY DEF Text

\* Two texts are a text.
LEMMA TextJoins == \A a, b \in Text : a \o b \in Text
BY DEF Text

\* What is gathered is a text.
LEMMA GottenType ==
  ASSUME NEW gathering \in Gatherings
  PROVE  /\ FlattenSeq(Texts(gathering.blocks)) \in Text
         /\ FlattenSeq(gathering.group.parts) \in Text
<1>1. gathering.blocks \in Seq(Block) /\ gathering.group.parts \in Seq(Seq(Nat))
  BY DEF Gatherings, Group, Text
<1>2. FlattenSeq(gathering.group.parts) \in Text
  BY <1>1, FlattenType DEF Text
<1>3. FlattenSeq(Texts(gathering.blocks)) \in Text
  <2>1. \A n \in DOMAIN gathering.blocks : Words(gathering.blocks[n]) \in Text
    <3> SUFFICES ASSUME NEW n \in DOMAIN gathering.blocks
                 PROVE  Words(gathering.blocks[n]) \in Text
      OBVIOUS
    <3>1. gathering.blocks[n] \in Block
      BY <1>1
    <3>2. gathering.blocks[n].parts \in Seq(Seq(Nat))
      BY <3>1 DEF Block, Text
    <3>3. QED
      BY <3>2, FlattenType DEF Words, Text
  <2>2. Texts(gathering.blocks) \in Seq(Text)
    BY <1>1, <2>1 DEF Texts
  <2>3. QED
    BY <2>2, FlattenType DEF Text
<1>4. QED
  BY <1>2, <1>3

\* One turn of the loop over the parts: no word is lost or repeated, and what is
\* gathered stays sound.
Went(gathering, after, part, m, origins) ==
    /\ Sound(after, m + Len(part), origins) /\ Spaced(after, m + Len(part))
    /\ Gotten(after) = Gotten(gathering) \o part

\* A part opens a group after blocks that it is apart from.
LEMMA NextOpens ==
  ASSUME NEW m \in Nat, NEW origins, NEW gathering, NEW part, NEW path, NEW kind,
         Sound(gathering, m, origins), gathering.group = NoGroup,
         NextPart(part, m, path, kind, origins),
         LastApart(gathering.blocks, path, GroupType(kind), <<part>>)
  PROVE  Went(gathering, Settled(With(gathering, part, path, kind)), part, m, origins)
<1> DEFINE g == Extended(NoGroup, part, path, kind)
           after == With(gathering, part, path, kind)
           bs == gathering.blocks
<1>1. gathering \in Gatherings /\ BlocksSound(bs, m, origins)
  BY DEF Sound
<1>2. Len(part) \in Nat \ {0} /\ part \in Text
  BY NextPartSound DEF NextPart
<1>3. m + Len(part) \in Nat /\ m <= m + Len(part)
  BY <1>2
<1>4. BlocksSound(bs, m + Len(part), origins)
  BY <1>1, <1>3, SoundLater
<1>5. /\ GroupSound(g, m + Len(part), origins)
      /\ FlattenSeq(g.parts) = part /\ g.parts = <<part>>
      /\ g.path = path /\ g.type = GroupType(kind)
  BY GroupOpens
<1>6. after.blocks = bs /\ after.group = g
  BY DEF With
<1>7. after \in Gatherings
  BY <1>1, <1>5 DEF With, Gatherings, GroupSound
<1> HIDE DEF g, after
<1>8. /\ Sound(Settled(after), m + Len(part), origins) /\ Spaced(Settled(after), m + Len(part))
      /\ Gotten(Settled(after)) = Gotten(after)
  <2>1. LastApart(after.blocks, after.group.path, after.group.type, after.group.parts)
    BY <1>5, <1>6
  <2>2. BlocksSound(after.blocks, m + Len(part), origins)
        /\ GroupSound(after.group, m + Len(part), origins)
    BY <1>4, <1>5, <1>6
  <2>3. QED
    BY <1>3, <1>7, <2>1, <2>2, SettledSound
<1>9. Gotten(after) = Gotten(gathering) \o part
  <2>1. FlattenSeq(Texts(bs)) \in Text
    BY <1>1, GottenType
  <2>2. FlattenSeq(NoGroup.parts) = <<>>
    BY FlattenNone DEF NoGroup
  <2>3. FlattenSeq(Texts(bs)) \o <<>> = FlattenSeq(Texts(bs))
    BY <2>1, TextEmpty, Zenon
  <2>4. Gotten(gathering) = FlattenSeq(Texts(bs))
    BY <2>2, <2>3 DEF Gotten
  <2>5. Gotten(after) = FlattenSeq(Texts(bs)) \o part
    BY <1>5, <1>6 DEF Gotten
  <2>6. QED
    BY <2>4, <2>5
<1>10. Went(gathering, Settled(after), part, m, origins)
  BY <1>8, <1>9 DEF Went
<1>11. QED
  BY <1>10 DEF after

\* A part goes on with the group that is open, when it fits.
LEMMA NextGrows ==
  ASSUME NEW m \in Nat, NEW origins, NEW gathering, NEW part, NEW path, NEW kind,
         Sound(gathering, m, origins), gathering.group # NoGroup,
         NextPart(part, m, path, kind, origins),
         ~Changed(gathering.group, path, kind),
         gathering.group.tokens + Tokens(Len(part)) <= BlockMax
  PROVE  Went(gathering, Settled(With(gathering, part, path, kind)), part, m, origins)
<1> DEFINE h == gathering.group
           g == Extended(h, part, path, kind)
           after == With(gathering, part, path, kind)
           bs == gathering.blocks
<1>1. /\ gathering \in Gatherings /\ BlocksSound(bs, m, origins)
      /\ GroupSound(h, m, origins) /\ LastApart(bs, h.path, h.type, h.parts)
  BY DEF Sound
<1>2. Len(part) \in Nat \ {0} /\ part \in Text
  BY NextPartSound DEF NextPart
<1>3. m + Len(part) \in Nat /\ m <= m + Len(part)
  BY <1>2
<1>4. BlocksSound(bs, m + Len(part), origins)
  BY <1>1, <1>3, SoundLater
<1>5. h.path = path /\ h.type = GroupType(kind) /\ h.tokens + Tokens(Len(part)) <= BlockMax
  BY DEF Changed
<1>6. /\ GroupSound(g, m + Len(part), origins)
      /\ FlattenSeq(g.parts) = FlattenSeq(h.parts) \o part
      /\ Head(FlattenSeq(g.parts)) = Head(FlattenSeq(h.parts)) /\ Head(g.parts) = Head(h.parts)
      /\ g.path = path /\ g.type = GroupType(kind)
  <2> HIDE DEF h
  <2>1. GroupSound(h, m, origins)
    BY <1>1
  <2>2. Grown(h, g, part, path, kind, m, origins)
    BY <1>5, <2>1, GroupGrows
  <2>3. QED
    BY <2>2 DEF Grown
<1>7. after.blocks = bs /\ after.group = g
  BY DEF With
<1>8. after \in Gatherings
  BY <1>1, <1>6 DEF With, Gatherings, GroupSound
<1>9. LastApart(bs, g.path, g.type, g.parts)
  BY <1>1, <1>5, <1>6 DEF LastApart, Apart
<1> HIDE DEF g, after
<1>10. /\ Sound(Settled(after), m + Len(part), origins) /\ Spaced(Settled(after), m + Len(part))
       /\ Gotten(Settled(after)) = Gotten(after)
  <2>1. LastApart(after.blocks, after.group.path, after.group.type, after.group.parts)
    BY <1>7, <1>9
  <2>2. BlocksSound(after.blocks, m + Len(part), origins)
        /\ GroupSound(after.group, m + Len(part), origins)
    BY <1>4, <1>6, <1>7
  <2>3. QED
    BY <1>3, <1>8, <2>1, <2>2, SettledSound
<1>11. Gotten(after) = Gotten(gathering) \o part
  <2>1. FlattenSeq(Texts(bs)) \in Text /\ FlattenSeq(h.parts) \in Text
    BY <1>1, GottenType
  <2>2. (FlattenSeq(Texts(bs)) \o FlattenSeq(h.parts)) \o part
            = FlattenSeq(Texts(bs)) \o (FlattenSeq(h.parts) \o part)
    <3>1. part \in Text
      BY <1>2
    <3>2. QED
      BY <2>1, <3>1, TextAssociative, Zenon
  <2>3. Gotten(after) = FlattenSeq(Texts(bs)) \o (FlattenSeq(h.parts) \o part)
    BY <1>6, <1>7 DEF Gotten
  <2>4. QED
    BY <2>2, <2>3 DEF Gotten
<1>12. Went(gathering, Settled(after), part, m, origins)
  BY <1>10, <1>11 DEF Went
<1>13. QED
  BY <1>12 DEF after

\* Gather is one or the other.
LEMMA GatherIs ==
  ASSUME NEW gathering \in Gatherings, NEW part, NEW path, NEW kind
  PROVE  LET g == gathering.group
             full == g.tokens + Tokens(Len(part)) > BlockMax IN
         /\ g.parts # <<>> /\ (Changed(g, path, kind) \/ full) =>
                Gather(gathering, part, path, kind) = Settled(With(Flush(gathering), part, path, kind))
         /\ ~(g.parts # <<>> /\ (Changed(g, path, kind) \/ full)) =>
                Gather(gathering, part, path, kind) = Settled(With(gathering, part, path, kind))
<1> DEFINE g == gathering.group
           cut == g.parts # <<>> /\ (Changed(g, path, kind) \/ g.tokens + Tokens(Len(part)) > BlockMax)
           before == IF cut THEN Flush(gathering) ELSE gathering
           after == [before EXCEPT !.group =
                        [path |-> path, type |-> GroupType(kind), kinds |-> @.kinds \cup {kind},
                         parts |-> Append(@.parts, part), tokens |-> @.tokens + Tokens(Len(part))]]
<1>1. gathering = [blocks |-> gathering.blocks, group |-> g]
  BY DEF Gatherings
<1>2. before = [blocks |-> before.blocks, group |-> before.group]
  BY <1>1 DEF Flush
<1>3. after = With(before, part, path, kind)
  <2>1. \A b, h, k : [[blocks |-> b, group |-> h] EXCEPT !.group = k] = [blocks |-> b, group |-> k]
    OBVIOUS
  <2>2. PICK b : b = before
    OBVIOUS
  <2>3. b = [blocks |-> b.blocks, group |-> b.group]
    BY <1>2, <2>2
  <2>4. [b EXCEPT !.group = Extended(b.group, part, path, kind)]
            = [blocks |-> b.blocks, group |-> Extended(b.group, part, path, kind)]
    BY <2>1, <2>3
  <2>5. QED
    BY <2>2, <2>4 DEF With, Extended
<1>4. Gather(gathering, part, path, kind) = Settled(after)
  BY DEF Gather, Settled
<1>5. QED
  BY <1>3, <1>4

\* One turn of the loop over the parts.
LEMMA GatherSound ==
  ASSUME NEW m \in Nat, NEW origins, NEW gathering, NEW part, NEW path, NEW kind,
         Sound(gathering, m, origins), Spaced(gathering, m),
         NextPart(part, m, path, kind, origins)
  PROVE  Went(gathering, Gather(gathering, part, path, kind), part, m, origins)
<1> DEFINE g == gathering.group
           bs == gathering.blocks
<1>1. gathering \in Gatherings /\ bs \in Seq(Block)
  BY DEF Sound, Gatherings
<1>2. /\ Len(part) \in Nat \ {0} /\ Head(part) = m + 1 /\ Tokens(Len(part)) \in 1..BlockMax
      /\ FlattenSeq(<<part>>) = part /\ Head(<<part>>) = part
  <2>1. Len(part) \in Nat \ {0} /\ Head(part) = m + 1 /\ Tokens(Len(part)) \in 1..BlockMax
    BY NextPartSound
  <2>2. FlattenSeq(<<part>>) = part /\ Head(<<part>>) = part
    BY FlattenOne
  <2>3. QED
    BY <2>1, <2>2
<1>3. CASE g = NoGroup
  <2>1. Gather(gathering, part, path, kind) = Settled(With(gathering, part, path, kind))
    <3>1. g.parts = <<>>
      BY <1>3 DEF NoGroup
    <3>2. QED
      BY <1>1, <3>1, GatherIs
  <2>2. LastApart(bs, path, GroupType(kind), <<part>>)
    <3> SUFFICES ASSUME bs # <<>> PROVE Apart(Last(bs), path, GroupType(kind), <<part>>)
      BY DEF LastApart
    <3>1. Full(Last(bs).parts) \/ Last(Words(Last(bs))) < m
      BY <1>3 DEF Spaced
    <3>2. Last(Words(Last(bs))) < m => Last(Words(Last(bs))) + 1 # m + 1
      <4>1. Len(bs) \in 1..Len(bs)
        BY <1>1
      <4>2. BlockSound(Last(bs), m, origins)
        BY <4>1 DEF Last, Sound, BlocksSound
      <4>3. Last(Words(Last(bs))) \in Nat
        BY <4>2, LastWord
      <4>4. QED
        BY <4>3
    <3>3. QED
      BY <1>2, <3>1, <3>2 DEF Apart
  <2>3. QED
    BY <1>3, <2>1, <2>2, NextOpens
<1>4. CASE /\ g # NoGroup
           /\ Changed(g, path, kind) \/ g.tokens + Tokens(Len(part)) > BlockMax
  <2>1. /\ GroupSound(g, m, origins) /\ BlocksSound(bs, m, origins)
        /\ LastApart(bs, g.path, g.type, g.parts)
    BY <1>4 DEF Sound
  <2>2. g.parts # <<>> /\ g.tokens = PartTokens(g.parts)
    BY <2>1 DEF GroupSound, SoundParts
  <2>3. Gather(gathering, part, path, kind) = Settled(With(Flush(gathering), part, path, kind))
    BY <1>1, <1>4, <2>2, GatherIs
  <2>4. /\ Flush(gathering) = [blocks |-> Append(bs, Closed(g)), group |-> NoGroup]
        /\ Sound(Flush(gathering), m, origins)
        /\ Gotten(Flush(gathering)) = Gotten(gathering)
    BY <1>1, <2>1, CloseGroup
  <2>5. Flush(gathering).blocks = Append(bs, Closed(g)) /\ Flush(gathering).group = NoGroup
    BY <2>4
  <2>6. /\ Closed(g) \in Block /\ Closed(g).parts = g.parts /\ Closed(g).path = g.path
        /\ GroupType(Closed(g).kind) = g.type
    BY <2>1, ClosedSound DEF BlockSound
  <2>7. Last(Append(bs, Closed(g))) = Closed(g)
    <3>1. /\ Len(Append(bs, Closed(g))) = Len(bs) + 1
          /\ Append(bs, Closed(g))[Len(bs) + 1] = Closed(g)
      BY <1>1, <2>6, AppendProperties
    <3>2. QED
      BY <3>1 DEF Last
  <2>8. Apart(Closed(g), path, GroupType(kind), <<part>>)
    <3>1. CASE Changed(g, path, kind)
      BY <2>6, <3>1 DEF Changed, Apart
    <3>2. CASE g.tokens + Tokens(Len(part)) > BlockMax
      BY <1>2, <2>2, <2>6, <3>2 DEF Apart
    <3>3. QED
      BY <1>4, <3>1, <3>2
  <2>9. LastApart(Flush(gathering).blocks, path, GroupType(kind), <<part>>)
    BY <2>5, <2>7, <2>8 DEF LastApart
  <2>10. QED
    <3>1. Went(Flush(gathering), Gather(gathering, part, path, kind), part, m, origins)
      BY <2>3, <2>4, <2>5, <2>9, NextOpens
    <3>2. QED
      BY <2>4, <3>1 DEF Went
<1>5. CASE /\ g # NoGroup
           /\ ~(Changed(g, path, kind) \/ g.tokens + Tokens(Len(part)) > BlockMax)
  <2>1. Gather(gathering, part, path, kind) = Settled(With(gathering, part, path, kind))
    BY <1>1, <1>5, GatherIs
  <2>2. g.tokens + Tokens(Len(part)) <= BlockMax
    <3>1. g.tokens \in Nat /\ BlockMax \in Nat
      BY <1>1, EvidenceAssumption DEF Gatherings, Group
    <3>2. QED
      BY <1>2, <1>5, <3>1
  <2>3. QED
    BY <1>5, <2>1, <2>2, NextGrows
<1>6. QED
  BY <1>3, <1>4, <1>5

(***************************************************************************)
(* The loop over the parts of an element.                                  *)
(***************************************************************************)
Gathers(gathering, parts, path, kind, N, f) ==
    f = [n \in 0..N |-> IF n = 0 THEN gathering ELSE Gather(f[n - 1], parts[n], path, kind)]

\* It is defined.
LEMMA GathersExist ==
  ASSUME NEW gathering, NEW parts, NEW path, NEW kind, NEW N \in Nat
  PROVE  \E f : Gathers(gathering, parts, path, kind, N, f)
<1> DEFINE S == {n \in Nat : \E f : Gathers(gathering, parts, path, kind, n, f)}
<1>1. 0 \in S
  <2>1. Gathers(gathering, parts, path, kind, 0, [n \in 0..0 |-> gathering])
    BY DEF Gathers
  <2>2. QED
    BY <2>1
<1>2. ASSUME NEW n \in Nat, n \in S PROVE n + 1 \in S
  <2>1. PICK f : Gathers(gathering, parts, path, kind, n, f)
    BY <1>2
  <2> DEFINE g == [i \in 0..(n + 1) |-> IF i = n + 1 THEN Gather(f[n], parts[n + 1], path, kind)
                                        ELSE f[i]]
  <2>2. ASSUME NEW i \in 0..(n + 1)
        PROVE  g[i] = IF i = 0 THEN gathering ELSE Gather(g[i - 1], parts[i], path, kind)
    <3>1. CASE i = n + 1
      BY <3>1
    <3>2. CASE i # n + 1
      <4>1. i \in 0..n /\ g[i] = f[i]
        BY <3>2
      <4>2. f[i] = IF i = 0 THEN gathering ELSE Gather(f[i - 1], parts[i], path, kind)
        BY <2>1, <4>1 DEF Gathers
      <4>3. i # 0 => g[i - 1] = f[i - 1]
        BY <4>1
      <4>4. QED
        BY <4>1, <4>2, <4>3
    <3>3. QED
      BY <3>1, <3>2
  <2>3. Gathers(gathering, parts, path, kind, n + 1, g)
    BY <2>2 DEF Gathers
  <2>4. QED
    BY <2>3
<1> HIDE DEF S
<1>3. \A n \in Nat : n \in S
  BY <1>1, <1>2, InductionOnSet
<1>4. QED
  BY <1>3 DEF S

\* Its first value, and what each turn makes of the one before.
LEMMA GathersGo ==
  ASSUME NEW gathering, NEW parts, NEW path, NEW kind, NEW N \in Nat, NEW f,
         Gathers(gathering, parts, path, kind, N, f)
  PROVE  f[0] = gathering /\ \A n \in 1..N : f[n] = Gather(f[n - 1], parts[n], path, kind)
BY DEF Gathers

\* GatherAll is its last.
LEMMA GatherAllIs ==
  ASSUME NEW gathering, NEW parts, NEW path, NEW kind, Len(parts) \in Nat
  PROVE  \E f : /\ Gathers(gathering, parts, path, kind, Len(parts), f)
                /\ GatherAll(gathering, parts, path, kind) = f[Len(parts)]
<1> DEFINE f == CHOOSE f : Gathers(gathering, parts, path, kind, Len(parts), f)
<1>1. Gathers(gathering, parts, path, kind, Len(parts), f)
  BY GathersExist
<1>2. GatherAll(gathering, parts, path, kind) = f[Len(parts)]
  BY DEF GatherAll, Gathers
<1> HIDE DEF f
<1>3. QED
  BY <1>1, <1>2

\* The text is the words after the first m, of an element that is no heading.
NextText(text, m, path, kind, origins) ==
    /\ text \in Text
    /\ \A i \in 1..Len(text) : text[i] = m + i /\ <<m + i, path, GroupType(kind)>> \in origins
    /\ path \in Seq(STRING) /\ kind \in BlockKind

\* The first k words of it are gathered.
Read(gathering, after, text, k, m, origins) ==
    /\ Sound(after, m + k, origins) /\ Spaced(after, m + k)
    /\ Gotten(after) = Gotten(gathering) \o SubSeq(text, 1, k)

IsNext(parts, text, c, n, m, path, kind, origins) ==
    /\ NextPart(parts[n], m + c[n - 1], path, kind, origins)
    /\ c[n - 1] \in Nat /\ c[n] \in Nat /\ Len(parts[n]) = c[n] - c[n - 1]
    /\ parts[n] \in Text /\ SubSeq(text, 1, c[n - 1]) \in Text
    /\ SubSeq(text, 1, c[n - 1]) \o parts[n] = SubSeq(text, 1, c[n])

\* A part of such a text is the next part.
LEMMA PartIsNext ==
  ASSUME NEW m \in Nat, NEW origins, NEW text, NEW parts \in Seq(Text), NEW path, NEW kind, NEW c,
         NextText(text, m, path, kind, origins), Cuts(parts, text, c, BlockMax),
         NEW n \in 1..Len(parts)
  PROVE  IsNext(parts, text, c, n, m, path, kind, origins)
<1>1. CutAt(Nat, parts, text, c, BlockMax, n)
  <2>1. text \in Seq(Nat) /\ parts \in Seq(Seq(Nat))
    BY DEF NextText, Text
  <2>2. QED
    BY <2>1, CutsJoin
<1>2. c[n - 1] \in 0..Len(text) /\ c[n] \in 0..Len(text) /\ c[n - 1] < c[n]
  <2>1. n - 1 \in 0..Len(parts) /\ n \in 0..Len(parts)
    OBVIOUS
  <2>2. QED
    BY <2>1 DEF Cuts
<1>3. PICK a \in Nat, b \in Nat, l \in Nat :
        a = c[n - 1] /\ b = c[n] /\ l = Len(text) /\ a < b /\ b <= l
  <2>1. Len(text) \in Nat
    BY DEF NextText, Text
  <2>2. QED
    BY <1>2, <2>1
<1>4. /\ parts[n] \in Text /\ parts[n] # <<>> /\ Tokens(Len(parts[n])) <= BlockMax
      /\ Len(parts[n]) = b - a
      /\ \A i \in 1..Len(parts[n]) : parts[n][i] = text[a + i]
  BY <1>1, <1>3 DEF CutAt, Text
<1>5. \A i \in 1..(b - a) : a + i \in 1..l /\ m + (a + i) = (m + a) + i
  BY <1>3, SMTT(30)
<1>6. \A i \in 1..l : text[i] = m + i /\ <<m + i, path, GroupType(kind)>> \in origins
  BY <1>3 DEF NextText
<1>7. \A i \in 1..(b - a) :
        text[a + i] = (m + a) + i /\ <<(m + a) + i, path, GroupType(kind)>> \in origins
  <2> SUFFICES ASSUME NEW i \in 1..(b - a)
               PROVE  text[a + i] = (m + a) + i /\ <<(m + a) + i, path, GroupType(kind)>> \in origins
    OBVIOUS
  <2>1. text[a + i] = m + (a + i) /\ <<m + (a + i), path, GroupType(kind)>> \in origins
    BY <1>5, <1>6
  <2>2. QED
    BY <1>5, <2>1
<1>8. NextPart(parts[n], m + a, path, kind, origins)
  <2>1. path \in Seq(STRING) /\ kind \in BlockKind
    BY DEF NextText
  <2>2. \A i \in 1..Len(parts[n]) :
            parts[n][i] = (m + a) + i /\ <<(m + a) + i, path, GroupType(kind)>> \in origins
    BY <1>4, <1>7
  <2>3. QED
    BY <1>4, <2>1, <2>2 DEF NextPart
<1>9. SubSeq(text, 1, c[n - 1]) \in Text /\ SubSeq(text, 1, c[n - 1]) \o parts[n] = SubSeq(text, 1, c[n])
  BY <1>1 DEF CutAt, Text
<1>10. QED
  BY <1>3, <1>4, <1>8, <1>9 DEF IsNext

\* Gathering the parts of a text gathers the text.
LEMMA GatherAllSound ==
  ASSUME NEW m \in Nat, NEW origins, NEW gathering, NEW text, NEW parts \in Seq(Text),
         NEW path, NEW kind, NEW c,
         Sound(gathering, m, origins), Spaced(gathering, m),
         NextText(text, m, path, kind, origins), Cuts(parts, text, c, BlockMax)
  PROVE  Read(gathering, GatherAll(gathering, parts, path, kind), text, Len(text), m, origins)
<1>1. PICK N \in Nat : N = Len(parts)
  OBVIOUS
<1>2. PICK f : /\ f[0] = gathering /\ GatherAll(gathering, parts, path, kind) = f[N]
               /\ \A n \in 1..N : f[n] = Gather(f[n - 1], parts[n], path, kind)
  <2>1. PICK f : /\ Gathers(gathering, parts, path, kind, N, f)
                 /\ GatherAll(gathering, parts, path, kind) = f[N]
    BY <1>1, GatherAllIs
  <2>2. f[0] = gathering /\ \A n \in 1..N : f[n] = Gather(f[n - 1], parts[n], path, kind)
    BY <2>1, GathersGo
  <2>3. QED
    BY <2>1, <2>2
<1> DEFINE S == {n \in Nat : n <= N => Read(gathering, f[n], text, c[n], m, origins)}
<1>3. Gotten(gathering) \in Text
  <2>1. gathering \in Gatherings
    BY DEF Sound
  <2>2. QED
    BY <2>1, GottenType, TextJoins DEF Gotten
<1>4. 0 \in S
  <2>1. c[0] = 0 /\ SubSeq(text, 1, 0) = <<>> /\ m + 0 = m
    BY SubSeqEmpty DEF Cuts
  <2>2. Gotten(gathering) \o <<>> = Gotten(gathering)
    BY <1>3, TextEmpty
  <2>3. Read(gathering, f[0], text, c[0], m, origins)
    BY <1>2, <2>1, <2>2 DEF Read
  <2>4. QED
    BY <2>3
<1>5. ASSUME NEW n \in Nat, n \in S PROVE n + 1 \in S
  <2>1. CASE n + 1 <= N
    <3>1. PICK k \in 1..Len(parts) : k = n + 1 /\ k - 1 = n /\ n <= N /\ k \in 1..N
      BY <1>1, <2>1
    <3>2. /\ NextPart(parts[k], m + c[k - 1], path, kind, origins)
          /\ c[k - 1] \in Nat /\ c[k] \in Nat /\ Len(parts[k]) = c[k] - c[k - 1]
          /\ parts[k] \in Text /\ SubSeq(text, 1, c[k - 1]) \in Text
          /\ SubSeq(text, 1, c[k - 1]) \o parts[k] = SubSeq(text, 1, c[k])
      <4>1. IsNext(parts, text, c, k, m, path, kind, origins)
        BY PartIsNext
      <4>2. QED
        BY <4>1 DEF IsNext
    <3>3. Read(gathering, f[n], text, c[n], m, origins)
      BY <1>5, <3>1
    <3>4. Sound(f[n], m + c[n], origins) /\ Spaced(f[n], m + c[n])
      BY <3>3 DEF Read
    <3>5. NextPart(parts[k], m + c[n], path, kind, origins) /\ m + c[n] \in Nat
      BY <3>1, <3>2
    <3>6. Went(f[n], Gather(f[n], parts[k], path, kind), parts[k], m + c[n], origins)
      BY <3>4, <3>5, GatherSound
    <3>7. f[k] = Gather(f[n], parts[k], path, kind)
      BY <1>2, <3>1
    <3>8. (m + c[n]) + Len(parts[k]) = m + c[k]
      BY <3>1, <3>2
    <3>9. Sound(f[k], m + c[k], origins) /\ Spaced(f[k], m + c[k])
      BY <3>6, <3>7, <3>8 DEF Went
    <3>10. Gotten(f[k]) = Gotten(gathering) \o SubSeq(text, 1, c[k])
      <4>1. Gotten(f[k]) = Gotten(f[n]) \o parts[k]
        BY <3>6, <3>7 DEF Went
      <4>2. Gotten(f[n]) = Gotten(gathering) \o SubSeq(text, 1, c[n])
        BY <3>3 DEF Read
      <4>3. SubSeq(text, 1, c[n]) \in Text /\ parts[k] \in Text
            /\ SubSeq(text, 1, c[n]) \o parts[k] = SubSeq(text, 1, c[k])
        BY <3>1, <3>2
      <4>4. (Gotten(gathering) \o SubSeq(text, 1, c[n])) \o parts[k]
                = Gotten(gathering) \o (SubSeq(text, 1, c[n]) \o parts[k])
        BY <1>3, <4>3, TextAssociative, Zenon
      <4>5. QED
        BY <4>1, <4>2, <4>3, <4>4, Zenon
    <3>11. Read(gathering, f[k], text, c[k], m, origins)
      BY <3>9, <3>10 DEF Read
    <3>12. QED
      BY <3>1, <3>11
  <2>2. QED
    BY <2>1
<1> HIDE DEF S
<1>6. \A n \in Nat : n \in S
  BY <1>4, <1>5, InductionOnSet
<1>7. Read(gathering, f[N], text, c[N], m, origins)
  BY <1>6 DEF S
<1>8. c[N] = Len(text)
  BY <1>1 DEF Cuts
<1>9. QED
  BY <1>2, <1>7, <1>8

-----------------------------------------------------------------------------
(***************************************************************************)
(* The document: where its elements begin, its body and its origins.       *)
(***************************************************************************)
Element == [kind : BlockKind, path : Seq(STRING), length : Nat]

Lengths(doc, k) == [n \in 1..k |-> doc[n].length]

Off(doc, i) == Total(Lengths(doc, i - 1))

ElementText(doc, i) ==
    IF doc[i].kind = "heading" THEN <<>> ELSE [j \in 1..doc[i].length |-> Off(doc, i) + j]

ElementTexts(doc) == [i \in DOMAIN doc |-> ElementText(doc, i)]

Types == {"none", "table", "body"} \cup BlockKind

Origins(doc) ==
    {o \in Nat \X Seq(STRING) \X Types : \E i \in 1..Len(doc) :
        /\ Off(doc, i) < o[1] /\ o[1] <= Off(doc, i) + doc[i].length
        /\ doc[i].path = o[2] /\ GroupType(doc[i].kind) = o[3]}

\* They are what the module says of the document.
LEMMA DocumentIs ==
  /\ \A i : Offset(i) = Off(document, i)
  /\ Body = FlattenSeq(ElementTexts(document))
<1>1. \A i : Offset(i) = Off(document, i)
  BY DEF Offset, Off, Lengths
<1>2. QED
  BY <1>1 DEF Body, ElementTexts, ElementText

\* An element has a number of words.
LEMMA LengthType == ASSUME NEW doc \in Seq(Element), NEW i \in 1..Len(doc) PROVE doc[i].length \in Nat
<1>1. doc[i] \in Element
  BY ElementOfSeq
<1>2. QED
  BY <1>1 DEF Element

\* Each element begins where the one before ends.
LEMMA OffNext ==
  ASSUME NEW doc \in Seq(Element), NEW i \in 1..Len(doc)
  PROVE  /\ Off(doc, i) \in Nat /\ Off(doc, i + 1) \in Nat
         /\ Off(doc, i + 1) = Off(doc, i) + doc[i].length
<1>1. \A n \in 1..Len(doc) : doc[n].length \in Nat
  BY LengthType
<1>2. PICK k \in Nat : k = i - 1 /\ i = k + 1
  OBVIOUS
<1>3. Lengths(doc, k) \in [1..k -> Nat]
  <2>1. \A n \in 1..k : n \in 1..Len(doc)
    BY <1>2
  <2>2. \A n \in 1..k : doc[n].length \in Nat
    BY <1>1, <2>1
  <2>3. QED
    BY <2>2 DEF Lengths
<1>4. PICK l : l = doc[i].length /\ l \in Nat
  BY <1>1
<1>5. Longer(Lengths(doc, k + 1), Lengths(doc, k), k, l)
  <2>1. \A n \in 1..(k + 1) : n # k + 1 => n \in 1..k /\ Lengths(doc, k)[n] = doc[n].length
    BY DEF Lengths
  <2>2. \A n \in 1..(k + 1) :
            doc[n].length = IF n = k + 1 THEN l ELSE Lengths(doc, k)[n]
    BY <1>2, <1>4, <2>1
  <2>3. QED
    BY <2>2 DEF Lengths, Longer
<1>6. Lengths(doc, k) \in Seq(Nat) /\ Lengths(doc, k + 1) = Append(Lengths(doc, k), l)
  <2>1. PICK f, g : f = Lengths(doc, k) /\ g = Lengths(doc, k + 1)
    OBVIOUS
  <2>2. f \in [1..k -> Nat]
    BY <1>3, <2>1
  <2>3. Longer(g, f, k, l)
    BY <1>5, <2>1
  <2>4. l \in Nat
    BY <1>4
  <2>5. f \in Seq(Nat) /\ g = Append(f, l)
    BY <2>2, <2>3, <2>4, LongerAppends
  <2>6. QED
    BY <2>1, <2>5
<1>7. Total(Lengths(doc, k)) \in Nat
      /\ Total(Lengths(doc, k + 1)) = Total(Lengths(doc, k)) + l
  BY <1>4, <1>6, TotalType, TotalOfMore
<1>8. (i + 1) - 1 = k + 1
  BY <1>2
<1>9. QED
  BY <1>2, <1>4, <1>7, <1>8 DEF Off

\* The first begins at the beginning.
LEMMA OffFirst == ASSUME NEW doc PROVE Off(doc, 1) = 0
<1>1. Lengths(doc, 1 - 1) = <<>>
  BY DEF Lengths
<1>2. QED
  BY <1>1, TotalOfNone DEF Off

\* Every element ends at a number.
LEMMA OffType ==
  ASSUME NEW doc \in Seq(Element), NEW i \in 1..(Len(doc) + 1)
  PROVE  Off(doc, i) \in Nat
<1>1. CASE i = 1
  BY <1>1, OffFirst
<1>2. CASE i # 1
  <2>1. PICK k \in 1..Len(doc) : i = k + 1
    BY <1>2
  <2>2. Off(doc, k + 1) \in Nat
    BY OffNext
  <2>3. QED
    BY <2>1, <2>2
<1>3. QED
  BY <1>1, <1>2

\* An element ends before the ones after it begin.
LEMMA OffOrdered ==
  ASSUME NEW doc \in Seq(Element), NEW i \in 1..Len(doc), NEW j \in 1..Len(doc), i < j
  PROVE  Off(doc, i) + doc[i].length <= Off(doc, j)
<1> DEFINE S == {n \in Nat : i + 1 + n <= Len(doc) => Off(doc, i + 1) <= Off(doc, i + 1 + n)}
<1>1. Off(doc, i + 1) = Off(doc, i) + doc[i].length /\ Off(doc, i + 1) \in Nat
  BY OffNext
<1>2. 0 \in S
  <2>1. i + 1 + 0 = i + 1
    OBVIOUS
  <2>2. Off(doc, i + 1) <= Off(doc, i + 1 + 0)
    BY <1>1, <2>1
  <2>3. QED
    BY <2>2
<1>3. ASSUME NEW n \in Nat, n \in S PROVE n + 1 \in S
  <2> SUFFICES ASSUME i + 1 + (n + 1) <= Len(doc)
               PROVE  Off(doc, i + 1) <= Off(doc, i + 1 + (n + 1))
    OBVIOUS
  <2>1. PICK k \in 1..Len(doc) : k = i + 1 + n /\ k + 1 = i + 1 + (n + 1) /\ i + 1 + n <= Len(doc)
    OBVIOUS
  <2>2. Off(doc, i + 1) <= Off(doc, k)
    BY <1>3, <2>1
  <2>3. /\ Off(doc, k) \in Nat /\ Off(doc, k + 1) \in Nat
        /\ Off(doc, k + 1) = Off(doc, k) + doc[k].length
    BY OffNext
  <2>4. doc[k].length \in Nat
    BY LengthType
  <2>5. Off(doc, k) <= Off(doc, k + 1)
    BY <2>3, <2>4
  <2>6. QED
    BY <1>1, <2>1, <2>2, <2>3, <2>5
<1> HIDE DEF S
<1>4. \A n \in Nat : n \in S
  BY <1>2, <1>3, InductionOnSet
<1>5. PICK n \in Nat : i + 1 + n = j
  <2>1. j - i - 1 \in Nat /\ i + 1 + (j - i - 1) = j
    OBVIOUS
  <2>2. QED
    BY <2>1
<1>6. Off(doc, i + 1) <= Off(doc, i + 1 + n)
  <2>1. i + 1 + n <= Len(doc)
    BY <1>5
  <2>2. QED
    BY <1>4, <2>1 DEF S
<1>7. QED
  BY <1>1, <1>5, <1>6

\* An element more leaves the others in their places.
LEMMA OffStays ==
  ASSUME NEW doc \in Seq(Element), NEW e \in Element, NEW i \in 1..(Len(doc) + 1)
  PROVE  Off(Append(doc, e), i) = Off(doc, i)
<1>1. \A n \in 1..(i - 1) : Append(doc, e)[n] = doc[n]
  <2>1. \A n \in 1..Len(doc) : Append(doc, e)[n] = doc[n]
    BY AppendProperties
  <2>2. \A n \in 1..(i - 1) : n \in 1..Len(doc)
    OBVIOUS
  <2>3. QED
    BY <2>1, <2>2
<1>2. Lengths(Append(doc, e), i - 1) = Lengths(doc, i - 1)
  BY <1>1 DEF Lengths
<1>3. QED
  BY <1>2 DEF Off

NewText(doc, e) ==
    LET m == Off(doc, Len(doc) + 1) IN
    IF e.kind = "heading" THEN <<>> ELSE [j \in 1..e.length |-> m + j]

\* The texts of the elements are texts, and the new element's comes last.
LEMMA BodyGrows ==
  ASSUME NEW doc \in Seq(Element), NEW e \in Element
  PROVE  /\ FlattenSeq(ElementTexts(doc)) \in Text /\ NewText(doc, e) \in Text
         /\ FlattenSeq(ElementTexts(Append(doc, e)))
                = FlattenSeq(ElementTexts(doc)) \o NewText(doc, e)
<1>1. PICK n \in Nat : n = Len(doc) /\ DOMAIN doc = 1..n
  OBVIOUS
<1> DEFINE more == Append(doc, e)
<1>2. /\ more \in Seq(Element) /\ Len(more) = n + 1 /\ DOMAIN more = 1..(n + 1)
      /\ more[n + 1] = e /\ \A i \in 1..n : more[i] = doc[i]
  BY <1>1
<1>3. \A i \in 1..(n + 1) : Off(more, i) = Off(doc, i) /\ Off(doc, i) \in Nat
  BY <1>1, OffStays, OffType
<1> HIDE DEF more
<1>4. \A m \in Nat, l \in Nat : [j \in 1..l |-> m + j] \in Text /\ <<>> \in Text
  BY DEF Text
<1>5. \A i \in 1..n : ElementText(doc, i) \in Text
  <2> SUFFICES ASSUME NEW i \in 1..n PROVE ElementText(doc, i) \in Text
    OBVIOUS
  <2>1. Off(doc, i) \in Nat /\ doc[i].length \in Nat
    <3>1. i \in 1..Len(doc) /\ i \in 1..(n + 1)
      BY <1>1
    <3>2. QED
      BY <1>3, <3>1, LengthType
  <2>2. QED
    BY <1>4, <2>1 DEF ElementText
<1>6. NewText(doc, e) \in Text
  <2>1. Off(doc, n + 1) \in Nat /\ e.length \in Nat
    <3>1. n + 1 \in 1..(n + 1)
      OBVIOUS
    <3>2. QED
      BY <1>3, <3>1 DEF Element
  <2>2. QED
    BY <1>1, <1>4, <2>1 DEF NewText
<1>7. ElementTexts(doc) \in [1..n -> Text]
  BY <1>1, <1>5 DEF ElementTexts
<1>8. Longer(ElementTexts(more), ElementTexts(doc), n, NewText(doc, e))
  <2>1. ASSUME NEW i \in 1..(n + 1)
        PROVE  ElementText(more, i) = IF i = n + 1 THEN NewText(doc, e) ELSE ElementTexts(doc)[i]
    <3>1. CASE i = n + 1
      <4>1. more[i] = e /\ Off(more, i) = Off(doc, Len(doc) + 1)
        BY <1>1, <1>2, <1>3, <3>1
      <4>2. QED
        BY <3>1, <4>1 DEF ElementText, NewText
    <3>2. CASE i # n + 1
      <4>1. i \in 1..n
        BY <3>2
      <4>2. more[i] = doc[i] /\ Off(more, i) = Off(doc, i) /\ i \in DOMAIN doc
        BY <1>1, <1>2, <1>3, <4>1
      <4>3. QED
        BY <3>2, <4>2 DEF ElementText, ElementTexts
    <3>3. QED
      BY <3>1, <3>2
  <2>2. QED
    BY <1>2, <2>1 DEF ElementTexts, Longer
<1>9. ElementTexts(doc) \in Seq(Text)
      /\ ElementTexts(more) = Append(ElementTexts(doc), NewText(doc, e))
  BY <1>6, <1>7, <1>8, LongerAppends
<1>10. FlattenSeq(ElementTexts(doc)) \in Text
  BY <1>9, FlattenType DEF Text
<1>11. FlattenSeq(Append(ElementTexts(doc), NewText(doc, e)))
         = FlattenSeq(ElementTexts(doc)) \o NewText(doc, e)
  <2>1. ElementTexts(doc) \in Seq(Seq(Nat)) /\ NewText(doc, e) \in Seq(Nat)
    BY <1>6, <1>9 DEF Text
  <2>2. QED
    BY <2>1, FlattenAppend
<1>12. QED
  BY <1>6, <1>9, <1>10, <1>11 DEF more

\* What is of an element stays so, and the new words are of the new one.
LEMMA OriginsGrow ==
  ASSUME NEW doc \in Seq(Element), NEW e \in Element
  PROVE  LET more == Append(doc, e)
             m == Off(doc, Len(doc) + 1)
         IN  /\ m \in Nat /\ e.length \in Nat /\ Off(more, Len(more) + 1) = m + e.length
             /\ Origins(doc) \subseteq Origins(more)
             /\ \A j \in 1..e.length : <<m + j, e.path, GroupType(e.kind)>> \in Origins(more)
<1> DEFINE more == Append(doc, e)
<1>1. PICK n \in Nat : n = Len(doc)
  OBVIOUS
<1>2. /\ more \in Seq(Element) /\ Len(more) = n + 1
      /\ more[n + 1] = e /\ \A i \in 1..n : more[i] = doc[i]
  BY <1>1
<1>3. \A i \in 1..(n + 1) : Off(more, i) = Off(doc, i) /\ Off(doc, i) \in Nat
  BY <1>1, OffStays, OffType
<1> HIDE DEF more
<1>4. PICK m : m = Off(doc, n + 1) /\ m \in Nat /\ Off(more, n + 1) = m
  <2>1. n + 1 \in 1..(n + 1)
    OBVIOUS
  <2>2. QED
    BY <1>3, <2>1
<1>5. PICK l : l = e.length /\ l \in Nat
  BY DEF Element
<1>6. Off(more, (n + 1) + 1) = m + l
  <2>1. PICK k \in 1..Len(more) : k = n + 1
    BY <1>2
  <2>2. Off(more, k + 1) = Off(more, k) + more[k].length
    BY <1>2, OffNext
  <2>3. QED
    BY <1>2, <1>4, <1>5, <2>1, <2>2
<1>7. Origins(doc) \subseteq Origins(more)
  <2> SUFFICES ASSUME NEW o \in Origins(doc) PROVE o \in Origins(more)
    OBVIOUS
  <2>1. PICK i \in 1..n :
            /\ Off(doc, i) < o[1] /\ o[1] <= Off(doc, i) + doc[i].length
            /\ doc[i].path = o[2] /\ GroupType(doc[i].kind) = o[3]
    BY <1>1 DEF Origins
  <2>2. i \in 1..(n + 1)
    OBVIOUS
  <2>3. Off(more, i) = Off(doc, i) /\ more[i] = doc[i]
    BY <1>2, <1>3, <2>2
  <2>4. /\ Off(more, i) < o[1] /\ o[1] <= Off(more, i) + more[i].length
        /\ more[i].path = o[2] /\ GroupType(more[i].kind) = o[3]
    BY <2>1, <2>3
  <2>5. o \in Nat \X Seq(STRING) \X Types
    BY DEF Origins
  <2>6. QED
    BY <1>2, <2>2, <2>4, <2>5 DEF Origins
<1>8. ASSUME NEW j \in 1..l PROVE <<m + j, e.path, GroupType(e.kind)>> \in Origins(more)
  <2>1. <<m + j, e.path, GroupType(e.kind)>> \in Nat \X Seq(STRING) \X Types
    <3>1. e.path \in Seq(STRING) /\ e.kind \in BlockKind
      BY DEF Element
    <3>2. GroupType(e.kind) \in Types
      BY <3>1 DEF GroupType, BlockKind, Types
    <3>3. m + j \in Nat
      BY <1>4, <1>5
    <3>4. QED
      BY <3>1, <3>2, <3>3
  <2>2. n + 1 \in 1..Len(more)
    BY <1>2
  <2>3. /\ Off(more, n + 1) < m + j /\ m + j <= Off(more, n + 1) + more[n + 1].length
        /\ more[n + 1].path = e.path /\ GroupType(more[n + 1].kind) = GroupType(e.kind)
    <3>1. m < m + j /\ m + j <= m + l
      BY <1>4, <1>5
    <3>2. QED
      BY <1>2, <1>4, <1>5, <3>1
  <2>4. QED
    BY <2>1, <2>2, <2>3 DEF Origins
<1>9. QED
  BY <1>1, <1>2, <1>4, <1>5, <1>6, <1>7, <1>8 DEF more

\* A word is of one element.
LEMMA OriginOne ==
  ASSUME document \in Seq(Element), NEW word, NEW path, NEW type,
         <<word, path, type>> \in Origins(document)
  PROVE  LET e == document[ElementOf(word)] IN e.path = path /\ GroupType(e.kind) = type
<1>1. PICK i \in 1..Len(document) :
        /\ Off(document, i) < word /\ word <= Off(document, i) + document[i].length
        /\ document[i].path = path /\ GroupType(document[i].kind) = type
  BY DEF Origins
<1>2. word \in Nat
  BY DEF Origins
<1>3. DOMAIN document = 1..Len(document)
  OBVIOUS
<1>4. ASSUME NEW j \in 1..Len(document), j # i,
             Off(document, j) < word, word <= Off(document, j) + document[j].length
      PROVE  FALSE
  <2>1. /\ Off(document, i) \in Nat /\ Off(document, j) \in Nat
        /\ document[i].length \in Nat /\ document[j].length \in Nat
    BY OffNext, LengthType
  <2>2. CASE i < j
    <3>1. Off(document, i) + document[i].length <= Off(document, j)
      BY <2>2, OffOrdered
    <3>2. QED
      BY <1>1, <1>2, <1>4, <2>1, <3>1
  <2>3. CASE j < i
    <3>1. Off(document, j) + document[j].length <= Off(document, i)
      BY <2>3, OffOrdered
    <3>2. QED
      BY <1>1, <1>2, <1>4, <2>1, <3>1
  <2>4. QED
    BY <1>4, <2>2, <2>3
<1>5. ElementOf(word) = i
  <2>1. ElementOf(word) = CHOOSE k \in 1..Len(document) :
            Off(document, k) < word /\ word <= Off(document, k) + document[k].length
    BY <1>3, DocumentIs DEF ElementOf
  <2>2. QED
    BY <1>1, <1>4, <2>1
<1>6. QED
  BY <1>1, <1>5

-----------------------------------------------------------------------------
(***************************************************************************)
(* Chunks of blocks bs, of which the first k have been through the loop.   *)
(***************************************************************************)
NumberTexts(bs, numbers) == [i \in DOMAIN numbers |-> Words(bs[numbers[i]])]

TextOf(bs, numbers) == FlattenSeq(NumberTexts(bs, numbers))

FirstTexts(bs, k) == [n \in 1..k |-> Words(bs[n])]

ChunkTexts(cs) == [c \in DOMAIN cs |-> cs[c].words]

Chunk(bs) == [words : Text, blocks : Seq(1..Len(bs)), path : Seq(STRING)]

\* A chunk goes on into another section only while it is short.
Stays(bs, numbers) ==
    \A i \in 1..(Len(numbers) - 1) :
        \/ bs[numbers[i]].path = bs[numbers[i + 1]].path
        \/ Tokens(Len(TextOf(bs, SubSeq(numbers, 1, i)))) < ChunkMin

ChunkSound(bs, c) ==
    /\ c \in Chunk(bs)
    /\ Tokens(Len(c.words)) \in 1..ChunkMax
    /\ Stays(bs, c.blocks)
    /\ \/ c.words = TextOf(bs, c.blocks)
       \/ Len(c.blocks) = 1 /\ Range(c.words) \subseteq Range(TextOf(bs, c.blocks))

CurrentSound(bs, numbers) ==
    /\ numbers \in Seq(1..Len(bs))
    /\ numbers # <<>> => Tokens(Len(TextOf(bs, numbers))) \in 1..ChunkMax
    /\ Stays(bs, numbers)

Chunked(bs, cs, numbers, k) ==
    /\ cs \in Seq(Chunk(bs)) /\ \A c \in 1..Len(cs) : ChunkSound(bs, cs[c])
    /\ CurrentSound(bs, numbers)
    /\ FlattenSeq(ChunkTexts(cs)) \o TextOf(bs, numbers) = FlattenSeq(FirstTexts(bs, k))

\* The words of a block are a text.
LEMMA WordsType ==
  ASSUME NEW bs \in Seq(Block), NEW n \in 1..Len(bs) PROVE Words(bs[n]) \in Text
<1>1. bs[n] \in Block
  BY ElementOfSeq
<1>2. bs[n].parts \in Seq(Seq(Nat))
  BY <1>1 DEF Block, Text
<1>3. QED
  BY <1>2, FlattenType DEF Words, Text

\* Another block's words come last.
LEMMA NumbersGrow ==
  ASSUME NEW bs \in Seq(Block), NEW numbers \in Seq(1..Len(bs)), NEW n \in 1..Len(bs)
  PROVE  /\ TextOf(bs, numbers) \in Text /\ Words(bs[n]) \in Text
         /\ TextOf(bs, Append(numbers, n)) = TextOf(bs, numbers) \o Words(bs[n])
<1>1. PICK k \in Nat : k = Len(numbers) /\ DOMAIN numbers = 1..k
  OBVIOUS
<1> DEFINE more == Append(numbers, n)
<1>2. /\ DOMAIN more = 1..(k + 1) /\ more[k + 1] = n /\ \A i \in 1..k : more[i] = numbers[i]
  BY <1>1
<1> HIDE DEF more
<1>3. NumberTexts(bs, numbers) \in [1..k -> Text]
  <2>1. \A i \in 1..k : Words(bs[numbers[i]]) \in Text
    <3>1. \A i \in 1..k : numbers[i] \in 1..Len(bs)
      BY <1>1
    <3>2. \A j \in 1..Len(bs) : Words(bs[j]) \in Text
      BY WordsType
    <3>3. QED
      BY <3>1, <3>2
  <2>2. QED
    BY <1>1, <2>1 DEF NumberTexts
<1>4. Longer(NumberTexts(bs, more), NumberTexts(bs, numbers), k, Words(bs[n]))
  <2>1. \A i \in 1..(k + 1) :
            i # k + 1 => i \in 1..k /\ NumberTexts(bs, numbers)[i] = Words(bs[numbers[i]])
    BY <1>1 DEF NumberTexts
  <2>2. \A i \in 1..(k + 1) : Words(bs[more[i]])
            = IF i = k + 1 THEN Words(bs[n]) ELSE NumberTexts(bs, numbers)[i]
    BY <1>2, <2>1
  <2>3. QED
    BY <1>2, <2>2 DEF NumberTexts, Longer
<1>5. Words(bs[n]) \in Text
  BY WordsType
<1>6. NumberTexts(bs, numbers) \in Seq(Text)
      /\ NumberTexts(bs, more) = Append(NumberTexts(bs, numbers), Words(bs[n]))
  BY <1>3, <1>4, <1>5, LongerAppends
<1>7. TextOf(bs, numbers) \in Text
  BY <1>6, FlattenType DEF Text, TextOf
<1>8. FlattenSeq(Append(NumberTexts(bs, numbers), Words(bs[n])))
        = FlattenSeq(NumberTexts(bs, numbers)) \o Words(bs[n])
  <2>1. NumberTexts(bs, numbers) \in Seq(Seq(Nat)) /\ Words(bs[n]) \in Seq(Nat)
    BY <1>5, <1>6 DEF Text
  <2>2. QED
    BY <2>1, FlattenAppend
<1>9. QED
  BY <1>5, <1>6, <1>7, <1>8 DEF TextOf, more

\* No blocks, and one.
LEMMA NumbersFew ==
  ASSUME NEW bs \in Seq(Block), NEW n \in 1..Len(bs)
  PROVE  TextOf(bs, <<>>) = <<>> /\ TextOf(bs, <<n>>) = Words(bs[n])
<1>1. NumberTexts(bs, <<>>) = <<>>
  BY DEF NumberTexts
<1>2. TextOf(bs, <<>>) = <<>>
  BY <1>1, FlattenNone DEF TextOf
<1>3. <<>> \in Seq(1..Len(bs)) /\ Append(<<>>, n) = <<n>>
  OBVIOUS
<1>4. TextOf(bs, Append(<<>>, n)) = TextOf(bs, <<>>) \o Words(bs[n]) /\ Words(bs[n]) \in Text
  BY <1>3, NumbersGrow
<1>5. <<>> \o Words(bs[n]) = Words(bs[n])
  BY <1>4, TextEmpty
<1>6. QED
  BY <1>2, <1>3, <1>4, <1>5

\* One block more has been through the loop.
LEMMA FirstGrow ==
  ASSUME NEW bs \in Seq(Block), NEW k \in Nat, k + 1 <= Len(bs)
  PROVE  /\ FlattenSeq(FirstTexts(bs, k)) \in Text
         /\ FlattenSeq(FirstTexts(bs, k + 1)) = FlattenSeq(FirstTexts(bs, k)) \o Words(bs[k + 1])
<1>1. \A n \in 1..(k + 1) : Words(bs[n]) \in Text
  <2>1. \A n \in 1..(k + 1) : n \in 1..Len(bs)
    OBVIOUS
  <2>2. QED
    BY <2>1, WordsType
<1>2. PICK f, g, y : f = FirstTexts(bs, k) /\ g = FirstTexts(bs, k + 1) /\ y = Words(bs[k + 1])
  OBVIOUS
<1>3. f \in [1..k -> Text] /\ y \in Text
  <2>1. k + 1 \in 1..(k + 1) /\ \A n \in 1..k : n \in 1..(k + 1)
    OBVIOUS
  <2>2. QED
    BY <1>1, <1>2, <2>1 DEF FirstTexts
<1>4. Longer(g, f, k, y)
  <2>1. \A n \in 1..(k + 1) : n # k + 1 => n \in 1..k /\ f[n] = Words(bs[n])
    BY <1>2 DEF FirstTexts
  <2>2. \A n \in 1..(k + 1) : Words(bs[n]) = IF n = k + 1 THEN y ELSE f[n]
    BY <1>2, <2>1
  <2>3. QED
    BY <1>2, <2>2 DEF FirstTexts, Longer
<1>5. f \in Seq(Text) /\ g = Append(f, y)
  BY <1>3, <1>4, LongerAppends
<1>6. FlattenSeq(f) \in Text /\ FlattenSeq(Append(f, y)) = FlattenSeq(f) \o y
  <2>1. f \in Seq(Seq(Nat)) /\ y \in Seq(Nat)
    BY <1>3, <1>5 DEF Text
  <2>2. QED
    BY <2>1, FlattenType, FlattenAppend DEF Text
<1>7. QED
  BY <1>2, <1>5, <1>6

\* The texts of chunks, and of more.
LEMMA ChunkTextsJoin ==
  ASSUME NEW bs, NEW cs \in Seq(Chunk(bs)), NEW more \in Seq(Chunk(bs))
  PROVE  /\ cs \o more \in Seq(Chunk(bs)) /\ FlattenSeq(ChunkTexts(cs)) \in Text
         /\ FlattenSeq(ChunkTexts(more)) \in Text
         /\ FlattenSeq(ChunkTexts(cs \o more))
                = FlattenSeq(ChunkTexts(cs)) \o FlattenSeq(ChunkTexts(more))
<1>1. \A s \in Seq(Chunk(bs)) : ChunkTexts(s) \in Seq(Text) /\ Len(ChunkTexts(s)) = Len(s)
  <2> SUFFICES ASSUME NEW s \in Seq(Chunk(bs))
               PROVE  ChunkTexts(s) \in Seq(Text) /\ Len(ChunkTexts(s)) = Len(s)
    OBVIOUS
  <2>1. PICK n \in Nat : n = Len(s) /\ DOMAIN s = 1..n
    OBVIOUS
  <2>2. \A i \in 1..n : s[i].words \in Text
    <3>1. \A i \in 1..n : s[i] \in Chunk(bs)
      BY <2>1
    <3>2. QED
      BY <3>1 DEF Chunk
  <2>3. ChunkTexts(s) \in [1..n -> Text]
    BY <2>1, <2>2 DEF ChunkTexts
  <2>4. QED
    BY <2>1, <2>3
<1>2. PICK m \in Nat, n \in Nat : m = Len(cs) /\ n = Len(more)
  OBVIOUS
<1> DEFINE all == cs \o more
           texts == ChunkTexts(cs) \o ChunkTexts(more)
<1>3. /\ all \in Seq(Chunk(bs)) /\ Len(all) = m + n /\ DOMAIN all = 1..(m + n)
      /\ \A i \in 1..(m + n) : all[i] = IF i <= m THEN cs[i] ELSE more[i - m]
  BY <1>2, ConcatProperties
<1>4. /\ texts \in Seq(Text) /\ Len(texts) = m + n
      /\ \A i \in 1..(m + n) : texts[i] =
            IF i <= m THEN ChunkTexts(cs)[i] ELSE ChunkTexts(more)[i - m]
  <2>1. PICK f, g : f = ChunkTexts(cs) /\ g = ChunkTexts(more)
    OBVIOUS
  <2>2. f \in Seq(Text) /\ g \in Seq(Text) /\ Len(f) = m /\ Len(g) = n
    BY <1>1, <1>2, <2>1
  <2>3. /\ f \o g \in Seq(Text) /\ Len(f \o g) = m + n
        /\ \A i \in 1..(m + n) : (f \o g)[i] = IF i <= m THEN f[i] ELSE g[i - m]
    BY <2>2, ConcatProperties
  <2>4. QED
    BY <2>1, <2>3
<1> HIDE DEF all, texts
<1>5. ChunkTexts(all) \in Seq(Text) /\ Len(ChunkTexts(all)) = m + n
  BY <1>1, <1>3
<1>6. \A i \in 1..(m + n) : ChunkTexts(all)[i] = texts[i]
  <2> SUFFICES ASSUME NEW i \in 1..(m + n) PROVE ChunkTexts(all)[i] = texts[i]
    OBVIOUS
  <2>1. ChunkTexts(all)[i] = all[i].words
    BY <1>3 DEF ChunkTexts
  <2>2. CASE i <= m
    <3>1. i \in DOMAIN cs
      BY <1>2, <2>2
    <3>2. QED
      BY <1>3, <1>4, <2>1, <2>2, <3>1 DEF ChunkTexts
  <2>3. CASE ~(i <= m)
    <3>1. i - m \in DOMAIN more
      BY <1>2, <2>3
    <3>2. QED
      BY <1>3, <1>4, <2>1, <2>3, <3>1 DEF ChunkTexts
  <2>4. QED
    BY <2>2, <2>3
<1>7. ChunkTexts(all) = texts
  BY <1>4, <1>5, <1>6, SeqEqual
<1>8. FlattenSeq(texts) = FlattenSeq(ChunkTexts(cs)) \o FlattenSeq(ChunkTexts(more))
      /\ FlattenSeq(ChunkTexts(cs)) \in Text /\ FlattenSeq(ChunkTexts(more)) \in Text
  <2>1. ChunkTexts(cs) \in Seq(Seq(Nat)) /\ ChunkTexts(more) \in Seq(Seq(Nat))
    BY <1>1 DEF Text
  <2>2. QED
    BY <2>1, FlattenConcat, FlattenType DEF texts, Text
<1>9. QED
  BY <1>3, <1>7, <1>8 DEF all

\* Chunks that are sound are with more that are.
LEMMA ChunksGrow ==
  ASSUME NEW bs, NEW cs \in Seq(Chunk(bs)), NEW more \in Seq(Chunk(bs)),
         \A c \in 1..Len(cs) : ChunkSound(bs, cs[c]),
         \A c \in 1..Len(more) : ChunkSound(bs, more[c])
  PROVE  \A c \in 1..Len(cs \o more) : ChunkSound(bs, (cs \o more)[c])
<1>1. PICK m \in Nat, n \in Nat : m = Len(cs) /\ n = Len(more)
  OBVIOUS
<1> DEFINE all == cs \o more
<1>2. /\ Len(all) = m + n
      /\ \A i \in 1..(m + n) : all[i] = IF i <= m THEN cs[i] ELSE more[i - m]
  BY <1>1, ConcatProperties
<1> HIDE DEF all
<1>3. ASSUME NEW i \in 1..(m + n) PROVE ChunkSound(bs, all[i])
  <2>1. CASE i <= m
    <3>1. i \in 1..Len(cs) /\ all[i] = cs[i]
      BY <1>1, <1>2, <2>1
    <3>2. QED
      BY <3>1
  <2>2. CASE ~(i <= m)
    <3>1. i - m \in 1..Len(more) /\ all[i] = more[i - m]
      BY <1>1, <1>2, <2>2
    <3>2. QED
      BY <3>1
  <2>3. QED
    BY <2>1, <2>2
<1>4. QED
  BY <1>2, <1>3 DEF all

FlushedOf(bs, numbers) ==
    IF numbers = <<>> THEN <<>>
    ELSE <<[words |-> TextOf(bs, numbers), blocks |-> numbers, path |-> bs[Last(numbers)].path]>>

\* The blocks that are gathered make a chunk.
LEMMA FlushChunk ==
  ASSUME NEW bs \in Seq(Block), NEW cs, NEW numbers, NEW k \in Nat, Chunked(bs, cs, numbers, k)
  PROVE  Chunked(bs, cs \o FlushedOf(bs, numbers), <<>>, k)
<1>1. /\ cs \in Seq(Chunk(bs)) /\ \A c \in 1..Len(cs) : ChunkSound(bs, cs[c])
      /\ CurrentSound(bs, numbers) /\ numbers \in Seq(1..Len(bs))
      /\ FlattenSeq(ChunkTexts(cs)) \o TextOf(bs, numbers) = FlattenSeq(FirstTexts(bs, k))
  BY DEF Chunked, CurrentSound
<1>2. TextOf(bs, <<>>) = <<>>
  <2>1. NumberTexts(bs, <<>>) = <<>>
    BY DEF NumberTexts
  <2>2. QED
    BY <2>1, FlattenNone DEF TextOf
<1>3. CurrentSound(bs, <<>>)
  <2>1. <<>> \in Seq(1..Len(bs)) /\ Len(<<>>) = 0
    OBVIOUS
  <2>2. Stays(bs, <<>>)
    BY <2>1 DEF Stays
  <2>3. QED
    BY <2>1, <2>2 DEF CurrentSound
<1>4. CASE numbers = <<>>
  <2>1. cs \o <<>> = cs
    BY <1>1, ConcatEmptySeq
  <2>2. QED
    BY <1>4, <2>1 DEF FlushedOf
<1>5. CASE numbers # <<>>
  <2> DEFINE c == [words |-> TextOf(bs, numbers), blocks |-> numbers,
                   path |-> bs[Last(numbers)].path]
             more == <<c>>
  <2>1. Last(numbers) \in 1..Len(bs)
    <3>1. Len(numbers) \in 1..Len(numbers)
      BY <1>1, <1>5
    <3>2. QED
      BY <1>1, <3>1, ElementOfSeq DEF Last
  <2>2. TextOf(bs, numbers) \in Text
    BY <1>1, <2>1, NumbersGrow
  <2>3. bs[Last(numbers)].path \in Seq(STRING)
    <3>1. bs[Last(numbers)] \in Block
      BY <2>1, ElementOfSeq
    <3>2. QED
      BY <3>1 DEF Block
  <2>4. /\ c \in Chunk(bs) /\ c.words = TextOf(bs, numbers) /\ c.blocks = numbers
    BY <1>1, <2>2, <2>3 DEF Chunk
  <2> HIDE DEF c
  <2>5. ChunkSound(bs, c)
    BY <1>1, <1>5, <2>4 DEF ChunkSound, CurrentSound
  <2>6. more \in Seq(Chunk(bs)) /\ Len(more) = 1 /\ more[1] = c
    BY <2>4
  <2>7. ChunkTexts(more) = <<TextOf(bs, numbers)>>
    <3>1. DOMAIN more = {1}
      BY <2>6
    <3>2. ChunkTexts(more) = [i \in {1} |-> TextOf(bs, numbers)]
      BY <2>4, <2>6, <3>1 DEF ChunkTexts
    <3>3. QED
      BY <3>2
  <2>8. \A i \in 1..Len(more) : ChunkSound(bs, more[i])
    BY <2>5, <2>6
  <2> HIDE DEF more
  <2>9. FlattenSeq(ChunkTexts(more)) = TextOf(bs, numbers)
    BY <2>7, FlattenOne
  <2>10. /\ cs \o more \in Seq(Chunk(bs))
         /\ FlattenSeq(ChunkTexts(cs \o more))
                = FlattenSeq(ChunkTexts(cs)) \o FlattenSeq(ChunkTexts(more))
         /\ FlattenSeq(ChunkTexts(cs)) \in Text
    BY <1>1, <2>6, ChunkTextsJoin
  <2>11. \A i \in 1..Len(cs \o more) : ChunkSound(bs, (cs \o more)[i])
    BY <1>1, <2>6, <2>8, ChunksGrow
  <2>12. FlattenSeq(ChunkTexts(cs \o more)) \o TextOf(bs, <<>>) = FlattenSeq(FirstTexts(bs, k))
    <3>1. FlattenSeq(ChunkTexts(cs)) \o TextOf(bs, numbers) \in Text
      BY <2>2, <2>10, TextJoins
    <3>2. (FlattenSeq(ChunkTexts(cs)) \o TextOf(bs, numbers)) \o <<>>
            = FlattenSeq(ChunkTexts(cs)) \o TextOf(bs, numbers)
      BY <3>1, TextEmpty
    <3>3. QED
      BY <1>1, <1>2, <2>9, <2>10, <3>2
  <2>13. Chunked(bs, cs \o more, <<>>, k)
    BY <1>3, <2>10, <2>11, <2>12 DEF Chunked
  <2>14. FlushedOf(bs, numbers) = more
    BY <1>5 DEF FlushedOf, more, c
  <2>15. QED
    BY <2>13, <2>14
<1>6. QED
  BY <1>4, <1>5

\* The next block joins them, in their section or while they are few.
LEMMA JoinChunk ==
  ASSUME NEW bs \in Seq(Block), NEW cs, NEW numbers, NEW k \in Nat, NEW n \in 1..Len(bs), n = k + 1,
         Chunked(bs, cs, numbers, k), Words(bs[n]) # <<>>,
         Tokens(Len(TextOf(bs, Append(numbers, n)))) <= ChunkMax,
         \/ numbers = <<>>
         \/ bs[n].path = bs[Last(numbers)].path
         \/ Tokens(Len(TextOf(bs, numbers))) < ChunkMin
  PROVE  Chunked(bs, cs, Append(numbers, n), n)
<1>1. /\ cs \in Seq(Chunk(bs)) /\ \A c \in 1..Len(cs) : ChunkSound(bs, cs[c])
      /\ CurrentSound(bs, numbers) /\ numbers \in Seq(1..Len(bs))
      /\ FlattenSeq(ChunkTexts(cs)) \o TextOf(bs, numbers) = FlattenSeq(FirstTexts(bs, k))
  BY DEF Chunked, CurrentSound
<1>2. /\ TextOf(bs, numbers) \in Text /\ Words(bs[n]) \in Text
      /\ TextOf(bs, Append(numbers, n)) = TextOf(bs, numbers) \o Words(bs[n])
  BY <1>1, NumbersGrow
<1> DEFINE more == Append(numbers, n)
<1>3. PICK l \in Nat : l = Len(numbers)
  BY <1>1
<1>4. /\ more \in Seq(1..Len(bs)) /\ Len(more) = l + 1 /\ more[l + 1] = n
      /\ \A i \in 1..l : more[i] = numbers[i]
  BY <1>1, <1>3, AppendProperties
<1>5. ASSUME NEW i \in 1..l PROVE SubSeq(more, 1, i) = SubSeq(numbers, 1, i)
  BY <1>1, <1>3, <1>4
<1> HIDE DEF more
<1>6. Stays(bs, more)
  <2> SUFFICES ASSUME NEW i \in 1..l
               PROVE  \/ bs[more[i]].path = bs[more[i + 1]].path
                      \/ Tokens(Len(TextOf(bs, SubSeq(more, 1, i)))) < ChunkMin
    BY <1>4 DEF Stays
  <2>1. CASE i = l
    <3>1. numbers # <<>> /\ more[i] = Last(numbers) /\ more[i + 1] = n
      BY <1>1, <1>3, <1>4, <2>1 DEF Last
    <3>2. SubSeq(more, 1, i) = numbers
      <4>1. SubSeq(numbers, 1, l) = numbers
        BY <1>1, <1>3, SubSeqFull
      <4>2. QED
        BY <1>5, <2>1, <4>1
    <3>3. QED
      BY <3>1, <3>2
  <2>2. CASE i # l
    <3>1. i \in 1..(l - 1) /\ i + 1 \in 1..l
      BY <2>2
    <3>2. \/ bs[numbers[i]].path = bs[numbers[i + 1]].path
          \/ Tokens(Len(TextOf(bs, SubSeq(numbers, 1, i)))) < ChunkMin
      BY <1>1, <1>3, <3>1 DEF CurrentSound, Stays
    <3>3. more[i] = numbers[i] /\ more[i + 1] = numbers[i + 1]
      BY <1>4, <3>1
    <3>4. QED
      BY <1>5, <3>2, <3>3
  <2>3. QED
    BY <2>1, <2>2
<1>7. Tokens(Len(TextOf(bs, more))) \in 1..ChunkMax
  <2>1. TextOf(bs, more) \in Text /\ TextOf(bs, more) # <<>>
    <3>1. TextOf(bs, numbers) \in Seq(Nat) /\ Words(bs[n]) \in Seq(Nat)
      BY <1>2 DEF Text
    <3>2. TextOf(bs, numbers) \o Words(bs[n]) \in Seq(Nat)
          /\ TextOf(bs, numbers) \o Words(bs[n]) # <<>>
      BY <3>1, JoinSound
    <3>3. QED
      BY <1>2, <3>2 DEF more, Text
  <2>2. PICK x \in Nat : x = Len(TextOf(bs, more)) /\ x # 0
    BY <2>1, EmptySeq DEF Text
  <2>3. Tokens(x) \in Nat /\ Tokens(x) # 0
    BY <2>2, TokensSound
  <2>4. ChunkMax \in Nat /\ Tokens(x) <= ChunkMax
    BY <2>2, EvidenceAssumption DEF more
  <2>5. QED
    BY <2>2, <2>3, <2>4
<1>8. CurrentSound(bs, more)
  BY <1>4, <1>6, <1>7 DEF CurrentSound
<1>9. FlattenSeq(ChunkTexts(cs)) \o TextOf(bs, more) = FlattenSeq(FirstTexts(bs, n))
  <2>1. FlattenSeq(ChunkTexts(cs)) \in Text
    BY <1>1, ChunkTextsJoin
  <2>2. (FlattenSeq(ChunkTexts(cs)) \o TextOf(bs, numbers)) \o Words(bs[n])
            = FlattenSeq(ChunkTexts(cs)) \o (TextOf(bs, numbers) \o Words(bs[n]))
    BY <1>2, <2>1, TextAssociative, Zenon
  <2>3. FlattenSeq(FirstTexts(bs, n)) = FlattenSeq(FirstTexts(bs, k)) \o Words(bs[n])
    BY FirstGrow
  <2>4. QED
    BY <1>1, <1>2, <2>2, <2>3 DEF more
<1>10. QED
  BY <1>1, <1>8, <1>9 DEF Chunked, more

\* A block that is too large makes a chunk of each of its pieces.
LEMMA LargeChunk ==
  ASSUME NEW bs \in Seq(Block), NEW cs, NEW k \in Nat, NEW n \in 1..Len(bs), n = k + 1,
         Chunked(bs, cs, <<>>, k), NEW pieces, pieces = Pieces(Words(bs[n]), ChunkMax)
  PROVE  Chunked(bs, cs \o [i \in DOMAIN pieces |->
                            [words |-> pieces[i], blocks |-> <<n>>, path |-> bs[n].path]],
                 <<>>, n)
<1>1. /\ cs \in Seq(Chunk(bs)) /\ \A c \in 1..Len(cs) : ChunkSound(bs, cs[c])
      /\ CurrentSound(bs, <<>>)
      /\ FlattenSeq(ChunkTexts(cs)) \o TextOf(bs, <<>>) = FlattenSeq(FirstTexts(bs, k))
  BY DEF Chunked
<1>2. PICK text \in Text : text = Words(bs[n])
  BY WordsType
<1>3. ChunkMax \in Nat \ {0}
  BY EvidenceAssumption
<1>4. pieces \in Seq(Text) /\ \E c : Cuts(pieces, text, c, ChunkMax)
  BY <1>2, <1>3, PiecesCut DEF Text
<1>5. PICK c : Cuts(pieces, text, c, ChunkMax)
  BY <1>4
<1>6. FlattenSeq(pieces) = text
  BY <1>2, <1>4, <1>5, CutsFlatten DEF Text
<1>7. PICK l \in Nat : l = Len(pieces) /\ DOMAIN pieces = 1..l
  BY <1>4
<1>8. bs[n].path \in Seq(STRING)
  <2>1. bs[n] \in Block
    BY ElementOfSeq
  <2>2. QED
    BY <2>1 DEF Block
<1>9. TextOf(bs, <<>>) = <<>> /\ TextOf(bs, <<n>>) = text
  BY <1>2, NumbersFew
<1> DEFINE new(i) == [words |-> pieces[i], blocks |-> <<n>>, path |-> bs[n].path]
           more == [i \in DOMAIN pieces |-> new(i)]
<1>10. ASSUME NEW i \in 1..l PROVE new(i) \in Chunk(bs) /\ ChunkSound(bs, new(i))
  <2>1. pieces[i] \in Text
    BY <1>4, <1>7, ElementOfSeq
  <2>2. <<n>> \in Seq(1..Len(bs)) /\ Len(<<n>>) = 1
    OBVIOUS
  <2>3. new(i) \in Chunk(bs)
    BY <1>8, <2>1, <2>2 DEF Chunk
  <2>4. CutAt(Nat, pieces, text, c, ChunkMax, i)
    BY <1>2, <1>4, <1>5, <1>7, CutsJoin DEF Text
  <2>5. PICK x \in Nat : x = Len(pieces[i]) /\ x # 0 /\ Tokens(x) <= ChunkMax
    <3>1. pieces[i] # <<>> /\ Tokens(Len(pieces[i])) <= ChunkMax
      BY <2>4 DEF CutAt
    <3>2. Len(pieces[i]) \in Nat /\ Len(pieces[i]) # 0
      BY <2>1, <3>1, EmptySeq DEF Text
    <3>3. QED
      BY <3>1, <3>2
  <2>6. Tokens(Len(pieces[i])) \in 1..ChunkMax
    <3>1. Tokens(x) \in Nat /\ Tokens(x) # 0
      BY <2>5, TokensSound
    <3>2. QED
      BY <1>3, <2>5, <3>1
  <2>7. Range(pieces[i]) \subseteq Range(text)
    <3>1. PICK t : t = pieces[i]
      OBVIOUS
    <3>2. \A j \in 1..Len(t) : t[j] = text[c[i - 1] + j]
      BY <2>4, <3>1 DEF CutAt
    <3>3. Len(t) = c[i] - c[i - 1] /\ Len(t) \in Nat /\ DOMAIN t = 1..Len(t)
      BY <2>1, <2>4, <3>1 DEF CutAt, Text
    <3>4. i - 1 \in 0..l /\ i \in 0..l
      OBVIOUS
    <3>5. c[i - 1] \in 0..Len(text) /\ c[i] \in 0..Len(text)
      BY <1>5, <1>7, <3>4 DEF Cuts
    <3>6. Len(text) \in Nat /\ DOMAIN text = 1..Len(text)
      BY <1>2 DEF Text
    <3>7. \A j \in 1..Len(t) : c[i - 1] + j \in 1..Len(text)
      BY <3>3, <3>5, <3>6, SMTT(30)
    <3>8. QED
      BY <3>1, <3>2, <3>3, <3>6, <3>7 DEF Range
  <2>8. Stays(bs, <<n>>)
    BY <2>2 DEF Stays
  <2>9. ChunkSound(bs, new(i))
    BY <1>9, <2>2, <2>3, <2>6, <2>7, <2>8 DEF ChunkSound
  <2>10. QED
    BY <2>3, <2>9
<1>11. more \in Seq(Chunk(bs)) /\ Len(more) = l
  <2>1. \A i \in 1..l : new(i) \in Chunk(bs)
    BY <1>10
  <2> HIDE DEF new
  <2>2. more \in [1..l -> Chunk(bs)]
    BY <1>7, <2>1
  <2>3. QED
    BY <2>2
<1>12. ChunkTexts(more) = pieces
  <2>1. ChunkTexts(more) = [i \in 1..l |-> pieces[i]]
    BY <1>7 DEF ChunkTexts
  <2>2. pieces = [i \in 1..l |-> pieces[i]]
    BY <1>4, <1>7
  <2>3. QED
    BY <2>1, <2>2
<1>13. \A i \in 1..Len(more) : ChunkSound(bs, more[i])
  <2>1. \A i \in 1..l : more[i] = new(i)
    BY <1>7
  <2> HIDE DEF new, more
  <2>2. QED
    BY <1>10, <1>11, <2>1
<1> HIDE DEF more
<1>14. /\ cs \o more \in Seq(Chunk(bs)) /\ FlattenSeq(ChunkTexts(cs)) \in Text
       /\ FlattenSeq(ChunkTexts(cs \o more)) = FlattenSeq(ChunkTexts(cs)) \o text
  <2>1. /\ cs \o more \in Seq(Chunk(bs)) /\ FlattenSeq(ChunkTexts(cs)) \in Text
        /\ FlattenSeq(ChunkTexts(cs \o more))
                = FlattenSeq(ChunkTexts(cs)) \o FlattenSeq(ChunkTexts(more))
    BY <1>1, <1>11, ChunkTextsJoin
  <2>2. FlattenSeq(ChunkTexts(more)) = text
    BY <1>6, <1>12
  <2>3. QED
    BY <2>1, <2>2
<1>15. \A i \in 1..Len(cs \o more) : ChunkSound(bs, (cs \o more)[i])
  BY <1>1, <1>11, <1>13, ChunksGrow
<1>16. FlattenSeq(ChunkTexts(cs \o more)) \o TextOf(bs, <<>>) = FlattenSeq(FirstTexts(bs, n))
  <2>1. FlattenSeq(FirstTexts(bs, n)) = FlattenSeq(FirstTexts(bs, k)) \o text
    BY <1>2, FirstGrow
  <2>2. FlattenSeq(ChunkTexts(cs)) = FlattenSeq(FirstTexts(bs, k))
    BY <1>1, <1>9, <1>14, TextEmpty
  <2>3. FlattenSeq(ChunkTexts(cs)) \o text \in Text
    BY <1>2, <1>14, TextJoins
  <2>4. QED
    BY <1>9, <1>14, <2>1, <2>2, <2>3, TextEmpty
<1>17. Chunked(bs, cs \o more, <<>>, n)
  BY <1>1, <1>14, <1>15, <1>16 DEF Chunked
<1>18. QED
  BY <1>17 DEF more

-----------------------------------------------------------------------------
(***************************************************************************)
(* One turn of coalesce_evidence_blocks.                                   *)
(***************************************************************************)

\* What is sound stays so when more words are known to be of an element.
LEMMA SoundWider ==
  ASSUME NEW m \in Nat, NEW origins, NEW more, origins \subseteq more,
         NEW gathering, Sound(gathering, m, origins)
  PROVE  Sound(gathering, m, more)
<1>1. BlocksSound(gathering.blocks, m, more)
  BY SoundLater DEF Sound
<1>2. ASSUME NEW g, GroupSound(g, m, origins) PROVE GroupSound(g, m, more)
  BY <1>2 DEF GroupSound
<1>3. QED
  BY <1>1, <1>2 DEF Sound

\* The words that are gathered are a text.
LEMMA GottenText ==
  ASSUME NEW gathering \in Gatherings PROVE Gotten(gathering) \in Text
BY GottenType, TextJoins DEF Gotten

\* No text and no blank element adds a word.
LEMMA NoNewText ==
  ASSUME NEW doc, NEW e, e.length = 0 \/ e.kind = "heading"
  PROVE  NewText(doc, e) = <<>>
<1>1. CASE e.kind = "heading"
  BY <1>1 DEF NewText
<1>2. CASE e.length = 0
  <2>1. \A x : [j \in 1..0 |-> x + j] = <<>>
    OBVIOUS
  <2>2. QED
    BY <1>2, <2>1 DEF NewText
<1>3. QED
  BY <1>1, <1>2

ReadOf(gathering, doc, e) ==
    LET m == Off(doc, Len(doc) + 1) IN
    IF e.length = 0 THEN gathering
    ELSE IF e.kind = "heading" THEN Flush(gathering)
    ELSE GatherAll(gathering, Split([i \in 1..e.length |-> m + i]), e.path, e.kind)

\* The words gathered are those of the element more, in their place.
ReadOn(gathering, after, doc, e, n, origins) ==
    /\ Sound(after, n, origins) /\ Spaced(after, n)
    /\ Gotten(after) = Gotten(gathering) \o NewText(doc, e)

\* A blank element changes nothing.
LEMMA BlankRead ==
  ASSUME NEW m \in Nat, NEW origins, NEW more, origins \subseteq more,
         NEW gathering, Sound(gathering, m, origins), Spaced(gathering, m),
         NEW doc, NEW e, e.length = 0
  PROVE  ReadOn(gathering, gathering, doc, e, m, more)
<1>1. Sound(gathering, m, more)
  BY SoundWider
<1>2. NewText(doc, e) = <<>> /\ Gotten(gathering) \in Text
  BY NoNewText, GottenText DEF Sound
<1>3. Gotten(gathering) \o <<>> = Gotten(gathering)
  BY <1>2, TextEmpty
<1>4. QED
  BY <1>1, <1>2, <1>3 DEF ReadOn

\* A heading closes the group and leaves words out.
LEMMA HeadingRead ==
  ASSUME NEW m \in Nat, NEW n \in Nat, m < n, NEW origins, NEW more, origins \subseteq more,
         NEW gathering, Sound(gathering, m, origins),
         NEW doc, NEW e, e.kind = "heading"
  PROVE  ReadOn(gathering, Flush(gathering), doc, e, n, more)
<1>1. PICK after : after = Flush(gathering)
  OBVIOUS
<1>2. /\ Sound(after, m, origins) /\ after.group = NoGroup
      /\ Gotten(after) = Gotten(gathering)
  BY <1>1, FlushSound
<1>3. BlocksSound(after.blocks, m, origins) /\ after \in Gatherings
  BY <1>2 DEF Sound
<1>4. BlocksSound(after.blocks, n, more)
  BY <1>3, SoundLater
<1>5. Sound(after, n, more)
  BY <1>2, <1>3, <1>4 DEF Sound
<1>6. Spaced(after, n)
  <2> DEFINE last == Last(after.blocks)
  <2>1. CASE after.blocks # <<>>
    <3>1. after.blocks \in Seq(Block)
      BY <1>3 DEF BlocksSound
    <3>2. Len(after.blocks) \in 1..Len(after.blocks)
      BY <2>1, <3>1
    <3>3. BlockSound(last, m, origins)
      BY <1>3, <3>2 DEF BlocksSound, Last
    <3>4. Last(Words(last)) <= m /\ Last(Words(last)) \in Nat
      BY <3>3, LastWord DEF BlockSound
    <3>5. Last(Words(last)) < n
      BY <3>4
    <3>6. QED
      BY <3>5 DEF Spaced
  <2>2. CASE after.blocks = <<>>
    BY <2>2 DEF Spaced
  <2>3. QED
    BY <2>1, <2>2
<1>7. NewText(doc, e) = <<>> /\ Gotten(gathering) \in Text
  BY NoNewText, GottenText DEF Sound
<1>8. Gotten(gathering) \o <<>> = Gotten(gathering)
  BY <1>7, TextEmpty
<1>9. QED
  BY <1>1, <1>2, <1>5, <1>6, <1>7, <1>8 DEF ReadOn

\* The parts of an element are gathered.
LEMMA TextRead ==
  ASSUME NEW m \in Nat, NEW origins, NEW more, origins \subseteq more,
         NEW gathering, Sound(gathering, m, origins), Spaced(gathering, m),
         NEW doc, NEW e \in Element, e.kind # "heading", e.length # 0,
         m = Off(doc, Len(doc) + 1),
         \A j \in 1..e.length : <<m + j, e.path, GroupType(e.kind)>> \in more,
         NEW text, text = [i \in 1..e.length |-> m + i]
  PROVE  ReadOn(gathering, GatherAll(gathering, Split(text), e.path, e.kind), doc, e,
                m + e.length, more)
<1>1. e.length \in Nat /\ e.path \in Seq(STRING) /\ e.kind \in BlockKind
  BY DEF Element
<1>2. PICK l \in Nat : l = e.length
  BY <1>1
<1>3. text \in Text /\ Len(text) = l /\ text # <<>> /\ \A i \in 1..l : text[i] = m + i
  <2>1. text = [i \in 1..l |-> m + i]
    BY <1>2
  <2>2. text \in [1..l -> Nat]
    BY <2>1
  <2>3. text \in Seq(Nat) /\ Len(text) = l
    <3>1. \A f \in [1..l -> Nat] : f \in Seq(Nat)
      BY SeqDef
    <3>2. text \in Seq(Nat) /\ DOMAIN text = 1..l
      BY <2>2, <3>1
    <3>3. PICK k \in Nat : k = Len(text) /\ DOMAIN text = 1..k
      BY <3>2, LenProperties
    <3>4. k = l
      <4>1. 1..k = 1..l
        BY <3>2, <3>3
      <4>2. \A i \in Int : (1 <= i /\ i <= k) <=> (1 <= i /\ i <= l)
        BY <4>1
      <4>3. QED
        BY <4>2
    <3>5. QED
      BY <3>2, <3>3, <3>4
  <2>4. QED
    BY <1>2, <2>1, <2>3, EmptySeq DEF Text
<1>4. NextText(text, m, e.path, e.kind, more)
  BY <1>1, <1>2, <1>3 DEF NextText
<1>5. PICK parts : parts = Split(text)
  OBVIOUS
<1>6. parts \in Seq(Text) /\ \E c : Cuts(parts, text, c, BlockMax)
  BY <1>3, <1>5, SplitCuts DEF Text
<1>7. PICK c : Cuts(parts, text, c, BlockMax)
  BY <1>6
<1>8. Sound(gathering, m, more)
  BY SoundWider
<1>9. PICK after : after = GatherAll(gathering, parts, e.path, e.kind)
  OBVIOUS
<1>10. Read(gathering, after, text, l, m, more)
  BY <1>3, <1>4, <1>6, <1>7, <1>8, <1>9, GatherAllSound
<1>11. NewText(doc, e) = text
  BY DEF NewText
<1>12. SubSeq(text, 1, l) = text
  BY <1>3, SubSeqFull DEF Text
<1>13. QED
  BY <1>2, <1>5, <1>9, <1>10, <1>11, <1>12 DEF Read, ReadOn

\* One turn of the loop.
LEMMA ReadSound ==
  ASSUME NEW doc \in Seq(Element), NEW e \in Element, NEW gathering,
         Sound(gathering, Off(doc, Len(doc) + 1), Origins(doc)),
         Spaced(gathering, Off(doc, Len(doc) + 1)),
         NEW more, more = Append(doc, e)
  PROVE  ReadOn(gathering, ReadOf(gathering, doc, e), doc, e,
                Off(more, Len(more) + 1), Origins(more))
<1>1. PICK m \in Nat : m = Off(doc, Len(doc) + 1)
  BY OriginsGrow
<1>2. /\ e.length \in Nat /\ Off(more, Len(more) + 1) = m + e.length
      /\ Origins(doc) \subseteq Origins(more)
      /\ \A j \in 1..e.length : <<m + j, e.path, GroupType(e.kind)>> \in Origins(more)
  BY <1>1, OriginsGrow
<1>3. Sound(gathering, m, Origins(doc)) /\ Spaced(gathering, m)
  BY <1>1
<1>4. CASE e.length = 0
  <2>1. ReadOf(gathering, doc, e) = gathering /\ m + e.length = m
    BY <1>4 DEF ReadOf
  <2>2. ReadOn(gathering, gathering, doc, e, m, Origins(more))
    BY <1>2, <1>3, <1>4, BlankRead
  <2>3. QED
    BY <1>2, <2>1, <2>2
<1>5. CASE e.length # 0 /\ e.kind = "heading"
  <2>1. ReadOf(gathering, doc, e) = Flush(gathering)
    BY <1>5 DEF ReadOf
  <2>2. PICK n \in Nat : n = m + e.length /\ m < n
    BY <1>2, <1>5
  <2>3. ReadOn(gathering, Flush(gathering), doc, e, n, Origins(more))
    BY <1>2, <1>3, <1>5, <2>2, HeadingRead
  <2>4. QED
    BY <1>2, <2>1, <2>2, <2>3
<1>6. CASE e.length # 0 /\ e.kind # "heading"
  <2>1. PICK text : text = [i \in 1..e.length |-> m + i]
    OBVIOUS
  <2>2. ReadOf(gathering, doc, e) = GatherAll(gathering, Split(text), e.path, e.kind)
    BY <1>1, <1>6, <2>1 DEF ReadOf
  <2>3. ReadOn(gathering, GatherAll(gathering, Split(text), e.path, e.kind), doc, e,
               m + e.length, Origins(more))
    BY <1>1, <1>2, <1>3, <1>6, <2>1, TextRead
  <2>4. QED
    BY <1>2, <2>2, <2>3
<1>7. QED
  BY <1>4, <1>5, <1>6

-----------------------------------------------------------------------------
(***************************************************************************)
(* The inductive invariant: what is gathered is sound and is the body of   *)
(* the elements read, and what is chunked is sound and is the words of the *)
(* blocks that have been through the loop.                                 *)
(***************************************************************************)
End(doc) == Off(doc, Len(doc) + 1)

GatheringInv ==
    /\ document \in Seq(Element)
    /\ Sound(Gathering, End(document), Origins(document))
    /\ Gotten(Gathering) = FlattenSeq(ElementTexts(document))
    /\ phase = "reading" => Spaced(Gathering, End(document))
    /\ phase # "reading" => group = NoGroup

ChunkingInv ==
    /\ pending \in 0..Len(blocks)
    /\ Chunked(blocks, chunks, current, pending)
    /\ phase = "reading" => pending = 0 /\ current = <<>> /\ chunks = <<>>
    /\ phase = "done" => pending = Len(blocks) /\ current = <<>>

EvidenceInv == GatheringInv /\ ChunkingInv

\* What the module gathers, chunks and flushes is what the lemmas are about.
LEMMA NamesAgree ==
  /\ Gathering.blocks = blocks /\ Gathering.group = group
  /\ \A numbers : WordsOf(numbers) = TextOf(blocks, numbers)
  /\ \A numbers : Flushed(numbers) = FlushedOf(blocks, numbers)
<1>1. Gathering.blocks = blocks /\ Gathering.group = group
  BY DEF Gathering
<1>2. \A numbers : WordsOf(numbers) = TextOf(blocks, numbers)
  BY DEF WordsOf, TextOf, NumberTexts
<1>3. \A numbers : Flushed(numbers) = FlushedOf(blocks, numbers)
  BY <1>2 DEF Flushed, FlushedOf
<1>4. QED
  BY <1>1, <1>2, <1>3

\* What is sound, piece by piece.
LEMMA SoundBlocks ==
  ASSUME GatheringInv
  PROVE  /\ blocks \in Seq(Block) /\ Len(blocks) \in Nat /\ group \in Group
         /\ \A n \in 1..Len(blocks) :
                BlockSound(blocks[n], End(document), Origins(document))
         /\ \A n \in 1..Len(blocks) : Words(blocks[n]) \in Text /\ Words(blocks[n]) # <<>>
<1>1. /\ BlocksSound(blocks, End(document), Origins(document))
      /\ Gathering \in Gatherings
  BY NamesAgree DEF GatheringInv, Sound
<1>2. group \in Group
  BY <1>1, NamesAgree DEF Gatherings
<1>3. blocks \in Seq(Block) /\ \A n \in 1..Len(blocks) :
                BlockSound(blocks[n], End(document), Origins(document))
  BY <1>1 DEF BlocksSound
<1>4. \A n \in 1..Len(blocks) : Words(blocks[n]) \in Text /\ Words(blocks[n]) # <<>>
  BY <1>3, LastWord
<1>5. QED
  BY <1>2, <1>3, <1>4

\* Before the loop there are no chunks.
LEMMA NoChunks == ASSUME NEW bs \in Seq(Block) PROVE Chunked(bs, <<>>, <<>>, 0)
<1>1. ChunkTexts(<<>>) = <<>> /\ NumberTexts(bs, <<>>) = <<>>
  BY DEF ChunkTexts, NumberTexts
<1>2. FirstTexts(bs, 0) = <<>>
  BY DEF FirstTexts
<1>3. TextOf(bs, <<>>) = <<>> /\ FlattenSeq(ChunkTexts(<<>>)) = <<>>
      /\ FlattenSeq(FirstTexts(bs, 0)) = <<>>
  BY <1>1, <1>2, FlattenNone DEF TextOf
<1>4. <<>> \o <<>> = <<>>
  <2>1. <<>> \in Text
    BY DEF Text
  <2>2. QED
    BY <2>1, TextEmpty
<1>5. CurrentSound(bs, <<>>)
  <2>1. <<>> \in Seq(1..Len(bs)) /\ Len(<<>>) = 0
    OBVIOUS
  <2>2. Stays(bs, <<>>)
    BY <2>1 DEF Stays
  <2>3. QED
    BY <2>1, <2>2 DEF CurrentSound
<1>6. <<>> \in Seq(Chunk(bs)) /\ \A c \in 1..Len(<<>>) : ChunkSound(bs, <<>>[c])
  OBVIOUS
<1>7. QED
  BY <1>3, <1>4, <1>5, <1>6 DEF Chunked

\* The first state.
LEMMA EvidenceInit == Init => EvidenceInv
<1> SUFFICES ASSUME Init PROVE EvidenceInv
  OBVIOUS
<1>1. /\ document = <<>> /\ group = NoGroup /\ blocks = <<>> /\ pending = 0
      /\ current = <<>> /\ chunks = <<>> /\ phase = "reading"
  BY DEF Init
<1>2. document \in Seq(Element) /\ Len(document) = 0
  BY <1>1
<1>3. End(document) = 0
  BY <1>2, OffFirst DEF End
<1>4. NoGroup \in Group
  <2>1. /\ NoGroup.path = <<>> /\ NoGroup.type = "none" /\ NoGroup.kinds = {}
        /\ NoGroup.parts = <<>> /\ NoGroup.tokens = 0
        /\ NoGroup = [path |-> <<>>, type |-> "none", kinds |-> {}, parts |-> <<>>, tokens |-> 0]
    BY DEF NoGroup
  <2>2. <<>> \in Seq(STRING) /\ <<>> \in Seq(Text)
    OBVIOUS
  <2>3. QED
    BY <2>1, <2>2 DEF Group
<1>5. Gathering = [blocks |-> <<>>, group |-> NoGroup]
  BY <1>1 DEF Gathering
<1>6. Gathering \in Gatherings
  <2>1. <<>> \in Seq(Block)
    OBVIOUS
  <2>2. QED
    BY <1>4, <1>5, <2>1 DEF Gatherings
<1>7. Sound(Gathering, 0, Origins(document)) /\ Spaced(Gathering, 0)
  <2>1. BlocksSound(<<>>, 0, Origins(document))
    <3>1. <<>> \in Seq(Block) /\ Len(<<>>) = 0
      OBVIOUS
    <3>2. QED
      BY <3>1 DEF BlocksSound
  <2>2. QED
    BY <1>1, <1>6, <2>1, NamesAgree DEF Sound, Spaced
<1>8. Gotten(Gathering) = FlattenSeq(ElementTexts(document))
  <2>1. Texts(<<>>) = <<>> /\ ElementTexts(<<>>) = <<>>
    BY DEF Texts, ElementTexts
  <2>2. NoGroup.parts = <<>>
    BY DEF NoGroup
  <2>3. Gotten(Gathering) = <<>> \o <<>>
    BY <1>1, <2>1, <2>2, FlattenNone, NamesAgree DEF Gotten
  <2>4. <<>> \o <<>> = <<>>
    <3>1. <<>> \in Text
      BY DEF Text
    <3>2. QED
      BY <3>1, TextEmpty
  <2>5. QED
    BY <1>1, <2>1, <2>3, <2>4, FlattenNone
<1>9. GatheringInv
  BY <1>1, <1>2, <1>3, <1>7, <1>8 DEF GatheringInv
<1>10. ChunkingInv
  <2>1. blocks \in Seq(Block) /\ Len(blocks) = 0
    BY <1>1
  <2>2. Chunked(blocks, chunks, current, pending)
    BY <1>1, <2>1, NoChunks
  <2>3. QED
    BY <1>1, <2>1, <2>2 DEF ChunkingInv
<1>11. QED
  BY <1>9, <1>10 DEF EvidenceInv

\* An element more.
LEMMA ReadElementKeeps ==
  ASSUME EvidenceInv, NEW kind \in Kind, NEW path \in Path, NEW length \in Length,
         ReadElement(kind, path, length)
  PROVE  EvidenceInv'
<1>1. PICK e : e = [kind |-> kind, path |-> path, length |-> length]
  OBVIOUS
<1>2. e \in Element /\ e.kind = kind /\ e.path = path /\ e.length = length
  <2>1. kind \in BlockKind /\ path \in Seq(STRING) /\ length \in Nat
    BY EvidenceAssumption
  <2>2. QED
    BY <1>1, <2>1 DEF Element
<1>3. PICK doc \in Seq(Element) : doc = document
  BY DEF EvidenceInv, GatheringInv
<1>4. PICK more : more = Append(doc, e)
  OBVIOUS
<1>5. more \in Seq(Element)
  BY <1>2, <1>3, <1>4
<1>6. PICK after : after = ReadOf(Gathering, doc, e)
  OBVIOUS
<1>7. /\ phase = "reading" /\ document' = more
      /\ UNCHANGED <<pending, current, chunks, phase>>
  BY <1>1, <1>3, <1>4 DEF ReadElement
<1>8. blocks' = after.blocks /\ group' = after.group
  <2>1. Offset(Len(document) + 1) = Off(doc, Len(doc) + 1)
    BY <1>3, DocumentIs
  <2>2. QED
    BY <1>2, <1>3, <1>6, <2>1 DEF ReadElement, ReadOf
<1>9. /\ Sound(Gathering, Off(doc, Len(doc) + 1), Origins(doc))
      /\ Spaced(Gathering, Off(doc, Len(doc) + 1))
      /\ Gotten(Gathering) = FlattenSeq(ElementTexts(doc))
  BY <1>3, <1>7 DEF EvidenceInv, GatheringInv, End
<1>10. ReadOn(Gathering, after, doc, e, Off(more, Len(more) + 1), Origins(more))
  BY <1>2, <1>4, <1>6, <1>9, ReadSound
<1>11. /\ Sound(after, End(more), Origins(more)) /\ Spaced(after, End(more))
       /\ Gotten(after) = FlattenSeq(ElementTexts(doc)) \o NewText(doc, e)
  BY <1>9, <1>10 DEF ReadOn, End
<1>12. Gotten(after) = FlattenSeq(ElementTexts(more))
  BY <1>2, <1>4, <1>11, BodyGrows
<1>13. Gathering' = after
  <2>1. after \in Gatherings
    BY <1>11 DEF Sound
  <2>2. after = [blocks |-> after.blocks, group |-> after.group]
    BY <2>1 DEF Gatherings
  <2>3. Gathering' = [blocks |-> blocks', group |-> group']
    BY DEF Gathering
  <2>4. QED
    BY <1>8, <2>2, <2>3
<1>14. GatheringInv'
  BY <1>5, <1>7, <1>11, <1>12, <1>13 DEF GatheringInv
<1>15. blocks' \in Seq(Block) /\ Len(blocks') \in Nat
  BY <1>8, <1>11 DEF Sound, BlocksSound
<1>16. /\ pending' = 0 /\ current' = <<>> /\ chunks' = <<>> /\ phase' = "reading"
  BY <1>7 DEF EvidenceInv, ChunkingInv
<1>17. Chunked(blocks', chunks', current', pending')
  BY <1>15, <1>16, NoChunks
<1>18. ChunkingInv'
  BY <1>15, <1>16, <1>17 DEF ChunkingInv
<1>19. QED
  BY <1>14, <1>18 DEF EvidenceInv

\* The end of the document closes the group.
LEMMA EndDocumentKeeps == ASSUME EvidenceInv, EndDocument PROVE EvidenceInv'
<1>1. PICK after : after = Flush(Gathering)
  OBVIOUS
<1>2. PICK m \in Nat : m = End(document)
  BY OffType, LenProperties DEF EvidenceInv, GatheringInv, End
<1>3. Sound(Gathering, m, Origins(document))
  BY <1>2 DEF EvidenceInv, GatheringInv
<1>4. /\ Sound(after, m, Origins(document)) /\ after.group = NoGroup
      /\ Gotten(after) = Gotten(Gathering)
  BY <1>1, <1>3, FlushSound
<1>5. /\ phase = "reading" /\ blocks' = after.blocks /\ group' = NoGroup /\ phase' = "chunking"
      /\ UNCHANGED <<document, pending, current, chunks>>
  BY <1>1 DEF EndDocument
<1>6. Gathering' = after
  <2>1. after \in Gatherings
    BY <1>4 DEF Sound
  <2>2. after = [blocks |-> after.blocks, group |-> after.group]
    BY <2>1 DEF Gatherings
  <2>3. Gathering' = [blocks |-> blocks', group |-> group']
    BY DEF Gathering
  <2>4. QED
    BY <1>4, <1>5, <2>2, <2>3
<1>7. GatheringInv'
  BY <1>2, <1>4, <1>5, <1>6 DEF EvidenceInv, GatheringInv
<1>8. blocks' \in Seq(Block) /\ Len(blocks') \in Nat
  BY <1>4, <1>5 DEF Sound, BlocksSound
<1>9. pending' = 0 /\ current' = <<>> /\ chunks' = <<>>
  BY <1>5 DEF EvidenceInv, ChunkingInv
<1>10. Chunked(blocks', chunks', current', pending')
  BY <1>8, <1>9, NoChunks
<1>11. ChunkingInv'
  BY <1>5, <1>8, <1>9, <1>10 DEF ChunkingInv
<1>12. QED
  BY <1>7, <1>11 DEF EvidenceInv

\* The steps of build_chunks leave what is gathered.
LEMMA ChunkingLeaves ==
  ASSUME GatheringInv, UNCHANGED <<document, group, blocks>>,
         phase # "reading", phase' # "reading"
  PROVE  GatheringInv'
<1>1. Gathering' = Gathering
  BY DEF Gathering
<1>2. QED
  BY <1>1 DEF GatheringInv


\* A block that is too large.
LEMMA ChunkLargeKeeps ==
  ASSUME EvidenceInv, NEW n \in 1..Len(blocks), n = pending + 1, ChunkLarge(n)
  PROVE  Chunked(blocks, chunks', current', n)
<1>1. PICK cs, pieces : cs = chunks \o Flushed(current) /\ pieces = Pieces(Words(blocks[n]), ChunkMax)
  OBVIOUS
<1>2. /\ chunks' = cs \o [i \in DOMAIN pieces |->
                          [words |-> pieces[i], blocks |-> <<n>>, path |-> blocks[n].path]]
      /\ current' = <<>>
  BY <1>1 DEF ChunkLarge
<1>3. pending \in Nat /\ Chunked(blocks, chunks, current, pending) /\ blocks \in Seq(Block)
  BY SoundBlocks DEF EvidenceInv, ChunkingInv
<1>4. Chunked(blocks, cs, <<>>, pending)
  BY <1>1, <1>3, FlushChunk, NamesAgree
<1>5. QED
  BY <1>1, <1>2, <1>3, <1>4, LargeChunk

\* The blocks with the next one, after those there were have been flushed or not.
LEMMA ChunkSmallJoins ==
  ASSUME EvidenceInv, NEW n \in 1..Len(blocks), n = pending + 1,
         Tokens(Len(Words(blocks[n]))) <= ChunkMax,
         NEW flush \in BOOLEAN,
         ~flush => \/ current = <<>>
                   \/ /\ Tokens(Len(WordsOf(Append(current, n)))) <= ChunkMax
                      /\ \/ blocks[n].path = blocks[Last(current)].path
                         \/ Tokens(Len(WordsOf(current))) < ChunkMin,
         NEW cs, cs = chunks \o (IF flush THEN Flushed(current) ELSE <<>>)
  PROVE  Chunked(blocks, cs, Gathered(n, flush), n)
<1>1. /\ pending \in Nat /\ Chunked(blocks, chunks, current, pending) /\ blocks \in Seq(Block)
      /\ Words(blocks[n]) # <<>>
  BY SoundBlocks DEF EvidenceInv, ChunkingInv
<1>2. chunks \in Seq(Chunk(blocks)) /\ current \in Seq(1..Len(blocks))
  BY <1>1 DEF Chunked, CurrentSound
<1>3. Append(<<>>, n) = <<n>>
  OBVIOUS
<1>4. TextOf(blocks, Append(<<>>, n)) = Words(blocks[n])
  BY <1>1, <1>3, NumbersFew
<1>5. ASSUME NEW some, Chunked(blocks, some, <<>>, pending)
      PROVE  Chunked(blocks, some, <<n>>, n)
  <2>1. Tokens(Len(TextOf(blocks, Append(<<>>, n)))) <= ChunkMax
    BY <1>4
  <2>2. Chunked(blocks, some, Append(<<>>, n), n)
    BY <1>1, <1>5, <2>1, JoinChunk
  <2>3. QED
    BY <1>3, <2>2
<1>6. CASE flush
  <2>1. cs = chunks \o FlushedOf(blocks, current)
    BY <1>6, NamesAgree
  <2>2. Chunked(blocks, cs, <<>>, pending)
    BY <1>1, <2>1, FlushChunk
  <2>3. Gathered(n, flush) = <<n>>
    BY <1>6 DEF Gathered
  <2>4. QED
    BY <1>5, <2>2, <2>3
<1>7. CASE ~flush
  <2>1. cs = chunks
    BY <1>2, <1>7, ConcatEmptySeq
  <2>2. Gathered(n, flush) = Append(current, n)
    BY <1>7 DEF Gathered
  <2>3. CASE current = <<>>
    <3>1. Chunked(blocks, chunks, <<n>>, n)
      BY <1>1, <1>5, <2>3
    <3>2. QED
      BY <1>3, <2>1, <2>2, <2>3, <3>1
  <2>4. CASE current # <<>>
    <3>1. /\ Tokens(Len(TextOf(blocks, Append(current, n)))) <= ChunkMax
          /\ \/ blocks[n].path = blocks[Last(current)].path
             \/ Tokens(Len(TextOf(blocks, current))) < ChunkMin
      BY <1>7, <2>4, NamesAgree
    <3>2. Chunked(blocks, chunks, Append(current, n), n)
      BY <1>1, <3>1, JoinChunk
    <3>3. QED
      BY <2>1, <2>2, <3>2
  <2>5. QED
    BY <2>3, <2>4
<1>8. QED
  BY <1>6, <1>7

\* An estimate is a number.
LEMMA EstimateType ==
  ASSUME GatheringInv, NEW numbers \in Seq(1..Len(blocks))
  PROVE  Tokens(Len(WordsOf(numbers))) \in Nat
<1>1. blocks \in Seq(Block)
  BY SoundBlocks
<1>2. TextOf(blocks, numbers) \in Text
  <2>1. CASE numbers = <<>>
    <3>1. NumberTexts(blocks, <<>>) = <<>>
      BY DEF NumberTexts
    <3>2. TextOf(blocks, <<>>) = <<>>
      BY <3>1, FlattenNone DEF TextOf
    <3>3. <<>> \in Text
      BY DEF Text
    <3>4. QED
      BY <2>1, <3>2, <3>3
  <2>2. CASE numbers # <<>>
    <3>1. PICK n \in 1..Len(blocks) : TRUE
      <4>1. 1 \in 1..Len(numbers)
        BY <2>2
      <4>2. QED
        BY <4>1, ElementOfSeq
    <3>2. QED
      BY <1>1, <3>1, NumbersGrow
  <2>3. QED
    BY <2>1, <2>2
<1>3. PICK k \in Nat : k = Len(WordsOf(numbers))
  BY <1>2, NamesAgree, LenProperties DEF Text
<1>4. QED
  BY <1>3, TokensSound

\* A block that is not.
LEMMA ChunkSmallKeeps ==
  ASSUME EvidenceInv, NEW n \in 1..Len(blocks), n = pending + 1, ChunkSmall(n)
  PROVE  Chunked(blocks, chunks', current', n)
<1> DEFINE tooMuch == Tokens(Len(WordsOf(Append(current, n)))) > ChunkMax
           leaving == /\ blocks[n].path # blocks[Last(current)].path
                      /\ Tokens(Len(WordsOf(current))) >= ChunkMin
           flushes == current # <<>> /\ (tooMuch \/ leaving)
<1>1. PICK flush \in BOOLEAN : flush = flushes
  OBVIOUS
<1> DEFINE gathered == Gathered(n, flush)
           full == Tokens(Len(WordsOf(gathered))) >= ChunkTarget
           cs == chunks \o (IF flush THEN Flushed(current) ELSE <<>>)
<1>2. /\ Tokens(Len(Words(blocks[n]))) <= ChunkMax
      /\ chunks' = cs \o (IF full THEN Flushed(gathered) ELSE <<>>)
      /\ current' = IF full THEN <<>> ELSE gathered
  BY <1>1 DEF ChunkSmall
<1>3. /\ pending \in Nat /\ Chunked(blocks, chunks, current, pending) /\ blocks \in Seq(Block)
  BY SoundBlocks DEF EvidenceInv, ChunkingInv
<1>4. current \in Seq(1..Len(blocks)) /\ Append(current, n) \in Seq(1..Len(blocks))
  <2>1. current \in Seq(1..Len(blocks))
    BY <1>3 DEF Chunked, CurrentSound
  <2>2. QED
    BY <2>1
<1>5. ~flush => \/ current = <<>>
                \/ /\ Tokens(Len(WordsOf(Append(current, n)))) <= ChunkMax
                   /\ \/ blocks[n].path = blocks[Last(current)].path
                      \/ Tokens(Len(WordsOf(current))) < ChunkMin
  <2>1. PICK x, y : /\ x = Tokens(Len(WordsOf(Append(current, n))))
                    /\ y = Tokens(Len(WordsOf(current)))
    OBVIOUS
  <2>2. x \in Nat /\ y \in Nat /\ ChunkMax \in Nat /\ ChunkMin \in Nat
    BY <1>4, <2>1, EstimateType, EvidenceAssumption DEF EvidenceInv
  <2>3. (~(x > ChunkMax) => x <= ChunkMax) /\ (~(y >= ChunkMin) => y < ChunkMin)
    BY <2>2
  <2>4. QED
    BY <1>1, <2>1, <2>3
<1> HIDE DEF flushes
<1>6. Chunked(blocks, cs, gathered, n)
  BY <1>2, <1>5, ChunkSmallJoins
<1> HIDE DEF cs, gathered
<1>7. CASE full
  <2>1. chunks' = cs \o FlushedOf(blocks, gathered) /\ current' = <<>>
    BY <1>2, <1>7, NamesAgree
  <2>2. QED
    BY <1>3, <1>6, <2>1, FlushChunk
<1>8. CASE ~full
  <2>1. cs \in Seq(Chunk(blocks))
    BY <1>6 DEF Chunked
  <2>2. cs \o <<>> = cs
    BY <2>1, ConcatEmptySeq
  <2>3. QED
    BY <1>2, <1>6, <1>8, <2>2
<1>9. QED
  BY <1>7, <1>8

\* One turn of build_chunks.
LEMMA ChunkBlockKeeps == ASSUME EvidenceInv, ChunkBlock PROVE EvidenceInv'
<1>1. /\ phase = "chunking" /\ phase' = phase /\ pending < Len(blocks)
      /\ pending' = pending + 1 /\ UNCHANGED <<document, group, blocks>>
      /\ ChunkLarge(pending') \/ ChunkSmall(pending')
  BY DEF ChunkBlock
<1>2. GatheringInv'
  BY <1>1, ChunkingLeaves DEF EvidenceInv
<1>3. pending \in Nat /\ Len(blocks) \in Nat /\ pending' \in 1..Len(blocks)
  BY <1>1, SoundBlocks DEF EvidenceInv, ChunkingInv
<1>4. PICK n \in 1..Len(blocks) : n = pending'
  BY <1>3
<1>5. n = pending + 1 /\ (ChunkLarge(n) \/ ChunkSmall(n))
  BY <1>1, <1>4
<1>6. Chunked(blocks, chunks', current', n)
  BY <1>5, ChunkLargeKeeps, ChunkSmallKeeps
<1>7. ChunkingInv'
  BY <1>1, <1>3, <1>4, <1>6 DEF ChunkingInv
<1>8. QED
  BY <1>2, <1>7 DEF EvidenceInv

\* The end of build_chunks.
LEMMA EndChunksKeeps == ASSUME EvidenceInv, EndChunks PROVE EvidenceInv'
<1>1. /\ phase = "chunking" /\ phase' = "done" /\ pending = Len(blocks)
      /\ chunks' = chunks \o Flushed(current) /\ current' = <<>>
      /\ UNCHANGED <<document, group, blocks, pending>>
  BY DEF EndChunks
<1>2. GatheringInv'
  BY <1>1, ChunkingLeaves DEF EvidenceInv
<1>3. /\ pending \in Nat /\ pending \in 0..Len(blocks) /\ blocks \in Seq(Block)
      /\ Chunked(blocks, chunks, current, pending)
  BY SoundBlocks DEF EvidenceInv, ChunkingInv
<1>4. Chunked(blocks, chunks', current', pending)
  BY <1>1, <1>3, FlushChunk, NamesAgree
<1>5. ChunkingInv'
  BY <1>1, <1>3, <1>4 DEF ChunkingInv
<1>6. QED
  BY <1>2, <1>5 DEF EvidenceInv

\* The invariant of every run.
THEOREM EvidenceInvariant == Spec => []EvidenceInv
<1>1. Init => EvidenceInv
  BY EvidenceInit
<1>2. EvidenceInv /\ [Next]_vars => EvidenceInv'
  <2> SUFFICES ASSUME EvidenceInv, [Next]_vars PROVE EvidenceInv'
    OBVIOUS
  <2>1. ASSUME NEW kind \in Kind, NEW path \in Path, NEW length \in Length,
               ReadElement(kind, path, length)
        PROVE  EvidenceInv'
    BY <2>1, ReadElementKeeps
  <2>2. CASE EndDocument
    BY <2>2, EndDocumentKeeps
  <2>3. CASE ChunkBlock
    BY <2>3, ChunkBlockKeeps
  <2>4. CASE EndChunks
    BY <2>4, EndChunksKeeps
  <2>5. CASE UNCHANGED vars
    <3>1. /\ UNCHANGED <<document, group, blocks, pending, current, chunks, phase>>
          /\ Gathering' = Gathering
      BY <2>5 DEF vars, Gathering
    <3>2. GatheringInv'
      BY <3>1 DEF EvidenceInv, GatheringInv
    <3>3. ChunkingInv'
      BY <3>1 DEF EvidenceInv, ChunkingInv
    <3>4. QED
      BY <3>2, <3>3 DEF EvidenceInv
  <2>6. QED
    BY <2>1, <2>2, <2>3, <2>4, <2>5 DEF Next
<1>3. QED
  BY <1>1, <1>2, PTL DEF Spec

\* Through splitting, gathering and chunking every word of the body is kept once
\* and in its place, and a chunk quotes the blocks it cites.
THEOREM WordsPreserved == Spec => []TextPreserved
<1>1. EvidenceInv => TextPreserved
  <2> SUFFICES ASSUME EvidenceInv PROVE TextPreserved
    OBVIOUS
  <2>1. /\ chunks \in Seq(Chunk(blocks)) /\ DOMAIN chunks = 1..Len(chunks)
        /\ \A c \in 1..Len(chunks) : ChunkSound(blocks, chunks[c])
        /\ FlattenSeq(ChunkTexts(chunks)) \o TextOf(blocks, current)
                = FlattenSeq(FirstTexts(blocks, pending))
    BY DEF EvidenceInv, ChunkingInv, Chunked
  <2>2. FlattenSeq([n \in DOMAIN blocks |-> Words(blocks[n])]) \o FlattenSeq(group.parts) = Body
    <3>1. Gotten(Gathering) = FlattenSeq(ElementTexts(document))
      BY DEF EvidenceInv, GatheringInv
    <3>2. Gotten(Gathering) = FlattenSeq(Texts(blocks)) \o FlattenSeq(group.parts)
      BY NamesAgree DEF Gotten
    <3>3. QED
      BY <3>1, <3>2, DocumentIs DEF Texts
  <2>3. FlattenSeq([c \in DOMAIN chunks |-> chunks[c].words]) \o WordsOf(current)
            = FlattenSeq([n \in 1..pending |-> Words(blocks[n])])
    BY <2>1, NamesAgree DEF ChunkTexts, FirstTexts
  <2>4. phase = "done" => pending = Len(blocks) /\ current = <<>>
    BY DEF EvidenceInv, ChunkingInv
  <2>5. ASSUME NEW c \in DOMAIN chunks
        PROVE  \/ chunks[c].words = WordsOf(chunks[c].blocks)
               \/ /\ Len(chunks[c].blocks) = 1
                  /\ Range(chunks[c].words) \subseteq Range(WordsOf(chunks[c].blocks))
    BY <2>1, NamesAgree DEF ChunkSound
  <2>6. QED
    BY <2>2, <2>3, <2>4, <2>5 DEF TextPreserved
<1>2. QED
  BY <1>1, EvidenceInvariant, PTL

\* A chunk's estimate is within its limit and a block's by the sum of its parts',
\* and blocks that adjoin are separate only because of their sizes.
THEOREM LimitsKept == Spec => []WithinLimits
<1>1. EvidenceInv => WithinLimits
  <2> SUFFICES ASSUME EvidenceInv PROVE WithinLimits
    OBVIOUS
  <2>1. ASSUME NEW c \in DOMAIN chunks PROVE Tokens(Len(chunks[c].words)) \in 1..ChunkMax
    <3>1. c \in 1..Len(chunks) /\ Chunked(blocks, chunks, current, pending)
      BY DEF EvidenceInv, ChunkingInv, Chunked
    <3>2. ChunkSound(blocks, chunks[c])
      BY <3>1 DEF Chunked
    <3>3. QED
      BY <3>2 DEF ChunkSound
  <2>2. blocks \in Seq(Block) /\ Len(blocks) \in Nat /\ DOMAIN blocks = 1..Len(blocks)
    BY SoundBlocks DEF EvidenceInv
  <2>3. ASSUME NEW n \in DOMAIN blocks
        PROVE  /\ PartTokens(blocks[n].parts) \in 1..BlockMax
               /\ Tokens(Len(Words(blocks[n]))) < BlockMax + Len(blocks[n].parts)
    <3>1. BlockSound(blocks[n], End(document), Origins(document)) /\ Words(blocks[n]) \in Text
      BY <2>2, SoundBlocks DEF EvidenceInv
    <3>2. PICK parts \in Seq(Text) : parts = blocks[n].parts
      BY <3>1 DEF BlockSound, SoundParts
    <3>3. /\ PartTokens(parts) \in 1..BlockMax
          /\ Tokens(Len(FlattenSeq(parts))) < PartTokens(parts) + Len(parts)
      BY <3>1, <3>2 DEF BlockSound, SoundParts
    <3>4. Words(blocks[n]) = FlattenSeq(parts) /\ Len(Words(blocks[n])) \in Nat
      BY <3>1, <3>2, LenProperties DEF Words, Text
    <3>5. Tokens(Len(FlattenSeq(parts))) \in Nat
      BY <3>4, TokensSound
    <3>6. Len(parts) \in Nat /\ BlockMax \in Nat
      BY <3>2, EvidenceAssumption
    <3>7. Tokens(Len(FlattenSeq(parts))) < BlockMax + Len(parts)
      BY <3>3, <3>5, <3>6
    <3>8. QED
      BY <3>2, <3>3, <3>4, <3>7
  <2>4. ASSUME NEW n \in 1..(Len(blocks) - 1), Adjoining(n)
        PROVE  \/ PartTokens(blocks[n].parts) >= BlockTarget
               \/ PartTokens(blocks[n].parts) + Tokens(Len(Head(blocks[n + 1].parts))) > BlockMax
    <3>1. BlocksSound(blocks, End(document), Origins(document))
      BY NamesAgree DEF EvidenceInv, GatheringInv, Sound
    <3>2. Apart(blocks[n], blocks[n + 1].path, GroupType(blocks[n + 1].kind), blocks[n + 1].parts)
      BY <3>1 DEF BlocksSound
    <3>3. Words(blocks[n + 1]) = FlattenSeq(blocks[n + 1].parts)
      BY DEF Words
    <3>4. QED
      BY <2>4, <3>2, <3>3 DEF Apart, Adjoining, Full
  <2>5. QED
    BY <2>1, <2>3, <2>4 DEF WithinLimits
<1>2. QED
  BY <1>1, EvidenceInvariant, PTL

-----------------------------------------------------------------------------
(***************************************************************************)
(* The tree of sections: W[p] is the set of the blocks that are counted in *)
(* the section p.                                                          *)
(***************************************************************************)
Paths == Seq(STRING)

AtPath(w, p) == {i \in w : blocks[i].path = p}

\* The section p spans and counts the blocks w.
Spans(s, p, w) ==
    /\ s \in [start : Nat, end : Nat, direct : Nat, descendants : Nat]
    /\ s.start \in w /\ s.end \in w
    /\ \A i \in w : s.start <= i /\ i <= s.end
    /\ s.descendants = Cardinality(w)
    /\ s.direct = Cardinality(AtPath(w, p))

Counts(tree, W) ==
    /\ W \in [Paths -> SUBSET Nat]
    /\ \A p \in Paths : IsFiniteSet(W[p])
    /\ IsFiniteSet(DOMAIN tree)
    /\ DOMAIN tree = {p \in Paths : W[p] # {}}
    /\ \A p \in DOMAIN tree : Spans(tree[p], p, W[p])

Longest(s, w, n) ==
    IF w # {} THEN [s EXCEPT !.end = n, !.descendants = @ + 1]
    ELSE [start |-> n, end |-> n, direct |-> 0, descendants |-> 1]

Marked(s, here) == IF here THEN [s EXCEPT !.direct = @ + 1] ELSE s

\* A block later than the ones of a section makes it longer and larger.
LEMMA SpansMore ==
  ASSUME NEW s, NEW p, NEW w \in SUBSET Nat, IsFiniteSet(w),
         w # {} => Spans(s, p, w),
         NEW n \in Nat, \A i \in w : i < n
  PROVE  Spans(Marked(Longest(s, w, n), p = blocks[n].path), p, w \cup {n})
<1> DEFINE v == w \cup {n}
<1>0. PICK here, counted : here = Longest(s, w, n) /\ counted = Marked(here, p = blocks[n].path)
  OBVIOUS
<1>1. n \notin w
  BY DEF Spans
<1>2. Cardinality(w) \in Nat /\ Cardinality(v) = Cardinality(w) + 1
  BY <1>1, FS_CardinalityType, FS_AddElement
<1>3. AtPath(w, p) \in SUBSET w
  BY DEF AtPath
<1>4. IsFiniteSet(AtPath(w, p)) /\ Cardinality(AtPath(w, p)) \in Nat
  BY <1>3, FS_Subset, FS_CardinalityType
<1>5. Cardinality(AtPath(v, p))
        = IF p = blocks[n].path THEN Cardinality(AtPath(w, p)) + 1 ELSE Cardinality(AtPath(w, p))
  <2>1. CASE p = blocks[n].path
    <3>1. AtPath(v, p) = AtPath(w, p) \cup {n} /\ n \notin AtPath(w, p)
      BY <1>1, <2>1 DEF AtPath
    <3>2. PICK S : S = AtPath(w, p)
      OBVIOUS
    <3>3. IsFiniteSet(S) /\ n \notin S
      BY <1>4, <3>1, <3>2
    <3>4. Cardinality(S \cup {n}) = Cardinality(S) + 1
      BY <3>3, FS_AddElement
    <3>5. Cardinality(AtPath(v, p)) = Cardinality(AtPath(w, p)) + 1
      BY <3>1, <3>2, <3>4
    <3>6. QED
      BY <2>1, <3>5
  <2>2. CASE p # blocks[n].path
    <3>1. AtPath(v, p) = AtPath(w, p)
      BY <2>2 DEF AtPath
    <3>2. QED
      BY <2>2, <3>1
  <2>3. QED
    BY <2>1, <2>2
<1>6. CASE w # {}
  <2>1. Spans(s, p, w)
    BY <1>6
  <2>2. /\ s \in [start : Nat, end : Nat, direct : Nat, descendants : Nat]
        /\ s.start \in w /\ \A i \in w : s.start <= i
        /\ s.descendants = Cardinality(w) /\ s.direct = Cardinality(AtPath(w, p))
    BY <2>1 DEF Spans
  <2>3. /\ here \in [start : Nat, end : Nat, direct : Nat, descendants : Nat]
        /\ here.start = s.start /\ here.end = n /\ here.direct = s.direct
        /\ here.descendants = s.descendants + 1
    <3>1. PICK a \in Nat, b \in Nat, c \in Nat, d \in Nat :
                s = [start |-> a, end |-> b, direct |-> c, descendants |-> d]
      BY <2>2
    <3>2. here = [s EXCEPT !.end = n, !.descendants = @ + 1]
      BY <1>0, <1>6 DEF Longest
    <3>3. here = [start |-> a, end |-> n, direct |-> c, descendants |-> d + 1]
      BY <3>1, <3>2
    <3>4. QED
      BY <3>1, <3>3
  <2>4. /\ counted \in [start : Nat, end : Nat, direct : Nat, descendants : Nat]
        /\ counted.start = s.start /\ counted.end = n
        /\ counted.direct = IF p = blocks[n].path THEN s.direct + 1 ELSE s.direct
        /\ counted.descendants = s.descendants + 1
    <3>1. PICK a \in Nat, b \in Nat, c \in Nat, d \in Nat :
                here = [start |-> a, end |-> b, direct |-> c, descendants |-> d]
      BY <2>3
    <3>2. counted = IF p = blocks[n].path THEN [here EXCEPT !.direct = @ + 1] ELSE here
      BY <1>0 DEF Marked
    <3>3. counted = [start |-> a, end |-> b, descendants |-> d,
                     direct |-> IF p = blocks[n].path THEN c + 1 ELSE c]
      BY <3>1, <3>2
    <3>4. QED
      BY <2>2, <2>3, <3>1, <3>3
  <2>5. counted.start \in v /\ counted.end \in v
    BY <2>2, <2>4
  <2>6. \A i \in v : counted.start <= i /\ i <= counted.end
    BY <2>2, <2>4
  <2>7. counted.descendants = Cardinality(v) /\ counted.direct = Cardinality(AtPath(v, p))
    BY <1>2, <1>5, <2>2, <2>4
  <2>8. QED
    BY <1>0, <2>4, <2>5, <2>6, <2>7 DEF Spans
<1>7. CASE w = {}
  <2>1. /\ here \in [start : Nat, end : Nat, direct : Nat, descendants : Nat]
        /\ here.start = n /\ here.end = n /\ here.direct = 0 /\ here.descendants = 1
        /\ here = [start |-> n, end |-> n, direct |-> 0, descendants |-> 1]
    BY <1>0, <1>7 DEF Longest
  <2>2. /\ counted \in [start : Nat, end : Nat, direct : Nat, descendants : Nat]
        /\ counted.start = n /\ counted.end = n
        /\ counted.direct = IF p = blocks[n].path THEN 1 ELSE 0
        /\ counted.descendants = 1
    BY <1>0, <2>1 DEF Marked
  <2>3. v = {n} /\ Cardinality(w) = 0 /\ AtPath(w, p) = {}
    BY <1>7, FS_EmptySet DEF AtPath
  <2>4. Cardinality(AtPath(w, p)) = 0
    BY <2>3, FS_EmptySet
  <2>5. counted.descendants = Cardinality(v) /\ counted.direct = Cardinality(AtPath(v, p))
    BY <1>2, <1>5, <2>2, <2>3, <2>4
  <2>6. QED
    BY <1>0, <2>2, <2>3, <2>5 DEF Spans
<1>8. QED
  BY <1>0, <1>6, <1>7

Counted(W, p, n) == [W EXCEPT ![p] = @ \cup {n}]

\* To count a block in a section leaves the others.
LEMMA CountInSound ==
  ASSUME NEW tree, NEW W, Counts(tree, W), NEW n \in Nat, NEW prefix \in Paths,
         \A i \in W[prefix] : i < n
  PROVE  Counts(CountIn(tree, n, prefix, blocks[n].path), Counted(W, prefix, n))
<1> DEFINE path == blocks[n].path
           here == IF prefix \in DOMAIN tree
                   THEN [tree[prefix] EXCEPT !.end = n, !.descendants = @ + 1]
                   ELSE [start |-> n, end |-> n, direct |-> 0, descendants |-> 1]
           counted == IF prefix = path THEN [here EXCEPT !.direct = @ + 1] ELSE here
<1>1. PICK more, V : more = CountIn(tree, n, prefix, path) /\ V = Counted(W, prefix, n)
  OBVIOUS
<1>2. more = [p \in DOMAIN tree \cup {prefix} |-> IF p = prefix THEN counted ELSE tree[p]]
  BY <1>1 DEF CountIn
<1>3. /\ W \in [Paths -> SUBSET Nat] /\ \A p \in Paths : IsFiniteSet(W[p])
      /\ IsFiniteSet(DOMAIN tree) /\ DOMAIN tree = {p \in Paths : W[p] # {}}
      /\ \A p \in DOMAIN tree : Spans(tree[p], p, W[p])
  BY DEF Counts
<1>4. /\ V \in [Paths -> SUBSET Nat] /\ V[prefix] = W[prefix] \cup {n}
      /\ \A p \in Paths : p # prefix => V[p] = W[p]
  BY <1>1, <1>3 DEF Counted
<1>5. Spans(counted, prefix, V[prefix])
  <2>1. PICK w \in SUBSET Nat : w = W[prefix] /\ IsFiniteSet(w)
    BY <1>3
  <2>2. prefix \in DOMAIN tree <=> w # {}
    BY <1>3, <2>1
  <2>3. w # {} => Spans(tree[prefix], prefix, w)
    BY <1>3, <2>1, <2>2
  <2>4. counted = Marked(Longest(tree[prefix], w, n), prefix = blocks[n].path)
    BY <2>2 DEF Longest, Marked
  <2>5. \A i \in w : i < n
    BY <2>1
  <2> HIDE DEF here, counted
  <2>6. Spans(Marked(Longest(tree[prefix], w, n), prefix = blocks[n].path), prefix, w \cup {n})
    BY <2>1, <2>3, <2>5, SpansMore
  <2>7. QED
    BY <1>4, <2>1, <2>4, <2>6
<1> HIDE DEF here, counted
<1>6. \A p \in Paths : IsFiniteSet(V[p])
  BY <1>3, <1>4, FS_AddElement
<1>7. DOMAIN more = DOMAIN tree \cup {prefix} /\ IsFiniteSet(DOMAIN more)
  BY <1>2, <1>3, FS_AddElement
<1>8. DOMAIN more = {p \in Paths : V[p] # {}}
  BY <1>3, <1>4, <1>7
<1>9. ASSUME NEW p \in DOMAIN more PROVE Spans(more[p], p, V[p])
  <2>1. CASE p = prefix
    BY <1>2, <1>5, <1>7, <2>1
  <2>2. CASE p # prefix
    <3>1. p \in DOMAIN tree /\ p \in Paths /\ more[p] = tree[p]
      BY <1>2, <1>3, <1>7, <2>2
    <3>2. QED
      BY <1>3, <1>4, <2>2, <3>1
  <2>3. QED
    BY <2>1, <2>2
<1>10. Counts(more, V)
  BY <1>4, <1>6, <1>7, <1>8, <1>9 DEF Counts
<1>11. QED
  BY <1>1, <1>10

(***************************************************************************)
(* The loops over the depths of a path and over the blocks.                *)
(***************************************************************************)
Climbs(tree, n, path, N, f) ==
    f = [depth \in 0..N |->
            CountIn(IF depth = 0 THEN tree ELSE f[depth - 1], n, SubSeq(path, 1, depth), path)]

\* The first is defined.
LEMMA ClimbsExist ==
  ASSUME NEW tree, NEW n, NEW path, NEW N \in Nat
  PROVE  \E f : Climbs(tree, n, path, N, f)
<1> DEFINE S == {k \in Nat : \E f : Climbs(tree, n, path, k, f)}
           turn(before, depth) == CountIn(before, n, SubSeq(path, 1, depth), path)
<1>1. 0 \in S
  <2>1. Climbs(tree, n, path, 0, [depth \in 0..0 |-> turn(tree, 0)])
    BY DEF Climbs
  <2>2. QED
    BY <2>1
<1>2. ASSUME NEW k \in Nat, k \in S PROVE k + 1 \in S
  <2>1. PICK f : Climbs(tree, n, path, k, f)
    BY <1>2
  <2> DEFINE g == [i \in 0..(k + 1) |-> IF i = k + 1 THEN turn(f[k], i) ELSE f[i]]
  <2>2. ASSUME NEW i \in 0..(k + 1)
        PROVE  g[i] = turn(IF i = 0 THEN tree ELSE g[i - 1], i)
    <3> HIDE DEF turn
    <3>1. CASE i = k + 1
      BY <3>1
    <3>2. CASE i # k + 1
      <4>1. i \in 0..k /\ g[i] = f[i]
        BY <3>2
      <4>2. f[i] = turn(IF i = 0 THEN tree ELSE f[i - 1], i)
        BY <2>1, <4>1 DEF Climbs, turn
      <4>3. i # 0 => g[i - 1] = f[i - 1]
        BY <4>1
      <4>4. QED
        BY <4>1, <4>2, <4>3
    <3>3. QED
      BY <3>1, <3>2
  <2>3. Climbs(tree, n, path, k + 1, g)
    BY <2>2 DEF Climbs
  <2>4. QED
    BY <2>3
<1> HIDE DEF S
<1>3. \A k \in Nat : k \in S
  BY <1>1, <1>2, InductionOnSet
<1>4. QED
  BY <1>3 DEF S

\* CountBlock is its last value.
LEMMA CountBlockIs ==
  ASSUME NEW tree, NEW n, NEW path, path = blocks[n].path, Len(path) \in Nat
  PROVE  \E f : Climbs(tree, n, path, Len(path), f) /\ CountBlock(tree, n) = f[Len(path)]
<1> DEFINE f == CHOOSE f : Climbs(tree, n, path, Len(path), f)
<1>1. Climbs(tree, n, path, Len(path), f)
  BY ClimbsExist
<1>2. CountBlock(tree, n) = f[Len(path)]
  BY DEF CountBlock, Climbs
<1> HIDE DEF f
<1>3. QED
  BY <1>1, <1>2

Trees(N, f) == f = [n \in 0..N |-> IF n = 0 THEN [p \in {} |-> 0] ELSE CountBlock(f[n - 1], n)]

\* So is the second.
LEMMA TreesExist == ASSUME NEW N \in Nat PROVE \E f : Trees(N, f)
<1> DEFINE S == {k \in Nat : \E f : Trees(k, f)}
           none == [p \in {} |-> 0]
<1>1. 0 \in S
  <2>1. Trees(0, [n \in 0..0 |-> none])
    BY DEF Trees
  <2>2. QED
    BY <2>1
<1>2. ASSUME NEW k \in Nat, k \in S PROVE k + 1 \in S
  <2>1. PICK f : Trees(k, f)
    BY <1>2
  <2> DEFINE g == [i \in 0..(k + 1) |-> IF i = k + 1 THEN CountBlock(f[k], i) ELSE f[i]]
  <2>2. ASSUME NEW i \in 0..(k + 1)
        PROVE  g[i] = IF i = 0 THEN none ELSE CountBlock(g[i - 1], i)
    <3> HIDE DEF none
    <3>1. CASE i = k + 1
      BY <3>1
    <3>2. CASE i # k + 1
      <4>1. i \in 0..k /\ g[i] = f[i]
        BY <3>2
      <4>2. f[i] = IF i = 0 THEN none ELSE CountBlock(f[i - 1], i)
        BY <2>1, <4>1 DEF Trees, none
      <4>3. i # 0 => g[i - 1] = f[i - 1]
        BY <4>1
      <4>4. QED
        BY <4>1, <4>2, <4>3
    <3>3. QED
      BY <3>1, <3>2
  <2>3. Trees(k + 1, g)
    BY <2>2 DEF Trees
  <2>4. QED
    BY <2>3
<1> HIDE DEF S
<1>3. \A k \in Nat : k \in S
  BY <1>1, <1>2, InductionOnSet
<1>4. QED
  BY <1>3 DEF S

\* SectionTree is its last value.
LEMMA SectionTreeIs ==
  ASSUME Len(blocks) \in Nat
  PROVE  \E f : Trees(Len(blocks), f) /\ SectionTree = f[Len(blocks)]
<1> DEFINE f == CHOOSE f : Trees(Len(blocks), f)
<1>1. Trees(Len(blocks), f)
  BY TreesExist
<1>2. SectionTree = f[Len(blocks)]
  BY DEF SectionTree, Trees
<1> HIDE DEF f
<1>3. QED
  BY <1>1, <1>2

\* The blocks up to n that are in the section p; of n, up to a depth.
Within(n) == [p \in Paths |-> {i \in 1..n : StartsWith(blocks[i].path, p)}]

WithinTo(n, d) ==
    [p \in Paths |-> {i \in 1..n : StartsWith(blocks[i].path, p) /\ (i = n => Len(p) <= d)}]

Beginning(path, d, prefix) ==
    /\ prefix \in Paths /\ Len(prefix) = d
    /\ StartsWith(path, prefix)
    /\ \A q \in Paths : StartsWith(path, q) /\ Len(q) = d => q = prefix

\* The sections at and above a path are its beginnings.
LEMMA PrefixSound ==
  ASSUME NEW path \in Paths, NEW d \in 0..Len(path)
  PROVE  Beginning(path, d, SubSeq(path, 1, d))
<1>0. PICK prefix : prefix = SubSeq(path, 1, d)
  OBVIOUS
<1>1. PICK l \in Nat : l = Len(path)
  BY DEF Paths
<1>2. prefix \in Paths /\ Len(prefix) = d
  <2>1. d \in Nat /\ \A i \in 1..d : path[i] \in STRING
    BY <1>1, ElementOfSeq DEF Paths
  <2>2. SubSeq(path, 1, d) \in Seq(STRING) /\ Len(SubSeq(path, 1, d)) = IF 1 <= d THEN d - 1 + 1 ELSE 0
    BY <2>1, SubSeqProperties
  <2>3. QED
    BY <1>0, <2>1, <2>2 DEF Paths
<1>3. StartsWith(path, prefix)
  BY <1>0, <1>1, <1>2 DEF StartsWith
<1>4. \A q \in Paths : StartsWith(path, q) /\ Len(q) = d => q = prefix
  BY <1>0 DEF StartsWith
<1>5. QED
  BY <1>0, <1>2, <1>3, <1>4 DEF Beginning

\* What a turn of the loop over the depths counts.
LEMMA WithinStep ==
  ASSUME blocks \in Seq(Block), NEW n \in 1..Len(blocks), NEW path, path = blocks[n].path,
         NEW d \in 0..Len(path), NEW prefix, prefix = SubSeq(path, 1, d)
  PROVE  /\ prefix \in Paths
         /\ \A i \in WithinTo(n, d - 1)[prefix] : i < n
         /\ Counted(WithinTo(n, d - 1), prefix, n) = WithinTo(n, d)
<1>1. path \in Paths
  <2>1. blocks[n] \in Block
    BY ElementOfSeq
  <2>2. QED
    BY <2>1 DEF Block, Paths
<1>2. /\ prefix \in Paths /\ Len(prefix) = d /\ StartsWith(path, prefix)
      /\ \A q \in Paths : StartsWith(path, q) /\ Len(q) = d => q = prefix
  BY <1>1, PrefixSound DEF Beginning
<1>3. d \in Nat /\ n \in Nat /\ Len(blocks) \in Nat
  BY <1>1 DEF Paths
<1> DEFINE in(q, i) == StartsWith(blocks[i].path, q)
<1>4. ASSUME NEW i \in WithinTo(n, d - 1)[prefix] PROVE i < n
  <2>1. i \in 1..n /\ (i = n => Len(prefix) <= d - 1)
    BY <1>2 DEF WithinTo
  <2>2. QED
    BY <1>2, <1>3, <2>1
<1>5. ASSUME NEW q \in Paths
      PROVE  Counted(WithinTo(n, d - 1), prefix, n)[q] = WithinTo(n, d)[q]
  <2>1. PICK l \in Nat : l = Len(q)
    BY DEF Paths
  <2>2. WithinTo(n, d - 1)[q] = {i \in 1..n : in(q, i) /\ (i = n => l <= d - 1)}
    BY <2>1 DEF WithinTo
  <2>3. WithinTo(n, d)[q] = {i \in 1..n : in(q, i) /\ (i = n => l <= d)}
    BY <2>1 DEF WithinTo
  <2>4. in(q, n) /\ l = d => q = prefix
    BY <1>2, <2>1
  <2>5. q = prefix => in(q, n) /\ l = d
    BY <1>2, <2>1
  <2>6. Counted(WithinTo(n, d - 1), prefix, n)[q]
            = IF q = prefix THEN WithinTo(n, d - 1)[q] \cup {n} ELSE WithinTo(n, d - 1)[q]
    BY DEF Counted, WithinTo
  <2> HIDE DEF in
  <2>7. l <= d <=> (l <= d - 1 \/ l = d)
    BY <1>3, <2>1
  <2>8. n \in 1..n
    BY <1>3
  <2>9. CASE q = prefix
    <3>1. {i \in 1..n : in(q, i) /\ (i = n => l <= d)}
            = {i \in 1..n : in(q, i) /\ (i = n => l <= d - 1)} \cup {n}
      BY <2>5, <2>7, <2>8, <2>9
    <3>2. QED
      BY <2>2, <2>3, <2>6, <2>9, <3>1
  <2>10. CASE q # prefix
    <3>1. {i \in 1..n : in(q, i) /\ (i = n => l <= d)}
            = {i \in 1..n : in(q, i) /\ (i = n => l <= d - 1)}
      BY <2>4, <2>7, <2>10
    <3>2. QED
      BY <2>2, <2>3, <2>6, <2>10, <3>1
  <2>11. QED
    BY <2>9, <2>10
<1>6. Counted(WithinTo(n, d - 1), prefix, n) = WithinTo(n, d)
  <2>1. /\ Counted(WithinTo(n, d - 1), prefix, n)
            = [q \in Paths |-> Counted(WithinTo(n, d - 1), prefix, n)[q]]
        /\ WithinTo(n, d) = [q \in Paths |-> WithinTo(n, d)[q]]
    BY DEF Counted, WithinTo
  <2>2. QED
    BY <1>5, <2>1
<1>7. QED
  BY <1>2, <1>4, <1>6

\* A turn of the loop over the depths.
LEMMA ClimbSound ==
  ASSUME blocks \in Seq(Block), NEW n \in 1..Len(blocks), NEW before, NEW d \in 0..Len(blocks[n].path),
         Counts(before, WithinTo(n, d - 1))
  PROVE  Counts(CountIn(before, n, SubSeq(blocks[n].path, 1, d), blocks[n].path), WithinTo(n, d))
<1>1. PICK prefix : prefix = SubSeq(blocks[n].path, 1, d)
  OBVIOUS
<1>2. /\ prefix \in Paths
      /\ \A i \in WithinTo(n, d - 1)[prefix] : i < n
      /\ Counted(WithinTo(n, d - 1), prefix, n) = WithinTo(n, d)
  BY <1>1, WithinStep
<1>3. n \in Nat
  OBVIOUS
<1>4. Counts(CountIn(before, n, prefix, blocks[n].path), Counted(WithinTo(n, d - 1), prefix, n))
  BY <1>2, <1>3, CountInSound
<1>5. QED
  BY <1>1, <1>2, <1>4

\* A turn of the loop over the blocks.
LEMMA CountBlockSound ==
  ASSUME blocks \in Seq(Block), NEW n \in 1..Len(blocks), NEW tree, Counts(tree, Within(n - 1))
  PROVE  Counts(CountBlock(tree, n), Within(n))
<1>1. PICK path \in Paths : path = blocks[n].path
  <2>1. blocks[n] \in Block
    BY ElementOfSeq
  <2>2. QED
    BY <2>1 DEF Block, Paths
<1>2. PICK l \in Nat : l = Len(path)
  BY <1>1 DEF Paths
<1>3. PICK f : Climbs(tree, n, path, l, f) /\ CountBlock(tree, n) = f[l]
  BY <1>1, <1>2, CountBlockIs
<1>4. \A p \in Paths : Len(p) \in Nat
  BY LenProperties DEF Paths
<1>5. WithinTo(n, 0 - 1) = Within(n - 1)
  <2>1. ASSUME NEW p \in Paths
        PROVE  {i \in 1..n : StartsWith(blocks[i].path, p) /\ (i = n => Len(p) <= 0 - 1)}
                    = {i \in 1..(n - 1) : StartsWith(blocks[i].path, p)}
    <3>1. ~(Len(p) <= 0 - 1)
      BY <1>4
    <3>2. \A i : i \in 1..n /\ i # n <=> i \in 1..(n - 1)
      OBVIOUS
    <3>3. QED
      BY <3>1, <3>2
  <2>2. QED
    BY <2>1 DEF WithinTo, Within
<1>6. WithinTo(n, l) = Within(n)
  <2>1. ASSUME NEW p \in Paths, StartsWith(blocks[n].path, p) PROVE Len(p) <= l
    BY <1>1, <1>2, <2>1 DEF StartsWith
  <2>2. ASSUME NEW p \in Paths
        PROVE  {i \in 1..n : StartsWith(blocks[i].path, p) /\ (i = n => Len(p) <= l)}
                    = {i \in 1..n : StartsWith(blocks[i].path, p)}
    BY <2>1
  <2>3. QED
    BY <2>2 DEF WithinTo, Within
<1> DEFINE turn(before, d) == CountIn(before, n, SubSeq(path, 1, d), path)
           S == {d \in Nat : d <= l => Counts(f[d], WithinTo(n, d))}
<1>7. f[0] = turn(tree, 0) /\ \A d \in 1..l : f[d] = turn(f[d - 1], d)
  <2>1. \A d \in 0..l : f[d] = turn(IF d = 0 THEN tree ELSE f[d - 1], d)
    BY <1>3 DEF Climbs
  <2> HIDE DEF turn
  <2>2. QED
    BY <1>2, <2>1
<1>8. ASSUME NEW d \in 0..l, NEW before, Counts(before, WithinTo(n, d - 1))
      PROVE  Counts(turn(before, d), WithinTo(n, d))
  <2>1. d \in 0..Len(blocks[n].path)
    BY <1>1, <1>2
  <2>2. QED
    BY <1>1, <1>8, <2>1, ClimbSound
<1> HIDE DEF turn
<1>9. 0 \in S
  <2>1. 0 \in 0..l
    BY <1>2
  <2>2. QED
    BY <1>5, <1>7, <1>8, <2>1
<1>10. ASSUME NEW d \in Nat, d \in S PROVE d + 1 \in S
  <2>1. CASE d + 1 <= l
    <3>1. d + 1 \in 1..l /\ d + 1 \in 0..l /\ (d + 1) - 1 = d /\ d <= l
      BY <2>1
    <3>2. Counts(f[d], WithinTo(n, d))
      BY <1>10, <3>1
    <3>3. Counts(turn(f[d], d + 1), WithinTo(n, d + 1))
      BY <1>8, <3>1, <3>2
    <3>4. QED
      BY <1>7, <3>1, <3>3
  <2>2. QED
    BY <2>1
<1> HIDE DEF S
<1>11. \A d \in Nat : d \in S
  BY <1>9, <1>10, InductionOnSet
<1>12. QED
  BY <1>3, <1>6, <1>11 DEF S

\* The tree counts all blocks.
LEMMA TreeSound == ASSUME blocks \in Seq(Block) PROVE Counts(SectionTree, Within(Len(blocks)))
<1>1. PICK l \in Nat : l = Len(blocks)
  OBVIOUS
<1>2. PICK f : Trees(l, f) /\ SectionTree = f[l]
  BY <1>1, SectionTreeIs
<1> DEFINE none == [p \in {} |-> 0]
           S == {n \in Nat : n <= l => Counts(f[n], Within(n))}
<1>3. f[0] = none /\ \A n \in 1..l : f[n] = CountBlock(f[n - 1], n)
  BY <1>2 DEF Trees
<1>4. Counts(none, Within(0))
  <2>1. Within(0) = [p \in Paths |-> {}]
    BY DEF Within
  <2>2. DOMAIN none = {}
    OBVIOUS
  <2>3. QED
    BY <2>1, <2>2, FS_EmptySet DEF Counts
<1> HIDE DEF none
<1>5. 0 \in S
  BY <1>3, <1>4
<1>6. ASSUME NEW n \in Nat, n \in S PROVE n + 1 \in S
  <2>1. CASE n + 1 <= l
    <3>1. n + 1 \in 1..l /\ (n + 1) - 1 = n /\ n <= l
      BY <2>1
    <3>2. Counts(f[n], Within((n + 1) - 1))
      BY <1>6, <3>1
    <3>3. Counts(CountBlock(f[n], n + 1), Within(n + 1))
      BY <1>1, <3>1, <3>2, CountBlockSound
    <3>4. QED
      BY <1>3, <3>1, <3>3
  <2>2. QED
    BY <2>1
<1> HIDE DEF S
<1>7. \A n \in Nat : n \in S
  BY <1>5, <1>6, InductionOnSet
<1>8. QED
  BY <1>1, <1>2, <1>7 DEF S

\* The least and the greatest of a set are what Min and Max choose.
LEMMA MinMaxAre ==
  ASSUME NEW w \in SUBSET Nat, NEW a \in w, NEW b \in w, \A i \in w : a <= i /\ i <= b
  PROVE  a = Min(w) /\ b = Max(w)
<1>1. a = Min(w)
  <2>1. \A x \in w : (\A y \in w : x <= y) => x = a
    OBVIOUS
  <2>2. QED
    BY <2>1 DEF Min
<1>2. b = Max(w)
  <2>1. \A x \in w : (\A y \in w : x >= y) => x = b
    OBVIOUS
  <2>2. \A y \in w : b >= y
    OBVIOUS
  <2>3. QED
    BY <2>1, <2>2 DEF Max
<1>3. QED
  BY <1>1, <1>2

\* A section has a section below it exactly when a block is in it and not at it.
LEMMA ChildrenAre ==
  ASSUME blocks \in Seq(Block), NEW tree, Counts(tree, Within(Len(blocks))), NEW p \in DOMAIN tree
  PROVE  ChildCount(tree, p) = 0
            <=> \A n \in Within(Len(blocks))[p] : blocks[n].path = p
<1> DEFINE children == {q \in DOMAIN tree : q # <<>> /\ Front(q) = p}
<1>1. PICK l \in Nat : l = Len(blocks)
  OBVIOUS
<1>2. /\ DOMAIN tree = {q \in Paths : Within(l)[q] # {}} /\ IsFiniteSet(DOMAIN tree)
      /\ p \in Paths
  BY <1>1 DEF Counts
<1>3. \A q \in Paths : Within(l)[q] = {i \in 1..l : StartsWith(blocks[i].path, q)}
  BY DEF Within
<1>4. \A n \in 1..l : blocks[n].path \in Paths
  <2>1. \A n \in 1..l : blocks[n] \in Block
    BY <1>1, ElementOfSeq
  <2>2. QED
    BY <2>1 DEF Block, Paths
<1>5. PICK k \in Nat : k = Len(p)
  BY <1>2 DEF Paths
<1>6. ChildCount(tree, p) = 0 <=> children = {}
  <2>1. children \in SUBSET DOMAIN tree
    OBVIOUS
  <2>2. IsFiniteSet(children)
    BY <1>2, <2>1, FS_Subset
  <2>3. ChildCount(tree, p) = Cardinality(children)
    BY DEF ChildCount
  <2> HIDE DEF children
  <2>4. QED
    BY <2>2, <2>3, FS_EmptySet
<1>7. ASSUME NEW q \in children
      PROVE  \E n \in Within(l)[p] : blocks[n].path # p
  <2>1. q \in Paths /\ q # <<>> /\ Front(q) = p /\ Within(l)[q] # {}
    BY <1>2
  <2>2. PICK n \in 1..l : StartsWith(blocks[n].path, q)
    BY <1>3, <2>1
  <2>3. PICK path \in Paths : path = blocks[n].path
    BY <1>4
  <2>4. PICK j \in Nat : j = Len(q) /\ j # 0
    BY <2>1, EmptySeq DEF Paths
  <2>5. p = SubSeq(q, 1, j - 1)
    BY <2>1, <2>4 DEF Front
  <2>6. k = j - 1
    <3>1. \A i \in 1..(j - 1) : q[i] \in STRING
      BY <2>1, <2>4, ElementOfSeq DEF Paths
    <3>2. Len(SubSeq(q, 1, j - 1)) = IF 1 <= j - 1 THEN j - 1 - 1 + 1 ELSE 0
      BY <2>4, <3>1, SubSeqProperties
    <3>3. QED
      BY <1>5, <2>4, <2>5, <3>2
  <2>7. j <= Len(path) /\ SubSeq(path, 1, j) = q
    BY <2>2, <2>3, <2>4 DEF StartsWith
  <2>8. SubSeq(path, 1, k) = p
    <3>1. PICK m \in Nat : m = Len(path) /\ path \in Seq(STRING)
      BY <2>3 DEF Paths
    <3>2. \A i \in 1..j : q[i] = path[i]
      BY <2>4, <2>7, <3>1
    <3>3. \A i \in 1..k : p[i] = q[i]
      BY <2>1, <2>4, <2>5, <2>6 DEF Paths
    <3>4. \A i \in 1..k : p[i] = path[i]
      BY <2>6, <3>2, <3>3
    <3>5. k <= m
      BY <2>6, <2>7, <3>1
    <3>6. PICK t : t = SubSeq(path, 1, k)
      OBVIOUS
    <3>7. t \in Seq(STRING) /\ Len(t) = k /\ \A i \in 1..k : t[i] = path[i]
      BY <3>1, <3>5, <3>6
    <3>8. p \in Seq(STRING) /\ Len(p) = Len(t) /\ \A i \in 1..Len(p) : p[i] = t[i]
      BY <1>2, <1>5, <3>4, <3>7 DEF Paths
    <3>9. QED
      BY <3>6, <3>7, <3>8, SeqEqual
  <2>9. StartsWith(path, p)
    BY <1>5, <2>3, <2>6, <2>7, <2>8, LenProperties DEF StartsWith, Paths
  <2>10. path # p
    <3>1. PICK m \in Nat : m = Len(path)
      BY <2>3 DEF Paths
    <3>2. m # k
      BY <2>4, <2>6, <2>7, <3>1
    <3>3. QED
      BY <1>5, <3>1, <3>2
  <2>11. n \in Within(l)[p]
    BY <1>2, <1>3, <2>3, <2>9
  <2>12. QED
    BY <2>3, <2>10, <2>11
<1>8. ASSUME NEW n \in Within(l)[p], blocks[n].path # p
      PROVE  children # {}
  <2>1. n \in 1..l /\ StartsWith(blocks[n].path, p)
    BY <1>2, <1>3
  <2>2. PICK path \in Paths : path = blocks[n].path
    BY <1>4, <2>1
  <2>3. PICK m \in Nat : m = Len(path)
    BY <2>2 DEF Paths
  <2>4. k <= m /\ SubSeq(path, 1, k) = p
    BY <1>5, <2>1, <2>2, <2>3 DEF StartsWith
  <2>5. k # m
    <3>1. SubSeq(path, 1, m) = path
      BY <2>2, <2>3, SubSeqFull DEF Paths
    <3>2. QED
      BY <1>8, <2>2, <2>4, <3>1
  <2>6. PICK q : q = SubSeq(path, 1, k + 1)
    OBVIOUS
  <2>7. k + 1 \in 0..Len(path)
    BY <2>3, <2>4, <2>5
  <2>8. q \in Paths /\ Len(q) = k + 1 /\ StartsWith(path, q)
    BY <2>2, <2>6, <2>7, PrefixSound DEF Beginning
  <2>9. q \in DOMAIN tree
    BY <1>2, <1>3, <2>1, <2>2, <2>8
  <2>10. q # <<>>
    BY <2>8
  <2>11. Front(q) = p
    <3>1. Front(q) = SubSeq(q, 1, k)
      BY <2>8 DEF Front
    <3>2. path \in Seq(STRING) /\ q \in Seq(STRING) /\ p \in Seq(STRING)
      BY <1>2, <2>2, <2>8 DEF Paths
    <3>3. \A i \in 1..(k + 1) : q[i] = path[i]
      BY <2>3, <2>6, <2>7, <3>2
    <3>4. \A i \in 1..k : p[i] = path[i]
      BY <2>3, <2>4, <3>2
    <3>5. PICK t : t = SubSeq(q, 1, k)
      OBVIOUS
    <3>6. t \in Seq(STRING) /\ Len(t) = k /\ \A i \in 1..k : t[i] = q[i]
      BY <2>8, <3>2, <3>5
    <3>7. \A i \in 1..k : t[i] = p[i]
      <4>1. \A i \in 1..k : i \in 1..(k + 1)
        OBVIOUS
      <4>2. QED
        BY <3>3, <3>4, <3>6, <4>1
    <3>8. t = p
      BY <1>5, <3>2, <3>6, <3>7, SeqEqual
    <3>9. QED
      BY <3>1, <3>5, <3>8
  <2>12. QED
    BY <2>9, <2>10, <2>11
<1> HIDE DEF children
<1>9. (\E n \in Within(l)[p] : blocks[n].path # p) <=> children # {}
  BY <1>7, <1>8
<1>10. QED
  BY <1>1, <1>6, <1>9

\* The tree has a section for every path and all that are above it, that spans
\* and counts the blocks in it.
LEMMA TreeRight ==
  ASSUME blocks \in Seq(Block)
  PROVE  LET tree == SectionTree
             within(p) == {n \in DOMAIN blocks : StartsWith(blocks[n].path, p)}
         IN
         /\ DOMAIN tree = UNION {{SubSeq(blocks[n].path, 1, depth) : depth \in 0..Len(blocks[n].path)} :
                                 n \in DOMAIN blocks}
         /\ \A p \in DOMAIN tree :
                 /\ tree[p].descendants = Cardinality(within(p))
                 /\ tree[p].direct = Cardinality({n \in within(p) : blocks[n].path = p})
                 /\ tree[p].start = Min(within(p)) /\ tree[p].end = Max(within(p))
                 /\ ChildCount(tree, p) = 0 <=> \A n \in within(p) : blocks[n].path = p
<1> DEFINE within(p) == {n \in DOMAIN blocks : StartsWith(blocks[n].path, p)}
           above(n) == {SubSeq(blocks[n].path, 1, depth) : depth \in 0..Len(blocks[n].path)}
<1>1. PICK tree : tree = SectionTree
  OBVIOUS
<1>2. PICK l \in Nat : l = Len(blocks) /\ DOMAIN blocks = 1..l
  OBVIOUS
<1>3. Counts(tree, Within(l))
  BY <1>1, <1>2, TreeSound
<1>4. \A p \in Paths : Within(l)[p] = within(p)
  BY <1>2 DEF Within
<1>5. \A n \in 1..l : blocks[n].path \in Paths
  <2>1. \A n \in 1..l : blocks[n] \in Block
    BY <1>2, ElementOfSeq
  <2>2. QED
    BY <2>1 DEF Block, Paths
<1>6. DOMAIN tree = {p \in Paths : within(p) # {}}
  BY <1>3, <1>4 DEF Counts
<1>7. DOMAIN tree = UNION {above(n) : n \in DOMAIN blocks}
  <2>1. ASSUME NEW p \in DOMAIN tree PROVE \E n \in DOMAIN blocks : p \in above(n)
    <3>1. PICK n \in DOMAIN blocks : StartsWith(blocks[n].path, p)
      BY <1>6
    <3>2. Len(p) \in Nat /\ Len(blocks[n].path) \in Nat
      BY <1>2, <1>5, <1>6, LenProperties DEF Paths
    <3>3. Len(p) \in 0..Len(blocks[n].path) /\ p = SubSeq(blocks[n].path, 1, Len(p))
      BY <3>1, <3>2 DEF StartsWith
    <3>4. QED
      BY <3>3
  <2>2. ASSUME NEW n \in DOMAIN blocks, NEW p \in above(n) PROVE p \in DOMAIN tree
    <3>1. PICK d \in 0..Len(blocks[n].path) : p = SubSeq(blocks[n].path, 1, d)
      OBVIOUS
    <3>2. Beginning(blocks[n].path, d, p)
      BY <1>2, <1>5, <3>1, PrefixSound
    <3>3. QED
      BY <1>6, <3>2 DEF Beginning
  <2> HIDE DEF above
  <2>3. QED
    BY <2>1, <2>2
<1>8. ASSUME NEW p \in DOMAIN tree
      PROVE  /\ tree[p].descendants = Cardinality(within(p))
             /\ tree[p].direct = Cardinality({n \in within(p) : blocks[n].path = p})
             /\ tree[p].start = Min(within(p)) /\ tree[p].end = Max(within(p))
             /\ ChildCount(tree, p) = 0 <=> \A n \in within(p) : blocks[n].path = p
  <2>1. PICK w \in SUBSET Nat : w = within(p) /\ w = Within(l)[p] /\ Spans(tree[p], p, w)
    <3>1. p \in Paths /\ Within(l)[p] = within(p)
      BY <1>4, <1>6
    <3>2. within(p) \in SUBSET Nat
      BY <1>2
    <3>3. Spans(tree[p], p, Within(l)[p])
      BY <1>3 DEF Counts
    <3> HIDE DEF within
    <3>4. QED
      BY <3>1, <3>2, <3>3
  <2> HIDE DEF within
  <2>2. /\ tree[p].start \in w /\ tree[p].end \in w
        /\ \A i \in w : tree[p].start <= i /\ i <= tree[p].end
        /\ tree[p].descendants = Cardinality(w)
        /\ tree[p].direct = Cardinality(AtPath(w, p))
    BY <2>1 DEF Spans
  <2>3. tree[p].start = Min(w) /\ tree[p].end = Max(w)
    BY <2>2, MinMaxAre
  <2>4. ChildCount(tree, p) = 0 <=> \A n \in w : blocks[n].path = p
    BY <1>2, <1>3, <2>1, ChildrenAre
  <2>5. QED
    BY <2>1, <2>2, <2>3, <2>4 DEF AtPath
<1>9. QED
  BY <1>1, <1>7, <1>8

\* A block has the section and the type of each of its words; a chunk goes on into
\* another section only while it is short; the tree of sections counts all blocks.
THEOREM SectionsKept == Spec => []SectionsRespected
<1>1. EvidenceInv => SectionsRespected
  <2> SUFFICES ASSUME EvidenceInv PROVE SectionsRespected
    OBVIOUS
  <2>1. /\ blocks \in Seq(Block) /\ Len(blocks) \in Nat /\ DOMAIN blocks = 1..Len(blocks)
        /\ document \in Seq(Element)
    BY SoundBlocks DEF EvidenceInv, GatheringInv
  <2>2. ASSUME NEW n \in DOMAIN blocks, NEW word \in Range(Words(blocks[n]))
        PROVE  LET e == document[ElementOf(word)] IN
               e.path = blocks[n].path /\ GroupType(e.kind) = GroupType(blocks[n].kind)
    <3>1. BlockSound(blocks[n], End(document), Origins(document))
      BY <2>1, SoundBlocks DEF EvidenceInv
    <3>2. <<word, blocks[n].path, GroupType(blocks[n].kind)>> \in Origins(document)
      BY <3>1 DEF BlockSound
    <3>3. QED
      BY <2>1, <3>2, OriginOne
  <2>3. ASSUME NEW c \in DOMAIN chunks, NEW i \in 1..(Len(chunks[c].blocks) - 1)
        PROVE  LET numbers == chunks[c].blocks IN
               \/ blocks[numbers[i]].path = blocks[numbers[i + 1]].path
               \/ Tokens(Len(WordsOf(SubSeq(numbers, 1, i)))) < ChunkMin
    <3>1. c \in 1..Len(chunks) /\ Chunked(blocks, chunks, current, pending)
      BY DEF EvidenceInv, ChunkingInv, Chunked
    <3>2. Stays(blocks, chunks[c].blocks)
      BY <3>1 DEF Chunked, ChunkSound
    <3>3. QED
      BY <3>2, NamesAgree DEF Stays
  <2>4. QED
    BY <2>1, <2>2, <2>3, TreeRight DEF SectionsRespected
<1>2. QED
  BY <1>1, EvidenceInvariant, PTL
==============================================================================
