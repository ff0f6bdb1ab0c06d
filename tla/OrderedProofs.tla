---------------------------- MODULE OrderedProofs ----------------------------
(***************************************************************************)
(* A finite set of naturals has a sequence of its elements in order.  The  *)
(* place of an element is the number of elements that are not greater,     *)
(* and no two have one place, so that places and elements are as many.     *)
(* Any two sequences by keys have the same keys in the same places.        *)
(* Besides, induction over a set of naturals and over a measure, and that  *)
(* a recursion over a measure is defined.                                  *)
(***************************************************************************)
EXTENDS Ordered, FiniteSetTheorems, WellFoundedInduction, TLAPS

(***************************************************************************)
(* Induction over the naturals, for a set and not for an operator: a set   *)
(* that has zero and with each number the next one has them all, for there *)
(* is no least number that it lacks.                                       *)
(***************************************************************************)
LEMMA InductionOnSet ==
  ASSUME NEW S, 0 \in S, \A n \in Nat : n \in S => n + 1 \in S
  PROVE  \A n \in Nat : n \in S
<1> SUFFICES ASSUME Nat \ S # {} PROVE FALSE
  OBVIOUS
<1>1. PICK n \in Nat \ S : \A m \in Nat \ S : <<m, n>> \notin OpToRel(<, Nat)
  BY NatLessThanWellFounded, WFMin
<1>2. \A m \in Nat \ S : ~(m < n)
  BY <1>1 DEF OpToRel
<1>3. n # 0 /\ n - 1 \in Nat /\ n = (n - 1) + 1
  OBVIOUS
<1>4. n - 1 \in S
  BY <1>2, <1>3
<1>5. QED
  BY <1>3, <1>4

\* The elements of S that are not greater than x.
UpTo(S, x) == {y \in S : y <= x}

\* Of two elements the greater has the later place.
LEMMA PlacesOrdered ==
  ASSUME NEW S \in SUBSET Nat, IsFiniteSet(S), NEW x \in S, NEW y \in S, x < y
  PROVE  Cardinality(UpTo(S, x)) < Cardinality(UpTo(S, y))
<1>1. IsFiniteSet(UpTo(S, y)) /\ UpTo(S, x) \in SUBSET UpTo(S, y)
  <2>1. UpTo(S, y) \in SUBSET S /\ UpTo(S, x) \in SUBSET UpTo(S, y)
    <3>1. \A z \in S : z \in Nat
      OBVIOUS
    <3>2. \A z \in S : z <= x => z <= y
      BY <3>1
    <3>3. QED
      BY <3>2 DEF UpTo
  <2>2. QED
    BY <2>1, FS_Subset
<1>2. y \in UpTo(S, y) /\ y \notin UpTo(S, x)
  BY DEF UpTo
<1>3. IsFiniteSet(UpTo(S, x)) /\ Cardinality(UpTo(S, x)) <= Cardinality(UpTo(S, y))
      /\ Cardinality(UpTo(S, x)) # Cardinality(UpTo(S, y))
  BY <1>1, <1>2, FS_Subset
<1>4. QED
  BY <1>1, <1>3, FS_CardinalityType

\* The sequence of the elements of a finite set of naturals, each once and in
\* their order.
THEOREM AscendingIsOrder ==
  ASSUME NEW S \in SUBSET Nat, IsFiniteSet(S)
  PROVE  /\ Ascending(S) \in Seq(S) /\ Len(Ascending(S)) = Cardinality(S)
         /\ \A i, j \in 1..Cardinality(S) :
                /\ i < j => Ascending(S)[i] < Ascending(S)[j]
                /\ Ascending(S)[i] = Ascending(S)[j] => i = j
         /\ \A x \in S : \E i \in 1..Cardinality(S) : Ascending(S)[i] = x
<1> DEFINE n == Cardinality(S)
           place == [x \in S |-> Cardinality(UpTo(S, x))]
<1>1. n \in Nat /\ IsFiniteSet(1..n) /\ Cardinality(1..n) = n
  BY FS_CardinalityType, FS_Interval
<1>2. \A x \in S : place[x] \in 1..n
  <2> SUFFICES ASSUME NEW x \in S PROVE Cardinality(UpTo(S, x)) \in 1..n
    OBVIOUS
  <2>1. UpTo(S, x) \in SUBSET S /\ x \in UpTo(S, x)
    BY DEF UpTo
  <2>2. IsFiniteSet(UpTo(S, x)) /\ Cardinality(UpTo(S, x)) <= n
    BY <2>1, FS_Subset
  <2>3. Cardinality(UpTo(S, x)) \in Nat /\ Cardinality(UpTo(S, x)) # 0
    BY <2>1, <2>2, FS_CardinalityType, FS_EmptySet
  <2>4. QED
    BY <1>1, <2>2, <2>3
<1>3. \A x, y \in S : x < y => place[x] < place[y]
  BY PlacesOrdered
<1>4. place \in [S -> 1..n]
  BY <1>2
<1> HIDE DEF n, place
<1>5. \A x, y \in S : place[x] = place[y] => x = y
  BY <1>1, <1>2, <1>3
<1>6. place \in Injection(S, 1..n)
  BY <1>4, <1>5 DEF Injection, IsInjective
<1>7. place \in Surjection(S, 1..n)
  BY <1>1, <1>6, FS_Injection DEF n
<1>8. \A i \in 1..n : \E x \in S : place[x] = i
  BY <1>7 DEF Surjection
<1> DEFINE at == [i \in 1..n |-> CHOOSE x \in S : place[x] = i]
<1>9. \A i \in 1..n : at[i] \in S /\ place[at[i]] = i
  BY <1>8
<1>10. at \in [1..n -> S]
  BY <1>9
<1> HIDE DEF at
<1>11. \A i, j \in 1..n : i < j => at[i] < at[j]
  <2> SUFFICES ASSUME NEW i \in 1..n, NEW j \in 1..n, i < j, ~(at[i] < at[j])
               PROVE  FALSE
    OBVIOUS
  <2>1. at[i] \in S /\ at[j] \in S /\ place[at[i]] = i /\ place[at[j]] = j
    BY <1>9
  <2>2. at[j] < at[i] \/ at[j] = at[i]
    <3>1. at[i] \in Nat /\ at[j] \in Nat
      BY <2>1
    <3>2. QED
      BY <3>1
  <2>3. j < i \/ j = i
    BY <1>3, <2>1, <2>2
  <2>4. QED
    BY <1>1, <2>3
<1>12. /\ Ascending(S) \in [1..n -> S]
       /\ \A i, j \in 1..n : i < j => Ascending(S)[i] < Ascending(S)[j]
  <2>1. \E s \in [1..n -> S] : \A i, j \in 1..n : i < j => s[i] < s[j]
    BY <1>10, <1>11
  <2>2. QED
    BY <2>1 DEF Ascending, n
<1>13. Ascending(S) \in Seq(S) /\ Len(Ascending(S)) = n
  BY <1>1, <1>12
<1>14. \A i, j \in 1..n : Ascending(S)[i] = Ascending(S)[j] => i = j
  <2> SUFFICES ASSUME NEW i \in 1..n, NEW j \in 1..n, i < j
               PROVE  Ascending(S)[i] # Ascending(S)[j]
    BY <1>1
  <2>1. Ascending(S)[i] \in Nat /\ Ascending(S)[j] \in Nat
    BY <1>12
  <2>2. QED
    BY <1>12, <2>1
<1>15. \A x \in S : \E i \in 1..n : Ascending(S)[i] = x
  <2>1. Ascending(S) \in Injection(1..n, S)
    BY <1>12, <1>14 DEF Injection, IsInjective
  <2>2. Ascending(S) \in Surjection(1..n, S)
    BY <1>1, <2>1, FS_Injection DEF n
  <2>3. QED
    BY <2>2 DEF Surjection
<1>16. QED
  BY <1>12, <1>13, <1>14, <1>15 DEF n

\* An ordering by keys lists every element once.
LEMMA OrderingIsListing ==
  ASSUME NEW S, IsFiniteSet(S), NEW key, NEW s \in Orderings(S, key)
  PROVE  /\ s \in Seq(S) /\ Len(s) = Cardinality(S) /\ Cardinality(S) \in Nat
         /\ DOMAIN s = 1..Cardinality(S)
         /\ \A i, j \in 1..Cardinality(S) : s[i] = s[j] => i = j
         /\ \A x \in S : \E i \in 1..Cardinality(S) : s[i] = x
<1> DEFINE n == Cardinality(S)
<1>1. n \in Nat /\ IsFiniteSet(1..n) /\ Cardinality(1..n) = n
  BY FS_CardinalityType, FS_Interval
<1>2. s \in [1..n -> S] /\ \A i, j \in 1..n : i < j => s[i] # s[j]
  BY DEF Orderings
<1> HIDE DEF n
<1>3. \A i, j \in 1..n : s[i] = s[j] => i = j
  <2> SUFFICES ASSUME NEW i \in 1..n, NEW j \in 1..n, i # j PROVE s[i] # s[j]
    OBVIOUS
  <2>1. i < j \/ j < i
    BY <1>1
  <2>2. QED
    BY <1>2, <2>1
<1>4. s \in Injection(1..n, S)
  BY <1>2, <1>3 DEF Injection, IsInjective
<1>5. s \in Surjection(1..n, S)
  BY <1>1, <1>4, FS_Injection DEF n
<1>6. \A x \in S : \E i \in 1..n : s[i] = x
  BY <1>5 DEF Surjection
<1>7. s \in Seq(S) /\ Len(s) = n /\ DOMAIN s = 1..n
  BY <1>1, <1>2
<1>8. QED
  BY <1>1, <1>3, <1>6, <1>7 DEF n

\* In the same place the one has no lesser key than the other: what precedes it
\* in the other would have to make room for one element more.
LEMMA OrderingsBound ==
  ASSUME NEW S, IsFiniteSet(S), NEW key, \A x \in S : key[x] \in Nat,
         NEW s \in Orderings(S, key), NEW t \in Orderings(S, key), NEW i \in 1..Cardinality(S),
         key[s[i]] < key[t[i]]
  PROVE  FALSE
<1> DEFINE n == Cardinality(S)
<1>1. /\ n \in Nat /\ i \in 1..n
      /\ \A a, b \in 1..n : s[a] = s[b] => a = b
      /\ \A x \in S : \E k \in 1..n : t[k] = x
  <2>1. n \in Nat /\ \A a, b \in 1..n : s[a] = s[b] => a = b
    BY OrderingIsListing
  <2>2. \A x \in S : \E k \in 1..n : t[k] = x
    BY OrderingIsListing
  <2>3. QED
    BY <2>1, <2>2
<1>2. /\ s \in [1..n -> S] /\ t \in [1..n -> S]
      /\ \A a, b \in 1..n : a < b => key[s[a]] <= key[s[b]] /\ key[t[a]] <= key[t[b]]
  BY DEF Orderings
<1> HIDE DEF n
<1>3. ASSUME NEW a \in 1..i PROVE \E k \in 1..(i - 1) : t[k] = s[a]
  <2>1. a \in 1..n /\ s[a] \in S /\ s[i] \in S /\ t[i] \in S
    <3>1. a \in 1..n
      BY <1>1
    <3>2. QED
      BY <1>1, <1>2, <3>1
  <2>2. key[s[a]] \in Nat /\ key[s[i]] \in Nat /\ key[t[i]] \in Nat
    BY <2>1
  <2>3. a = i \/ key[s[a]] <= key[s[i]]
    BY <1>1, <1>2, <2>1
  <2>4. key[s[a]] < key[t[i]]
    BY <2>2, <2>3
  <2>5. PICK k \in 1..n : t[k] = s[a]
    BY <1>1, <2>1
  <2>6. ~(i < k) /\ i # k
    <3>1. ASSUME i < k PROVE FALSE
      <4>1. key[t[i]] <= key[s[a]]
        BY <1>1, <1>2, <2>5, <3>1
      <4>2. QED
        BY <2>2, <2>4, <4>1
    <3>2. QED
      BY <2>2, <2>4, <2>5, <3>1
  <2>7. k \in 1..(i - 1)
    BY <1>1, <2>6
  <2>8. QED
    BY <2>5, <2>7
<1> DEFINE f == [a \in 1..i |-> CHOOSE k \in 1..(i - 1) : t[k] = s[a]]
<1>4. \A a \in 1..i : f[a] \in 1..(i - 1) /\ t[f[a]] = s[a]
  BY <1>3
<1>5. f \in [1..i -> 1..(i - 1)]
  BY <1>4
<1> HIDE DEF f
<1>6. /\ IsFiniteSet(1..i) /\ Cardinality(1..i) = i
      /\ IsFiniteSet(1..(i - 1)) /\ Cardinality(1..(i - 1)) = i - 1
  <2>1. i \in Int /\ i - 1 \in Int /\ 1 \in Int /\ ~(1 > i)
    BY <1>1
  <2>2. IsFiniteSet(1..i) /\ Cardinality(1..i) = i
    BY <2>1, FS_Interval
  <2>3. IsFiniteSet(1..(i - 1)) /\ Cardinality(1..(i - 1)) = IF 1 > i - 1 THEN 0 ELSE (i - 1) - 1 + 1
    BY <2>1, FS_Interval
  <2>4. QED
    BY <2>1, <2>2, <2>3
<1>7. Cardinality(1..(i - 1)) < Cardinality(1..i)
  BY <1>1, <1>6
<1>8. \E a, b \in 1..i : a # b /\ f[a] = f[b]
  BY <1>5, <1>6, <1>7, FS_PigeonHole
<1>9. QED
  <2>1. PICK a \in 1..i, b \in 1..i : a # b /\ f[a] = f[b]
    BY <1>8
  <2>2. s[a] = s[b] /\ a \in 1..n /\ b \in 1..n
    BY <1>1, <1>4, <2>1
  <2>3. QED
    BY <1>1, <2>1, <2>2

\* Any two orderings by the same keys differ in what ties only.
THEOREM OrderingsAgree ==
  ASSUME NEW S, IsFiniteSet(S), NEW key, \A x \in S : key[x] \in Nat,
         NEW s \in Orderings(S, key), NEW t \in Orderings(S, key), NEW i \in 1..Cardinality(S)
  PROVE  key[s[i]] = key[t[i]]
<1>1. ~(key[s[i]] < key[t[i]]) /\ ~(key[t[i]] < key[s[i]])
  BY OrderingsBound
<1>2. s[i] \in S /\ t[i] \in S
  BY DEF Orderings
<1>3. key[s[i]] \in Nat /\ key[t[i]] \in Nat
  BY <1>2
<1>4. QED
  BY <1>1, <1>3

-----------------------------------------------------------------------------
(***************************************************************************)
(* Recursion over a set X: what is computed for x may depend on what is    *)
(* computed for y when y measures less.  A turn computes, from all values, *)
(* the value of each x anew.                                               *)
(***************************************************************************)
Recursive(X, V, measure, turn, K) ==
    /\ measure \in [X -> 0..K]
    /\ turn \in [[X -> V] -> [X -> V]]
    /\ \A f, g \in [X -> V], x \in X :
            (\A y \in X : measure[y] < measure[x] => f[y] = g[y]) => turn[f][x] = turn[g][x]

\* The recursion is defined.
LEMMA RecursionExists ==
  ASSUME NEW X, NEW V, NEW K \in Nat, NEW measure, NEW turn, Recursive(X, V, measure, turn, K),
         NEW some \in V
  PROVE  \E f \in [X -> V] : f = turn[f]
<1> DEFINE Upto(n) == \E f \in [X -> V] : \A x \in X : measure[x] < n => f[x] = turn[f][x]
           S == {n \in Nat : Upto(n)}
<1>1. 0 \in S
  <2>1. [x \in X |-> some] \in [X -> V]
    OBVIOUS
  <2>2. \A x \in X : ~(measure[x] < 0)
    BY DEF Recursive
  <2>3. QED
    BY <2>1, <2>2
<1>2. ASSUME NEW n \in Nat, n \in S PROVE n + 1 \in S
  <2>1. PICK f \in [X -> V] : \A x \in X : measure[x] < n => f[x] = turn[f][x]
    BY <1>2
  <2>2. PICK g \in [X -> V] : g = turn[f]
    BY DEF Recursive
  <2>3. ASSUME NEW x \in X, measure[x] < n + 1 PROVE g[x] = turn[g][x]
    <3>1. ASSUME NEW y \in X, measure[y] < measure[x] PROVE f[y] = g[y]
      <4>1. measure[x] \in Nat /\ measure[y] \in Nat
        BY DEF Recursive
      <4>2. measure[y] < n
        BY <2>3, <3>1, <4>1
      <4>3. QED
        BY <2>1, <2>2, <4>2
    <3>2. turn[f][x] = turn[g][x]
      BY <3>1 DEF Recursive
    <3>3. QED
      BY <2>2, <3>2
  <2>4. QED
    BY <2>3
<1> HIDE DEF S
<1>3. \A n \in Nat : n \in S
  BY <1>1, <1>2, InductionOnSet
<1>4. PICK f \in [X -> V] : \A x \in X : measure[x] < K + 1 => f[x] = turn[f][x]
  BY <1>3 DEF S
<1>5. \A x \in X : measure[x] < K + 1
  BY DEF Recursive
<1>6. turn[f] \in [X -> V]
  BY DEF Recursive
<1>7. f = turn[f]
  BY <1>4, <1>5, <1>6
<1>8. QED
  BY <1>7

\* What holds of x when it holds of all that measure less holds of all.
LEMMA MeasureInduction ==
  ASSUME NEW X, NEW K \in Nat, NEW measure \in [X -> 0..K], NEW P,
         \A x \in X : (\A y \in X : measure[y] < measure[x] => y \in P) => x \in P
  PROVE  \A x \in X : x \in P
<1> DEFINE S == {n \in Nat : \A x \in X : measure[x] < n => x \in P}
<1>1. 0 \in S
  OBVIOUS
<1>2. ASSUME NEW n \in Nat, n \in S PROVE n + 1 \in S
  <2>1. ASSUME NEW x \in X, measure[x] < n + 1 PROVE x \in P
    <3>1. ASSUME NEW y \in X, measure[y] < measure[x] PROVE y \in P
      <4>1. measure[y] < n
        BY <2>1, <3>1
      <4>2. QED
        BY <1>2, <4>1
    <3>2. QED
      BY <3>1
  <2>2. QED
    BY <2>1
<1> HIDE DEF S
<1>3. \A n \in Nat : n \in S
  BY <1>1, <1>2, InductionOnSet
<1>4. ASSUME NEW x \in X PROVE x \in P
  <2>1. K + 1 \in S /\ measure[x] < K + 1
    BY <1>3
  <2>2. QED
    BY <2>1 DEF S
<1>5. QED
  BY <1>4
=============================================================================
