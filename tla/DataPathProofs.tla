---------------------------- MODULE DataPathProofs ----------------------------
(* Proofs about DataPath: no two addresses share a place and places lead   *)
(* back; what was written, inverted or not, is what the cells hold; and    *)
(* the lives that are left count the wear.                                 *)
EXTENDS DataPath, FunctionTheorems, FiniteSetTheorems, SequenceTheorems, WellFoundedInduction, TLAPS
-----------------------------------------------------------------------------
(* Induction over numbers and over finite sets, recursive sequences, and   *)
(* division.                                                               *)
\* A set of numbers that holds zero and, with a number, the next one.
LEMMA CountingUp ==
  ASSUME NEW n \in Nat, NEW T, 0 \in T, \A k \in 1 .. n : k - 1 \in T => k \in T
  PROVE  \A k \in 0 .. n : k \in T
<1> DEFINE R == OpToRel(<, Nat)
           rest == {k \in 0 .. n : k \notin T}
<1>1. IsWellFoundedOn(R, Nat)
  BY NatLessThanWellFounded
<1>2. \A x, y \in rest : <<y, x>> \in R <=> y < x
  BY DEF OpToRel
<1>3. rest \in SUBSET Nat
  OBVIOUS
<1> HIDE DEF R
<1>4. SUFFICES ASSUME rest # {}
               PROVE  FALSE
  OBVIOUS
<1>5. PICK x \in rest : \A y \in rest : ~ (<<y, x>> \in R)
  BY <1>1, <1>3, <1>4, WFMin
<1>6. x \in 1 .. n /\ x - 1 \in 0 .. n
  BY <1>5
<1>7. x - 1 \in rest
  BY <1>5, <1>6
<1>8. <<x - 1, x>> \in R
  BY <1>2, <1>6, <1>7
<1>9. QED
  BY <1>5, <1>7, <1>8

\* A function on 0 .. n whose value at a place is made from that at the place before it.
Steps(n, V) == [1 .. n -> [V -> V]]
IsMadeBy(f, n, base, step) ==
  \A i \in 0 .. n : f[i] = IF i = 0 THEN base ELSE step[i][f[i - 1]]

\* There is such a function, for every first value and every step.
LEMMA RecursiveSequences ==
  ASSUME NEW n \in Nat, NEW V, NEW base \in V, NEW step \in Steps(n, V)
  PROVE  \E f \in [0 .. n -> V] : IsMadeBy(f, n, base, step)
<1> USE DEF Steps, IsMadeBy
<1> DEFINE Fits(f, k) == \A i \in 0 .. k : f[i] = IF i = 0 THEN base ELSE step[i][f[i - 1]]
           T == {k \in 0 .. n : \E f \in [0 .. n -> V] : Fits(f, k)}
<1>1. 0 \in T
  <2> DEFINE f == [i \in 0 .. n |-> base]
  <2>1. f \in [0 .. n -> V] /\ Fits(f, 0)
    OBVIOUS
  <2> HIDE DEF f
  <2>2. QED
    BY <2>1
<1>2. ASSUME NEW k \in 1 .. n, k - 1 \in T
      PROVE  k \in T
  <2>1. PICK f \in [0 .. n -> V] : Fits(f, k - 1)
    BY <1>2
  <2> DEFINE g == [i \in 0 .. n |-> IF i = k THEN step[k][f[k - 1]] ELSE f[i]]
  <2>2. f[k - 1] \in V
    OBVIOUS
  <2>3. step[k][f[k - 1]] \in V
    BY <2>2
  <2>4. g \in [0 .. n -> V] /\ g[k] = step[k][f[k - 1]] /\ \A i \in 0 .. k - 1 : g[i] = f[i]
    BY <2>3
  <2> HIDE DEF g
  <2>5. ASSUME NEW i \in 0 .. k
        PROVE  g[i] = IF i = 0 THEN base ELSE step[i][g[i - 1]]
    <3>1. CASE i = k
      BY <2>4, <3>1
    <3>2. CASE i # k
      <4>1. i \in 0 .. k - 1 /\ (i # 0 => i - 1 \in 0 .. k - 1)
        BY <3>2
      <4>2. f[i] = IF i = 0 THEN base ELSE step[i][f[i - 1]]
        BY <2>1, <4>1
      <4>3. QED
        BY <2>4, <4>1, <4>2
    <3>3. QED
      BY <3>1, <3>2
  <2>6. QED
    BY <2>4, <2>5
<1>3. n \in T
  <2> HIDE DEF T
  <2>1. \A k \in 0 .. n : k \in T
    BY <1>1, <1>2, CountingUp
  <2>2. QED
    BY <2>1
<1>4. QED
  BY <1>3

\* A set that holds a subset of S if it holds those with one element less.
LEMMA ElementByElement ==
  ASSUME NEW S, IsFiniteSet(S), NEW T,
         \A s \in SUBSET S : (\A x \in s : s \ {x} \in T) => s \in T
  PROVE  S \in T
<1> DEFINE n == Cardinality(S)
           K == {k \in 0 .. n : \A s \in SUBSET S : Cardinality(s) = k => s \in T}
<1>1. n \in Nat /\ \A s \in SUBSET S : IsFiniteSet(s) /\ Cardinality(s) \in 0 .. n
  BY FS_Subset, FS_CardinalityType
<1>2. 0 \in K
  <2>1. {} \in T
    OBVIOUS
  <2>2. QED
    BY <1>1, <2>1, FS_EmptySet
<1>3. ASSUME NEW k \in 1 .. n, k - 1 \in K
      PROVE  k \in K
  <2>1. ASSUME NEW s \in SUBSET S, Cardinality(s) = k
        PROVE  s \in T
    <3>1. ASSUME NEW x \in s
          PROVE  s \ {x} \in T
      <4>1. Cardinality(s \ {x}) = k - 1 /\ s \ {x} \in SUBSET S
        BY <1>1, <2>1, FS_RemoveElement
      <4>2. QED
        BY <1>3, <4>1
    <3>2. QED
      BY <3>1
  <2>2. QED
    BY <1>1, <2>1
<1>4. n \in K
  <2> HIDE DEF K
  <2>1. \A k \in 0 .. n : k \in K
    BY <1>1, <1>2, <1>3, CountingUp
  <2>2. QED
    BY <1>1, <2>1
<1>5. QED
  BY <1>4
-----------------------------------------------------------------------------
(* Whole numbers.                                                          *)

\* Quotient and remainder.
LEMMA Division ==
  ASSUME NEW a \in Nat, NEW n \in Nat \ {0}
  PROVE  /\ a \div n \in Nat /\ a % n \in Nat /\ a % n < n
         /\ a = (a \div n) * n + (a % n)
  OBVIOUS

\* Products of numbers are numbers.
LEMMA Product ==
  ASSUME NEW a \in Nat, NEW b \in Nat
  PROVE  a * b \in Nat /\ a * b = b * a
  OBVIOUS

\* A larger number of groups of n takes at least n more.
LEMMA ProductsGrow ==
  ASSUME NEW a \in Nat, NEW b \in Nat, a < b, NEW n \in Nat
  PROVE  a * n + n <= b * n
<1>1. (b - a - 1) * n \in Nat
  OBVIOUS
<1>2. (b - a - 1) * n = b * n - a * n - n
  OBVIOUS
<1>3. QED
  BY <1>1, <1>2, Product

\* There is one way to write a number with a remainder.
LEMMA Quotients ==
  ASSUME NEW q \in Nat, NEW n \in Nat \ {0}, NEW r \in Nat, r < n
  PROVE  (q * n + r) \div n = q /\ (q * n + r) % n = r
<1> DEFINE a == q * n + r
           d == a \div n
           m == a % n
<1>1. a \in Nat /\ q * n \in Nat
  BY Product
<1>2. d \in Nat /\ m \in Nat /\ m < n /\ a = d * n + m /\ d * n \in Nat
  BY <1>1, Division, Product
<1>3. a = q * n + r
  OBVIOUS
<1> HIDE DEF a, d, m
<1>4. ~ d < q
  <2>1. d < q => d * n + n <= q * n
    BY <1>2, ProductsGrow
  <2>2. QED
    BY <1>1, <1>2, <1>3, <2>1
<1>5. ~ q < d
  <2>1. q < d => q * n + n <= d * n
    BY <1>2, ProductsGrow
  <2>2. QED
    BY <1>1, <1>2, <1>3, <2>1
<1>6. d = q
  BY <1>2, <1>4, <1>5
<1>7. m = r
  BY <1>1, <1>2, <1>3, <1>6
<1>8. QED
  BY <1>6, <1>7 DEF a, d, m
-----------------------------------------------------------------------------
(* Powers of two, and the bits that tell things apart.                     *)
\* TwoTo doubles once for every bit.
LEMMA PowerUnfolds ==
  ASSUME NEW n \in Nat
  PROVE  \E g \in [0 .. n -> Nat \ {0}] :
           /\ g[0] = 1 /\ \A k \in 1 .. n : g[k] = 2 * g[k - 1]
           /\ TwoTo(n) = g[n]
<1> DEFINE V == Nat \ {0}
           Value(g, k) == IF k = 0 THEN 1 ELSE 2 * g[k - 1]
           IsIt(g) == g = [k \in 0 .. n |-> Value(g, k)]
           step == [i \in 1 .. n |-> [v \in V |-> 2 * v]]
<1>1. step \in Steps(n, V) /\ 1 \in V
  BY DEF Steps
<1>2. PICK f \in [0 .. n -> V] : IsMadeBy(f, n, 1, step)
  <2> HIDE DEF V, step
  <2>1. QED
    BY <1>1, RecursiveSequences
<1>3. \A i \in 0 .. n : f[i] = Value(f, i)
  <2> SUFFICES ASSUME NEW i \in 0 .. n PROVE f[i] = Value(f, i)
    OBVIOUS
  <2>1. i # 0 => i \in 1 .. n /\ f[i - 1] \in V
    OBVIOUS
  <2>2. QED
    BY <1>2, <2>1 DEF IsMadeBy
<1>4. IsIt(f)
  <2>1. f = [i \in 0 .. n |-> f[i]]
    OBVIOUS
  <2>2. QED
    BY <1>3, <2>1
<1> DEFINE g == CHOOSE f_1 : IsIt(f_1)
<1>5. IsIt(g)
  BY <1>4
<1>6. TwoTo(n) = g[n]
  BY DEF TwoTo
<1> HIDE DEF g
<1>7. \A k \in 0 .. n : g[k] = Value(g, k)
  BY <1>5
<1> DEFINE T == {k \in 0 .. n : g[k] \in V}
<1>8. \A k \in 0 .. n : k \in T
  <2>1. 0 \in T
    BY <1>7
  <2>2. ASSUME NEW k \in 1 .. n, k - 1 \in T PROVE k \in T
    <3>1. g[k] = 2 * g[k - 1] /\ g[k - 1] \in V
      BY <1>7, <2>2
    <3>2. QED
      BY <3>1
  <2> HIDE DEF T
  <2>3. QED
    BY <2>1, <2>2, CountingUp
<1>9. g \in [0 .. n -> V]
  <2>1. g = [k \in 0 .. n |-> g[k]]
    BY <1>5
  <2>2. QED
    BY <1>8, <2>1
<1>10. g[0] = 1 /\ \A k \in 1 .. n : g[k] = 2 * g[k - 1]
  BY <1>7
<1>11. QED
  BY <1>6, <1>9, <1>10

\* A power of two is positive, and the next one is twice as large.
LEMMA PowersOfTwo ==
  /\ TwoTo(0) = 1
  /\ \A k \in Nat : TwoTo(k) \in Nat \ {0} /\ TwoTo(k + 1) = 2 * TwoTo(k)
<1>1. TwoTo(0) = 1
  BY PowerUnfolds
<1>2. ASSUME NEW n \in Nat
      PROVE  TwoTo(n) \in Nat \ {0} /\ TwoTo(n + 1) = 2 * TwoTo(n)
  <2>1. PICK g \in [0 .. n -> Nat \ {0}] :
           g[0] = 1 /\ (\A k \in 1 .. n : g[k] = 2 * g[k - 1]) /\ TwoTo(n) = g[n]
    BY PowerUnfolds
  <2>2. PICK h \in [0 .. n + 1 -> Nat \ {0}] :
           h[0] = 1 /\ (\A k \in 1 .. n + 1 : h[k] = 2 * h[k - 1]) /\ TwoTo(n + 1) = h[n + 1]
    <3>1. n + 1 \in Nat
      OBVIOUS
    <3>2. QED
      BY <3>1, PowerUnfolds
  <2> DEFINE T == {k \in 0 .. n : g[k] = h[k]}
  <2>3. \A k \in 0 .. n : k \in T
    <3>1. 0 \in T
      BY <2>1, <2>2
    <3>2. ASSUME NEW k \in 1 .. n, k - 1 \in T PROVE k \in T
      <4>1. g[k] = 2 * g[k - 1]
        BY <2>1
      <4>2. k \in 1 .. n + 1 /\ k \in 0 .. n /\ k - 1 \in 0 .. n
        OBVIOUS
      <4>3. h[k] = 2 * h[k - 1]
        BY <2>2, <4>2
      <4>4. QED
        BY <3>2, <4>1, <4>2, <4>3
    <3> HIDE DEF T
    <3>3. QED
      BY <3>1, <3>2, CountingUp
  <2>4. h[n] = g[n] /\ n + 1 \in 1 .. n + 1
    BY <2>3
  <2>5. h[n + 1] = 2 * h[n]
    BY <2>2, <2>4
  <2>6. QED
    BY <2>1, <2>2, <2>4, <2>5
<1>3. QED
  BY <1>1, <1>2

\* The bits that tell num things apart.
LEMMA BitsOf ==
  ASSUME NEW num \in Nat \ {0}
  PROVE  mlog2(num) \in Nat /\ TwoTo(mlog2(num)) <= num
<1>1. CASE num < 2
  BY <1>1, PowersOfTwo DEF mlog2
<1>2. CASE ~ num < 2
  <2> DEFINE Within(k) == TwoTo(k) <= num /\ num < TwoTo(k + 1)
             T == {k \in 0 .. num : k < TwoTo(k)}
  <2>1. \A k \in 0 .. num : k \in T
    <3>1. 0 \in T
      BY PowersOfTwo
    <3>2. ASSUME NEW k \in 1 .. num, k - 1 \in T PROVE k \in T
      <4>1. TwoTo(k) = 2 * TwoTo(k - 1) /\ TwoTo(k - 1) \in Nat
        <5>1. k - 1 \in Nat /\ k = (k - 1) + 1
          OBVIOUS
        <5>2. QED
          BY <5>1, PowersOfTwo
      <4>2. QED
        BY <3>2, <4>1
    <3> HIDE DEF T
    <3>3. QED
      BY <3>1, <3>2, CountingUp
  <2>2. num < TwoTo(num)
    BY <2>1
  <2> DEFINE U == {k \in 0 .. num : TwoTo(k) <= num}
  <2>3. \E k \in 0 .. num : Within(k)
    <3>1. SUFFICES ASSUME \A k \in 0 .. num : ~ Within(k) PROVE FALSE
      OBVIOUS
    <3>2. 0 \in U
      BY PowersOfTwo
    <3>3. ASSUME NEW k \in 1 .. num, k - 1 \in U PROVE k \in U
      <4>1. k - 1 \in 0 .. num /\ (k - 1) + 1 = k /\ k \in 0 .. num /\ TwoTo(k) \in Nat
        BY PowersOfTwo
      <4>2. ~ num < TwoTo(k)
        BY <3>1, <3>3, <4>1
      <4>3. QED
        BY <4>1, <4>2
    <3>4. \A k \in 0 .. num : k \in U
      <4> HIDE DEF U
      <4>1. QED
        BY <3>2, <3>3, CountingUp
    <3>5. num \in U
      BY <3>4
    <3>6. QED
      BY <2>2, <3>5, PowersOfTwo
  <2>4. mlog2(num) = CHOOSE k \in 0 .. num : Within(k)
    BY <1>2 DEF mlog2
  <2>5. QED
    BY <2>3, <2>4
<1>3. QED
  BY <1>1, <1>2
-----------------------------------------------------------------------------
(* A scheme gives the parts the orders 1 to 6, in the order it names them  *)
(* and Unset the rest.                                                     *)
\* Unset lists the six parts, each once.
LEMMA PartsInOrder ==
  /\ DOMAIN Unset = 1 .. 6
  /\ \A i \in 1 .. 6 : Unset[i] \in Part
  /\ \A i, j \in 1 .. 6 : Unset[i] = Unset[j] => i = j
  /\ \A part \in Part : \E i \in 1 .. 6 : Unset[i] = part
  /\ IsFiniteSet(Part) /\ Cardinality(Part) = 6
<1>1. /\ Unset[1] = "SA" /\ Unset[2] = "CH" /\ Unset[3] = "RK"
      /\ Unset[4] = "BK" /\ Unset[5] = "R" /\ Unset[6] = "C"
  BY DEF Unset
<1>2. DOMAIN Unset = 1 .. 6
  BY DEF Unset
<1>3. \A i \in 1 .. 6 : i = 1 \/ i = 2 \/ i = 3 \/ i = 4 \/ i = 5 \/ i = 6
  OBVIOUS
<1>4. 1 \in 1 .. 6 /\ 2 \in 1 .. 6 /\ 3 \in 1 .. 6 /\ 4 \in 1 .. 6 /\ 5 \in 1 .. 6 /\ 6 \in 1 .. 6
  OBVIOUS
<1>5. \A i \in 1 .. 6 : Unset[i] \in Part
  BY <1>1, <1>3 DEF Part
<1>6. \A i, j \in 1 .. 6 : Unset[i] = Unset[j] => i = j
  BY <1>1, <1>3
<1>7. \A part \in Part : \E i \in 1 .. 6 : Unset[i] = part
  BY <1>1, <1>4 DEF Part
<1>8. IsFiniteSet(Part) /\ Cardinality(Part) = 6
  <2> DEFINE f == [i \in 1 .. 6 |-> Unset[i]]
  <2>1. f \in Bijection(1 .. 6, Part)
    BY <1>5, <1>6, <1>7 DEF Bijection, Injection, Surjection, IsInjective
  <2>2. ExistsBijection(1 .. 6, Part)
    BY <2>1 DEF ExistsBijection
  <2>3. QED
    BY <2>2, FS_CountingElements, FS_NatBijection
<1>9. QED
  BY <1>2, <1>5, <1>6, <1>7, <1>8

\* Schemes as the configuration may name them: no part twice.
Scheme(s) == s \in Seq(Part) /\ IsInjective(s)

\* What a scheme names, and how many parts it leaves out.
LEMMA NamedParts ==
  ASSUME NEW s, Scheme(s)
  PROVE  /\ Len(s) \in Nat /\ DOMAIN s = 1 .. Len(s) /\ ToSet(s) \subseteq Part
         /\ \A part \in ToSet(s) : \E i \in 1 .. Len(s) : s[i] = part
         /\ \A i \in 1 .. Len(s) : s[i] \in ToSet(s)
         /\ \A i, j \in 1 .. Len(s) : s[i] = s[j] => i = j
         /\ IsFiniteSet(Part \ ToSet(s)) /\ Cardinality(Part \ ToSet(s)) = 6 - Len(s)
<1> DEFINE n == Len(s)
           N == ToSet(s)
<1>1. s \in Seq(Part) /\ n \in Nat /\ DOMAIN s = 1 .. n
  BY LenProperties DEF Scheme
<1>2. N = {s[i] : i \in 1 .. n}
  BY <1>1 DEF ToSet
<1>3. \A i \in 1 .. n : s[i] \in Part
  BY <1>1, ElementOfSeq
<1>4. \A i, j \in 1 .. n : s[i] = s[j] => i = j
  BY <1>1 DEF Scheme, IsInjective
<1> HIDE DEF n, N
<1>5. N \subseteq Part
  BY <1>2, <1>3
<1>6. Cardinality(N) = n
  <2> DEFINE f == [i \in 1 .. n |-> s[i]]
  <2>1. f \in Bijection(1 .. n, N)
    BY <1>2, <1>4 DEF Bijection, Injection, Surjection, IsInjective
  <2>2. ExistsBijection(1 .. n, N)
    BY <2>1 DEF ExistsBijection
  <2>3. QED
    BY <1>1, <2>2, FS_CountingElements
<1>7. IsFiniteSet(Part \ N) /\ Cardinality(Part \ N) = 6 - n
  <2>1. IsFiniteSet(Part \ N) /\ Cardinality(Part \ N) = 6 - Cardinality(Part \cap N)
    BY PartsInOrder, FS_Difference
  <2>2. Part \cap N = N
    BY <1>5
  <2>3. QED
    BY <1>6, <2>1, <2>2
<1>8. QED
  BY <1>1, <1>2, <1>4, <1>5, <1>7 DEF n, N

\* No order is given twice, and none is left out.
LEMMA OrdersAreDistinct ==
  ASSUME NEW s, Scheme(s), NEW o, o = SetAddressMappingScheme(s)
  PROVE  /\ o \in [Part -> 1 .. 6]
         /\ \A a, b \in Part : o[a] = o[b] => a = b
         /\ \A i \in 1 .. 6 : \E part \in Part : o[part] = i
<1> DEFINE n == Len(s)
           N == ToSet(s)
           Count(part) == Cardinality(UnsetBefore(s, part))
           Place(part) == CHOOSE i \in DOMAIN s : s[i] = part
<1>1. /\ n \in Nat /\ DOMAIN s = 1 .. n /\ N \subseteq Part
      /\ \A part \in N : \E i \in 1 .. n : s[i] = part
      /\ \A i, j \in 1 .. n : s[i] = s[j] => i = j
      /\ IsFiniteSet(Part \ N) /\ Cardinality(Part \ N) = 6 - n
  BY NamedParts
<1>2. \A part \in N : Place(part) \in 1 .. n /\ s[Place(part)] = part
  BY <1>1
<1>3. \A part \in Part : o[part] = IF part \in N THEN 7 - Place(part) ELSE 6 - n - Count(part)
  BY DEF SetAddressMappingScheme
<1>4. n <= 6
  BY <1>1, FS_CardinalityType
<1>5. ASSUME NEW part \in Part \ N
      PROVE  Count(part) \in Nat /\ Count(part) < 6 - n
  <2> DEFINE B == UnsetBefore(s, part)
  <2>1. B \subseteq Part \ N
    BY DEF UnsetBefore
  <2>2. part \notin B
    BY <1>5, PartsInOrder DEF UnsetBefore
  <2> HIDE DEF B
  <2>3. IsFiniteSet(B) /\ Cardinality(B) <= 6 - n /\ Cardinality(B) # 6 - n /\ Cardinality(B) \in Nat
    BY <1>1, <1>5, <2>1, <2>2, FS_Subset, FS_CardinalityType
  <2>4. QED
    BY <1>1, <2>3 DEF B
<1>6. ASSUME NEW a \in Part \ N, NEW b \in Part \ N,
             NEW i \in 1 .. 6, NEW j \in 1 .. 6, Unset[i] = a, Unset[j] = b, i < j
      PROVE  Count(a) < Count(b)
  <2> DEFINE A == UnsetBefore(s, a)
             B == UnsetBefore(s, b)
  <2>1. B \subseteq Part \ N
    BY DEF UnsetBefore
  <2>2. a \in B
    BY <1>6, PartsInOrder DEF UnsetBefore
  <2>3. a \notin A
    BY <1>6, PartsInOrder DEF UnsetBefore
  <2>4. A \subseteq B
    <3> SUFFICES ASSUME NEW q \in Part \ N, NEW k \in 1 .. 6, NEW l \in 1 .. 6,
                        k < l, Unset[k] = q, Unset[l] = a
                 PROVE  q \in B
      BY PartsInOrder DEF UnsetBefore
    <3>1. l = i
      BY <1>6, PartsInOrder
    <3>2. k < j
      BY <1>6, <3>1
    <3>3. QED
      BY <1>6, <3>2, PartsInOrder DEF UnsetBefore
  <2> HIDE DEF A, B
  <2>5. IsFiniteSet(B) /\ IsFiniteSet(A) /\ Cardinality(A) <= Cardinality(B) /\ Cardinality(A) # Cardinality(B)
    BY <1>1, <2>1, <2>2, <2>3, <2>4, FS_Subset
  <2>6. Cardinality(A) \in Nat /\ Cardinality(B) \in Nat
    BY <2>5, FS_CardinalityType
  <2>7. QED
    BY <2>5, <2>6 DEF A, B
<1> HIDE DEF n, N, Count, Place
<1>7. \A part \in Part : o[part] \in 1 .. 6
  <2> SUFFICES ASSUME NEW part \in Part PROVE o[part] \in 1 .. 6
    OBVIOUS
  <2>1. CASE part \in N
    BY <1>1, <1>2, <1>3, <1>4, <2>1
  <2>2. CASE part \notin N
    <3>1. Count(part) \in Nat /\ Count(part) < 6 - n
      BY <1>5, <2>2
    <3>2. QED
      BY <1>1, <1>3, <1>4, <2>2, <3>1
  <2>3. QED
    BY <2>1, <2>2
<1>8. ASSUME NEW a \in Part, NEW b \in Part, o[a] = o[b]
      PROVE  a = b
  <2>1. CASE a \in N /\ b \in N
    BY <1>1, <1>2, <1>3, <1>4, <1>8, <2>1
  <2>2. CASE a \notin N /\ b \notin N
    <3>1. Count(a) = Count(b)
      BY <1>1, <1>3, <1>5, <1>8, <2>2
    <3>2. PICK i \in 1 .. 6, j \in 1 .. 6 : Unset[i] = a /\ Unset[j] = b
      BY PartsInOrder
    <3>3. ~ i < j /\ ~ j < i
      <4>1. Count(a) \in Nat /\ Count(b) \in Nat
        BY <1>5, <2>2
      <4>2. QED
        BY <1>6, <2>2, <3>1, <3>2, <4>1
    <3>4. QED
      BY <3>2, <3>3
  <2>3. ASSUME NEW c \in Part, NEW d \in Part, c \in N, d \notin N
        PROVE  o[c] # o[d]
    <3>1. o[c] = 7 - Place(c) /\ Place(c) \in 1 .. n
      BY <1>2, <1>3, <2>3
    <3>2. o[d] = 6 - n - Count(d) /\ Count(d) \in Nat
      BY <1>3, <1>5, <2>3
    <3>3. QED
      BY <1>1, <3>1, <3>2
  <2>4. QED
    BY <1>8, <2>1, <2>2, <2>3
<1>9. o \in [Part -> 1 .. 6]
  BY <1>7 DEF SetAddressMappingScheme
<1>10. o \in Surjection(Part, 1 .. 6)
  <2>1. o \in Injection(Part, 1 .. 6)
    BY <1>8, <1>9 DEF Injection, IsInjective
  <2>2. IsFiniteSet(1 .. 6) /\ Cardinality(1 .. 6) = 6
    <3>1. ExistsBijection(1 .. 6, 1 .. 6)
      <4>1. [i \in 1 .. 6 |-> i] \in Bijection(1 .. 6, 1 .. 6)
        BY DEF Bijection, Injection, Surjection, IsInjective
      <4>2. QED
        BY <4>1 DEF ExistsBijection
    <3>2. QED
      BY <3>1, FS_CountingElements, FS_NatBijection
  <2>3. QED
    BY <2>1, <2>2, PartsInOrder, FS_Injection
<1>11. QED
  BY <1>8, <1>9, <1>10 DEF Surjection

\* The parts from the lowest to the highest: each of them once.
LEMMA LowToHighIsAnOrder ==
  ASSUME NEW s, Scheme(s), NEW m, m.order = SetAddressMappingScheme(s)
  PROVE  /\ LowToHigh(m) \in [1 .. 6 -> Part]
         /\ \A i \in 1 .. 6 : m.order[LowToHigh(m)[i]] = i
         /\ \A i, j \in 1 .. 6 : LowToHigh(m)[i] = LowToHigh(m)[j] => i = j
         /\ \A part \in Part : \E i \in 1 .. 6 : LowToHigh(m)[i] = part
<1> DEFINE o == m.order
           l == LowToHigh(m)
<1>1. /\ o \in [Part -> 1 .. 6]
      /\ \A a, b \in Part : o[a] = o[b] => a = b
      /\ \A i \in 1 .. 6 : \E part \in Part : o[part] = i
  BY OrdersAreDistinct
<1>2. l = [i \in 1 .. 6 |-> CHOOSE part \in Part : o[part] = i]
  BY DEF LowToHigh, FindOrder
<1> HIDE DEF o, l
<1>3. \A i \in 1 .. 6 : l[i] \in Part /\ o[l[i]] = i
  BY <1>1, <1>2
<1>4. l \in [1 .. 6 -> Part]
  BY <1>2, <1>3
<1>5. \A part \in Part : l[o[part]] = part
  BY <1>1, <1>3
<1>6. QED
  BY <1>1, <1>3, <1>4, <1>5 DEF o, l
-----------------------------------------------------------------------------
(* Translating is dividing in turn: every decoder takes the remainders     *)
(* part by part.                                                           *)
\* The parts a decoder goes through, none twice.
Parts(parts) ==
  parts \in Seq(Part) /\ \A i, j \in 1 .. Len(parts) : parts[i] = parts[j] => i = j

SizesOf(m) == [part \in Part |-> TwoTo(m.bitWidths[part])]

\* Such a sequence is one of parts.
LEMMA PartsTyped ==
  ASSUME NEW parts, Parts(parts)
  PROVE  /\ Len(parts) \in Nat /\ DOMAIN parts = 1 .. Len(parts)
         /\ \A i \in 1 .. Len(parts) : parts[i] \in Part
         /\ ToSet(parts) = {parts[i] : i \in 1 .. Len(parts)}
  BY LenProperties, ElementOfSeq DEF Parts, ToSet

\* Every part has a positive size.
LEMMA SizesTyped ==
  ASSUME NEW m, m.bitWidths \in [Part -> Nat]
  PROVE  SizesOf(m) \in [Part -> Nat \ {0}]
  BY PowersOfTwo DEF SizesOf

\* What is left after 0, 1, ... parts, and the remainders that the parts get.
DividedInTurn(ref, sizes, parts, x) ==
  LET n == Len(parts)
  IN  /\ ref \in [0 .. n -> Nat] /\ ref[0] = x
      /\ \A i \in 1 .. n : ref[i] = ref[i - 1] \div sizes[parts[i]]
TakenInTurn(at, ref, sizes, parts) ==
  \A i \in 1 .. Len(parts) : at[parts[i]] = ref[i - 1] % sizes[parts[i]]

\* What Translate leaves of an address is divided by one size after the other.
LEMMA RefAddressUnfolds ==
  ASSUME NEW m, m.bitWidths \in [Part -> Nat], NEW parts, Parts(parts), NEW x \in Nat
  PROVE  DividedInTurn(RefAddress(m, parts, x), SizesOf(m), parts, x)
<1> DEFINE n == Len(parts)
           Value(f, i) == IF i = 0 THEN x ELSE Divide(m, f[i - 1], parts[i])
           IsIt(f) == f = [i \in 0 .. n |-> Value(f, i)]
           step == [i \in 1 .. n |-> [v \in Nat |-> Divide(m, v, parts[i])]]
           ref == CHOOSE f : IsIt(f)
<1>1. n \in Nat /\ \A i \in 1 .. n : parts[i] \in Part
  BY PartsTyped
<1>2. \A part \in Part : SizesOf(m)[part] \in Nat \ {0} /\ SizesOf(m)[part] = TwoTo(m.bitWidths[part])
  BY SizesTyped DEF SizesOf
<1> HIDE DEF n
<1>3. \A v \in Nat, i \in 1 .. n : Divide(m, v, parts[i]) = v \div SizesOf(m)[parts[i]]
  BY <1>1, <1>2 DEF Divide
<1>4. \A v \in Nat, i \in 1 .. n : Divide(m, v, parts[i]) \in Nat
  BY <1>1, <1>2, <1>3, Division
<1>5. step \in Steps(n, Nat)
  BY <1>4 DEF Steps
<1>6. PICK f \in [0 .. n -> Nat] : IsMadeBy(f, n, x, step)
  <2> HIDE DEF step
  <2>1. QED
    BY <1>1, <1>5, RecursiveSequences
<1>7. \A i \in 0 .. n : f[i] = Value(f, i)
  <2> SUFFICES ASSUME NEW i \in 0 .. n PROVE f[i] = Value(f, i)
    OBVIOUS
  <2>1. i # 0 => i \in 1 .. n /\ f[i - 1] \in Nat
    BY <1>1
  <2>2. QED
    BY <1>6, <2>1 DEF IsMadeBy
<1>8. IsIt(f)
  <2>1. f = [i \in 0 .. n |-> f[i]]
    OBVIOUS
  <2>2. QED
    BY <1>7, <2>1
<1>9. IsIt(ref)
  BY <1>8
<1>10. RefAddress(m, parts, x) = ref
  BY DEF RefAddress, n
<1> HIDE DEF ref
<1>11. \A i \in 0 .. n : ref[i] = Value(ref, i)
  BY <1>9
<1> DEFINE T == {k \in 0 .. n : ref[k] \in Nat}
<1>12. \A k \in 0 .. n : k \in T
  <2>1. 0 \in T
    BY <1>1, <1>11
  <2>2. ASSUME NEW k \in 1 .. n, k - 1 \in T PROVE k \in T
    <3>1. k \in 0 .. n /\ k # 0 /\ ref[k - 1] \in Nat
      BY <1>1, <2>2
    <3>2. ref[k] = Divide(m, ref[k - 1], parts[k])
      BY <1>11, <3>1
    <3>3. ref[k] \in Nat
      BY <1>4, <3>1, <3>2
    <3>4. QED
      BY <3>1, <3>3
  <2> HIDE DEF T
  <2>3. QED
    BY <1>1, <2>1, <2>2, CountingUp
<1>13. ref \in [0 .. n -> Nat]
  <2>1. ref = [i \in 0 .. n |-> ref[i]]
    BY <1>9
  <2>2. QED
    BY <1>12, <2>1
<1>14. ref[0] = x /\ \A i \in 1 .. n : ref[i] = ref[i - 1] \div SizesOf(m)[parts[i]]
  BY <1>1, <1>3, <1>11, <1>12
<1>15. QED
  BY <1>10, <1>13, <1>14 DEF n, DividedInTurn

\* What a part takes is a remainder, below its size; the others are at 0.
LEMMA TakenUnfolds ==
  ASSUME NEW m, m.bitWidths \in [Part -> Nat], NEW parts, Parts(parts), NEW x \in Nat
  PROVE  LET at == Taken(m, parts, x)
         IN  /\ TakenInTurn(at, RefAddress(m, parts, x), SizesOf(m), parts)
             /\ at \in [Part -> Nat]
             /\ \A part \in Part : at[part] < SizesOf(m)[part]
             /\ \A part \in Part \ ToSet(parts) : at[part] = 0
<1> DEFINE n == Len(parts)
           ref == RefAddress(m, parts, x)
           at == Taken(m, parts, x)
           Index(part) == CHOOSE j \in DOMAIN parts : parts[j] = part
<1>1. n \in Nat /\ DOMAIN parts = 1 .. n /\ \A i \in 1 .. n : parts[i] \in Part
  BY PartsTyped
<1>2. ref \in [0 .. n -> Nat]
  BY RefAddressUnfolds DEF DividedInTurn
<1>3. at = [part \in Part |->
                 IF part \notin ToSet(parts) THEN 0 ELSE Modulo(m, ref[Index(part) - 1], part)]
  BY DEF Taken
<1>4. \A i \in 1 .. n : parts[i] \in ToSet(parts) /\ Index(parts[i]) = i
  BY <1>1, PartsTyped DEF Parts
<1>5. \A part \in ToSet(parts) : \E i \in 1 .. n : part = parts[i]
  BY PartsTyped
<1>6. \A part \in Part : SizesOf(m)[part] \in Nat \ {0} /\ SizesOf(m)[part] = TwoTo(m.bitWidths[part])
  BY SizesTyped DEF SizesOf
<1> HIDE DEF n, ref, at, Index
<1>7. ASSUME NEW i \in 1 .. n
      PROVE  /\ at[parts[i]] = ref[i - 1] % SizesOf(m)[parts[i]]
             /\ at[parts[i]] \in Nat /\ at[parts[i]] < SizesOf(m)[parts[i]]
  <2>1. at[parts[i]] = ref[i - 1] % SizesOf(m)[parts[i]]
    BY <1>1, <1>3, <1>4, <1>6 DEF Modulo
  <2>2. ref[i - 1] \in Nat /\ SizesOf(m)[parts[i]] \in Nat \ {0}
    BY <1>1, <1>2, <1>6
  <2>3. QED
    BY <2>1, <2>2, Division
<1>8. \A part \in Part \ ToSet(parts) : at[part] = 0
  BY <1>3
<1>9. \A part \in Part : at[part] \in Nat /\ at[part] < SizesOf(m)[part]
  BY <1>5, <1>6, <1>7, <1>8
<1>10. at \in [Part -> Nat]
  BY <1>3, <1>9
<1>11. QED
  BY <1>7, <1>8, <1>9, <1>10 DEF n, ref, at, TakenInTurn

\* Units and addresses after 0, 1, ... parts.
AddressesUpTo(u, f, sizes, parts, unit, at) ==
  LET n == Len(parts)
  IN  /\ u \in [0 .. n -> Nat \ {0}] /\ f \in [0 .. n -> Nat]
      /\ u[0] = unit /\ \A i \in 1 .. n : u[i] = u[i - 1] * sizes[parts[i]]
      /\ f[0] = 0 /\ \A i \in 1 .. n : f[i] = f[i - 1] + at[parts[i]] * u[i - 1]
      /\ PutTogether(sizes, parts, unit, at) = [unit |-> u[n], phy |-> f[n]]

\* PutTogether adds one part after the other, in units of what came before.
LEMMA PutTogetherUnfolds ==
  ASSUME NEW sizes \in [Part -> Nat \ {0}], NEW parts, Parts(parts),
         NEW unit \in Nat \ {0}, NEW at \in [Part -> Nat]
  PROVE  \E u, f : AddressesUpTo(u, f, sizes, parts, unit, at)
<1> DEFINE n == Len(parts)
           V == Nat \ {0}
           UnitValue(g, i) == IF i = 0 THEN unit ELSE g[i - 1] * sizes[parts[i]]
           IsUnit(g) == g = [i \in 0 .. n |-> UnitValue(g, i)]
           unitStep == [i \in 1 .. n |-> [v \in V |-> v * sizes[parts[i]]]]
           u == CHOOSE g : IsUnit(g)
           PhyValue(g, i) == IF i = 0 THEN 0 ELSE g[i - 1] + at[parts[i]] * u[i - 1]
           IsPhy(g) == g = [i \in 0 .. n |-> PhyValue(g, i)]
           phyStep == [i \in 1 .. n |-> [v \in Nat |-> v + at[parts[i]] * u[i - 1]]]
           f == CHOOSE g : IsPhy(g)
<1>1. n \in Nat /\ \A i \in 1 .. n : parts[i] \in Part
  BY PartsTyped
<1>2. PutTogether(sizes, parts, unit, at) = [unit |-> u[n], phy |-> f[n]]
  BY DEF PutTogether
<1> HIDE DEF n
<1>3. \A i \in 1 .. n : sizes[parts[i]] \in V /\ at[parts[i]] \in Nat
  BY <1>1
<1>4. \A v, w \in V : v * w \in V
  OBVIOUS
<1>5. u \in [0 .. n -> V] /\ u[0] = unit /\ \A i \in 1 .. n : u[i] = u[i - 1] * sizes[parts[i]]
  <2>1. unitStep \in Steps(n, V)
    BY <1>3, <1>4 DEF Steps
  <2>2. PICK g \in [0 .. n -> V] : IsMadeBy(g, n, unit, unitStep)
    <3>1. unit \in V
      OBVIOUS
    <3> HIDE DEF unitStep, V
    <3>2. QED
      BY <1>1, <2>1, <3>1, RecursiveSequences
  <2>3. \A i \in 0 .. n : g[i] = UnitValue(g, i)
    <3> SUFFICES ASSUME NEW i \in 0 .. n PROVE g[i] = UnitValue(g, i)
      OBVIOUS
    <3>1. i # 0 => i \in 1 .. n /\ g[i - 1] \in V
      BY <1>1
    <3>2. QED
      BY <2>2, <3>1 DEF IsMadeBy
  <2>4. IsUnit(g)
    <3>1. g = [i \in 0 .. n |-> g[i]]
      OBVIOUS
    <3>2. QED
      BY <2>3, <3>1
  <2>5. IsUnit(u)
    BY <2>4
  <2> HIDE DEF u
  <2>6. \A i \in 0 .. n : u[i] = UnitValue(u, i)
    BY <2>5
  <2> DEFINE T == {k \in 0 .. n : u[k] \in V}
  <2>7. \A k \in 0 .. n : k \in T
    <3>1. 0 \in T
      BY <1>1, <2>6
    <3>2. ASSUME NEW k \in 1 .. n, k - 1 \in T PROVE k \in T
      <4>1. k \in 0 .. n /\ k # 0 /\ u[k - 1] \in V /\ sizes[parts[k]] \in V
        BY <1>1, <1>3, <3>2
      <4>2. u[k] = u[k - 1] * sizes[parts[k]]
        BY <2>6, <4>1
      <4>3. u[k] \in V
        BY <1>4, <4>1, <4>2
      <4>4. QED
        BY <4>1, <4>3
    <3> HIDE DEF T
    <3>3. QED
      BY <1>1, <3>1, <3>2, CountingUp
  <2>8. u = [i \in 0 .. n |-> u[i]]
    BY <2>5
  <2>9. u \in [0 .. n -> V]
    BY <2>7, <2>8
  <2>10. u[0] = unit /\ \A i \in 1 .. n : u[i] = u[i - 1] * sizes[parts[i]]
    BY <1>1, <2>6
  <2>11. QED
    BY <2>9, <2>10
<1> HIDE DEF u
<1>6. \A i \in 1 .. n : at[parts[i]] * u[i - 1] \in Nat
  BY <1>1, <1>3, <1>5
<1>7. f \in [0 .. n -> Nat] /\ f[0] = 0 /\ \A i \in 1 .. n : f[i] = f[i - 1] + at[parts[i]] * u[i - 1]
  <2>1. phyStep \in Steps(n, Nat)
    BY <1>6 DEF Steps
  <2>2. PICK g \in [0 .. n -> Nat] : IsMadeBy(g, n, 0, phyStep)
    <3> HIDE DEF phyStep
    <3>1. QED
      BY <1>1, <2>1, RecursiveSequences
  <2>3. \A i \in 0 .. n : g[i] = PhyValue(g, i)
    <3> SUFFICES ASSUME NEW i \in 0 .. n PROVE g[i] = PhyValue(g, i)
      OBVIOUS
    <3>1. i # 0 => i \in 1 .. n /\ g[i - 1] \in Nat
      BY <1>1
    <3>2. QED
      BY <2>2, <3>1 DEF IsMadeBy
  <2>4. IsPhy(g)
    <3>1. g = [i \in 0 .. n |-> g[i]]
      OBVIOUS
    <3>2. QED
      BY <2>3, <3>1
  <2>5. IsPhy(f)
    BY <2>4
  <2> HIDE DEF f
  <2>6. \A i \in 0 .. n : f[i] = PhyValue(f, i)
    BY <2>5
  <2> DEFINE T == {k \in 0 .. n : f[k] \in Nat}
  <2>7. \A k \in 0 .. n : k \in T
    <3>1. 0 \in T
      BY <1>1, <2>6
    <3>2. ASSUME NEW k \in 1 .. n, k - 1 \in T PROVE k \in T
      BY <1>1, <1>6, <2>6, <3>2
    <3> HIDE DEF T
    <3>3. QED
      BY <1>1, <3>1, <3>2, CountingUp
  <2>8. f = [i \in 0 .. n |-> f[i]]
    BY <2>5
  <2>9. f \in [0 .. n -> Nat]
    BY <2>7, <2>8
  <2>10. f[0] = 0 /\ \A i \in 1 .. n : f[i] = f[i - 1] + at[parts[i]] * u[i - 1]
    BY <1>1, <2>6
  <2>11. QED
    BY <2>9, <2>10
<1> HIDE DEF f
<1>8. QED
  BY <1>2, <1>5, <1>7 DEF n, AddressesUpTo
-----------------------------------------------------------------------------
(* The way back: what the parts take and what is left of an address make   *)
(* it up again.                                                            *)
AgreeOn(parts, a, b) == \A i \in 1 .. Len(parts) : a[parts[i]] = b[parts[i]]

\* An address put together is below the unit of what comes next, and tells what it was
\* made of.
LEMMA PutTogetherTellsApart ==
  ASSUME NEW sizes \in [Part -> Nat \ {0}], NEW parts, Parts(parts), NEW unit \in Nat \ {0},
         NEW a \in [Part -> Nat], \A part \in Part : a[part] < sizes[part],
         NEW b \in [Part -> Nat], \A part \in Part : b[part] < sizes[part]
  PROVE  LET ofA == PutTogether(sizes, parts, unit, a)
             ofB == PutTogether(sizes, parts, unit, b)
         IN  /\ ofA.unit \in Nat \ {0} /\ ofA.unit = ofB.unit
             /\ ofA.phy \in Nat /\ ofA.phy < ofA.unit
             /\ (ofA.phy = ofB.phy <=> AgreeOn(parts, a, b))
<1> DEFINE n == Len(parts)
           ofA == PutTogether(sizes, parts, unit, a)
           ofB == PutTogether(sizes, parts, unit, b)
<1>1. n \in Nat /\ \A i \in 1 .. n : parts[i] \in Part
  BY PartsTyped
<1>a. PICK u, f : AddressesUpTo(u, f, sizes, parts, unit, a)
  BY PutTogetherUnfolds
<1>b. PICK v, g : AddressesUpTo(v, g, sizes, parts, unit, b)
  BY PutTogetherUnfolds
<1>2. /\ u \in [0 .. n -> Nat \ {0}] /\ f \in [0 .. n -> Nat]
      /\ u[0] = unit /\ \A i \in 1 .. n : u[i] = u[i - 1] * sizes[parts[i]]
      /\ f[0] = 0 /\ \A i \in 1 .. n : f[i] = f[i - 1] + a[parts[i]] * u[i - 1]
      /\ ofA = [unit |-> u[n], phy |-> f[n]]
  BY <1>a DEF AddressesUpTo
<1>3. /\ v \in [0 .. n -> Nat \ {0}] /\ g \in [0 .. n -> Nat]
      /\ v[0] = unit /\ \A i \in 1 .. n : v[i] = v[i - 1] * sizes[parts[i]]
      /\ g[0] = 0 /\ \A i \in 1 .. n : g[i] = g[i - 1] + b[parts[i]] * v[i - 1]
      /\ ofB = [unit |-> v[n], phy |-> g[n]]
  BY <1>b DEF AddressesUpTo
<1> HIDE DEF n, ofA, ofB
<1>4. \A k \in 0 .. n : u[k] = v[k]
  <2> DEFINE T == {k \in 0 .. n : u[k] = v[k]}
  <2>1. 0 \in T
    BY <1>1, <1>2, <1>3
  <2>2. ASSUME NEW k \in 1 .. n, k - 1 \in T PROVE k \in T
    <3>1. u[k] = u[k - 1] * sizes[parts[k]] /\ v[k] = v[k - 1] * sizes[parts[k]]
      BY <1>2, <1>3
    <3>2. QED
      BY <1>1, <2>2, <3>1
  <2>3. \A k \in 0 .. n : k \in T
    <3> HIDE DEF T
    <3>1. QED
      BY <1>1, <2>1, <2>2, CountingUp
  <2>4. QED
    BY <2>3
<1>5. ASSUME NEW k \in 1 .. n
      PROVE  /\ a[parts[k]] \in Nat /\ b[parts[k]] \in Nat
             /\ u[k - 1] \in Nat \ {0} /\ u[k] \in Nat \ {0}
             /\ f[k - 1] \in Nat /\ g[k - 1] \in Nat
             /\ f[k] = a[parts[k]] * u[k - 1] + f[k - 1]
             /\ g[k] = b[parts[k]] * u[k - 1] + g[k - 1]
             /\ a[parts[k]] * u[k - 1] + u[k - 1] <= u[k]
             /\ b[parts[k]] * u[k - 1] + u[k - 1] <= u[k]
             /\ a[parts[k]] * u[k - 1] \in Nat /\ b[parts[k]] * u[k - 1] \in Nat
  <2> DEFINE x == a[parts[k]]
             y == b[parts[k]]
             w == u[k - 1]
             s == sizes[parts[k]]
  <2>1. k - 1 \in 0 .. n /\ k \in 0 .. n /\ parts[k] \in Part
    BY <1>1
  <2>2. x \in Nat /\ y \in Nat /\ s \in Nat \ {0} /\ x < s /\ y < s
    BY <2>1
  <2>3. w \in Nat \ {0} /\ u[k] \in Nat \ {0} /\ f[k - 1] \in Nat /\ g[k - 1] \in Nat
    BY <1>2, <1>3, <2>1
  <2>4. f[k] = f[k - 1] + x * w /\ g[k] = g[k - 1] + y * w /\ u[k] = w * s
    BY <1>2, <1>3, <1>4, <2>1
  <2> HIDE DEF x, y, w, s
  <2>5. x * w \in Nat /\ y * w \in Nat /\ w * s = s * w
    BY <2>2, <2>3, Product
  <2>6. x * w + w <= s * w /\ y * w + w <= s * w
    BY <2>2, <2>3, ProductsGrow
  <2>7. f[k] = x * w + f[k - 1] /\ g[k] = y * w + g[k - 1]
    BY <2>3, <2>4, <2>5
  <2>8. x * w + w <= u[k] /\ y * w + w <= u[k]
    BY <2>4, <2>5, <2>6
  <2>9. QED
    BY <2>2, <2>3, <2>5, <2>7, <2>8 DEF x, y, w, s
<1>6. \A k \in 0 .. n : f[k] < u[k] /\ g[k] < u[k]
  <2> DEFINE T == {k \in 0 .. n : f[k] < u[k] /\ g[k] < u[k]}
  <2>1. 0 \in T
    BY <1>1, <1>2, <1>3
  <2>2. ASSUME NEW k \in 1 .. n, k - 1 \in T PROVE k \in T
    <3> DEFINE xw == a[parts[k]] * u[k - 1]
               yw == b[parts[k]] * u[k - 1]
    <3>1. f[k - 1] < u[k - 1] /\ g[k - 1] < u[k - 1]
      BY <2>2
    <3>2. /\ xw \in Nat /\ yw \in Nat /\ xw + u[k - 1] <= u[k] /\ yw + u[k - 1] <= u[k]
          /\ f[k] = xw + f[k - 1] /\ g[k] = yw + g[k - 1]
          /\ f[k - 1] \in Nat /\ g[k - 1] \in Nat /\ u[k - 1] \in Nat /\ u[k] \in Nat
      BY <1>5
    <3> HIDE DEF xw, yw
    <3>3. f[k] < u[k] /\ g[k] < u[k]
      BY <3>1, <3>2
    <3>4. QED
      BY <1>1, <3>3
  <2>3. \A k \in 0 .. n : k \in T
    <3> HIDE DEF T
    <3>1. QED
      BY <1>1, <2>1, <2>2, CountingUp
  <2>4. QED
    BY <2>3
<1>7. ASSUME NEW k \in 1 .. n
      PROVE  f[k] = g[k] <=> a[parts[k]] = b[parts[k]] /\ f[k - 1] = g[k - 1]
  <2> DEFINE x == a[parts[k]]
             y == b[parts[k]]
             w == u[k - 1]
             c == f[k - 1]
             d == g[k - 1]
  <2>1. /\ x \in Nat /\ y \in Nat /\ w \in Nat \ {0} /\ c \in Nat /\ d \in Nat
        /\ f[k] = x * w + c /\ g[k] = y * w + d /\ c < w /\ d < w
    BY <1>1, <1>5, <1>6
  <2> HIDE DEF x, y, w, c, d
  <2>2. (x * w + c) \div w = x /\ (x * w + c) % w = c
    BY <2>1, Quotients
  <2>3. (y * w + d) \div w = y /\ (y * w + d) % w = d
    BY <2>1, Quotients
  <2>4. f[k] = g[k] <=> x = y /\ c = d
    BY <2>1, <2>2, <2>3
  <2>5. QED
    BY <2>4 DEF x, y, c, d
<1> DEFINE Same(k) == \A i \in 1 .. k : a[parts[i]] = b[parts[i]]
           U == {k \in 0 .. n : f[k] = g[k] <=> Same(k)}
<1>8. \A k \in 0 .. n : k \in U
  <2>1. 0 \in U
    BY <1>1, <1>2, <1>3
  <2>2. ASSUME NEW k \in 1 .. n, k - 1 \in U PROVE k \in U
    <3>1. Same(k) <=> Same(k - 1) /\ a[parts[k]] = b[parts[k]]
      OBVIOUS
    <3> HIDE DEF Same
    <3>2. f[k] = g[k] <=> Same(k)
      BY <1>7, <2>2, <3>1
    <3>3. QED
      BY <1>1, <3>2
  <2> HIDE DEF U
  <2>3. QED
    BY <1>1, <2>1, <2>2, CountingUp
<1>9. f[n] = g[n] <=> Same(n)
  BY <1>1, <1>8
<1>10. n \in 0 .. n
  BY <1>1
<1>11. QED
  BY <1>2, <1>3, <1>4, <1>6, <1>9, <1>10 DEF n, ofA, ofB, AgreeOn

\* What is taken from a number and what is left of it make up the number.
LEMMA TakenPutTogether ==
  ASSUME NEW m, m.bitWidths \in [Part -> Nat], NEW parts, Parts(parts), NEW x \in Nat,
         NEW unit \in Nat \ {0}
  PROVE  LET made == PutTogether(SizesOf(m), parts, unit, Taken(m, parts, x))
         IN  x * unit = made.phy + RefAddress(m, parts, x)[Len(parts)] * made.unit
<1> DEFINE n == Len(parts)
           sizes == SizesOf(m)
           at == Taken(m, parts, x)
           ref == RefAddress(m, parts, x)
           made == PutTogether(sizes, parts, unit, at)
<1>1. n \in Nat /\ \A i \in 1 .. n : parts[i] \in Part
  BY PartsTyped
<1>2. sizes \in [Part -> Nat \ {0}]
  BY SizesTyped
<1>b. at \in [Part -> Nat] /\ TakenInTurn(at, ref, sizes, parts)
  BY TakenUnfolds
<1>c. DividedInTurn(ref, sizes, parts, x)
  BY RefAddressUnfolds
<1> HIDE DEF sizes, at, ref, made
<1>3. /\ ref \in [0 .. n -> Nat] /\ ref[0] = x
      /\ \A i \in 1 .. n : ref[i] = ref[i - 1] \div sizes[parts[i]]
  BY <1>c DEF DividedInTurn
<1>4. at \in [Part -> Nat] /\ \A i \in 1 .. n : at[parts[i]] = ref[i - 1] % sizes[parts[i]]
  BY <1>b DEF TakenInTurn
<1>a. PICK u, f : AddressesUpTo(u, f, sizes, parts, unit, at)
  BY <1>2, <1>4, PutTogetherUnfolds
<1>5. /\ u \in [0 .. n -> Nat \ {0}] /\ f \in [0 .. n -> Nat]
      /\ u[0] = unit /\ \A i \in 1 .. n : u[i] = u[i - 1] * sizes[parts[i]]
      /\ f[0] = 0 /\ \A i \in 1 .. n : f[i] = f[i - 1] + at[parts[i]] * u[i - 1]
      /\ made = [unit |-> u[n], phy |-> f[n]]
  BY <1>a DEF made, AddressesUpTo
<1> HIDE DEF n
<1> DEFINE T == {k \in 0 .. n : f[k] + ref[k] * u[k] = x * unit}
<1>6. \A k \in 0 .. n : k \in T
  <2>1. 0 \in T
    <3>1. ref[0] * u[0] \in Nat /\ f[0] = 0 /\ ref[0] * u[0] = x * unit
      BY <1>3, <1>5, Product
    <3>2. QED
      BY <1>1, <3>1
  <2>2. ASSUME NEW k \in 1 .. n, k - 1 \in T PROVE k \in T
    <3> DEFINE r == ref[k - 1]
               q == ref[k]
               s == sizes[parts[k]]
               d == at[parts[k]]
               w == u[k - 1]
               c == f[k - 1]
    <3>1. k - 1 \in 0 .. n /\ k \in 0 .. n /\ parts[k] \in Part
      BY <1>1
    <3>2. r \in Nat /\ s \in Nat \ {0} /\ w \in Nat \ {0} /\ c \in Nat
      BY <1>2, <1>3, <1>5, <3>1
    <3>3. q = r \div s /\ d = r % s
      BY <1>3, <1>4
    <3>4. f[k] = c + d * w /\ u[k] = w * s
      BY <1>5
    <3>5. c + r * w = x * unit
      BY <2>2
    <3> HIDE DEF r, q, s, d, w, c
    <3>6. q \in Nat /\ d \in Nat /\ r = q * s + d
      BY <3>2, <3>3, Division
    <3>7. r * w = q * (w * s) + d * w
      <4>1. (q * s + d) * w = q * (w * s) + d * w
        BY <3>2, <3>6
      <4>2. QED
        BY <3>6, <4>1
    <3>8. d * w \in Nat /\ q * (w * s) \in Nat
      <4>1. w * s \in Nat
        BY <3>2, Product
      <4>2. QED
        BY <3>2, <3>6, <4>1, Product
    <3>9. (c + d * w) + q * (w * s) = x * unit
      <4> DEFINE X == x * unit
                 R == r * w
                 A == d * w
                 B == q * (w * s)
      <4>1. c \in Nat /\ A \in Nat /\ B \in Nat /\ R = B + A /\ c + R = X
        BY <3>2, <3>5, <3>7, <3>8
      <4> HIDE DEF X, R, A, B
      <4>2. (c + A) + B = X
        BY <4>1
      <4>3. QED
        BY <4>2 DEF X, A, B
    <3>10. f[k] + ref[k] * u[k] = x * unit
      BY <3>4, <3>9 DEF q
    <3>11. QED
      BY <3>1, <3>10
  <2> HIDE DEF T
  <2>3. QED
    BY <1>1, <2>1, <2>2, CountingUp
<1>7. f[n] + ref[n] * u[n] = x * unit
  BY <1>1, <1>6
<1>8. QED
  BY <1>5, <1>7 DEF n, sizes, at, ref, made
-----------------------------------------------------------------------------
(* What a configuration says, and the orders of the two decoders.          *)
\* What DataPathAssumption says of a configuration.
LEMMA ConfigurationTyped ==
  ASSUME NEW c \in Configurations
  PROVE  /\ c.ROWS \in Nat \ {0} /\ c.COLS \in Nat \ {0} /\ c.BANKS \in Nat \ {0}
         /\ c.RANKS \in Nat \ {0} /\ c.CHANNELS \in Nat \ {0}
         /\ c.COLS = COLS /\ c.MATHeight \in 0 .. c.ROWS
         /\ Scheme(c.scheme) /\ c.ignoreBits \in Nat
         /\ c.decoder \in {"AddressTranslator", "DRCDecoder"}
         /\ c.model \in {"RowModel", "WordModel", "ByteModel", "BitModel"}
  BY DataPathAssumption DEF Configured, Scheme

\* A bank of ROWS rows has at least one subarray of MATHeight.
LEMMA CountsTyped ==
  ASSUME NEW c \in Configurations
  PROVE  Counts(c) \in [Part -> Nat \ {0}]
<1> DEFINE rows == c.ROWS
           height == c.MATHeight
<1>1. rows \in Nat \ {0} /\ height \in Nat /\ height <= rows
  BY ConfigurationTyped
<1>2. height > 0 => rows \div height \in Nat \ {0}
  <2> SUFFICES ASSUME height > 0 PROVE rows \div height \in Nat \ {0}
    OBVIOUS
  <2> DEFINE q == rows \div height
             r == rows % height
  <2>1. q \in Nat /\ r \in Nat /\ r < height /\ rows = q * height + r
    BY <1>1, Division
  <2> HIDE DEF q, r, rows, height
  <2>2. q = 0 => rows = r
    BY <1>1, <2>1
  <2>3. QED
    BY <1>1, <2>1, <2>2 DEF q
<1> HIDE DEF rows, height
<1>3. Counts(c) = [R  |-> IF height > 0 THEN height ELSE rows,
                   SA |-> IF height > 0 THEN rows \div height ELSE 1,
                   C |-> c.COLS, BK |-> c.BANKS, RK |-> c.RANKS, CH |-> c.CHANNELS]
  BY DEF Counts, rows, height
<1>4. /\ (IF height > 0 THEN height ELSE rows) \in Nat \ {0}
      /\ (IF height > 0 THEN rows \div height ELSE 1) \in Nat \ {0}
  BY <1>1, <1>2
<1>5. QED
  BY <1>3, <1>4, ConfigurationTyped DEF Part

\* No part has more places than there are things: mlog2 rounds down.
LEMMA MethodTyped ==
  ASSUME NEW c \in Configurations, NEW m, m = Method(c)
  PROVE  /\ m.bitWidths \in [Part -> Nat] /\ m.order = SetAddressMappingScheme(c.scheme)
         /\ m.count \in [Part -> Nat \ {0}]
         /\ \A part \in Part : SizesOf(m)[part] <= m.count[part]
         /\ SizesOf(m) \in [Part -> Nat \ {0}]
<1>1. /\ m.count = Counts(c) /\ m.bitWidths = [part \in Part |-> mlog2(Counts(c)[part])]
      /\ m.order = SetAddressMappingScheme(c.scheme)
  BY DEF Method
<1>2. \A part \in Part : Counts(c)[part] \in Nat \ {0}
  BY CountsTyped
<1>3. m.bitWidths \in [Part -> Nat]
  BY <1>1, <1>2, BitsOf
<1>4. \A part \in Part : SizesOf(m)[part] = TwoTo(mlog2(Counts(c)[part]))
  BY <1>1 DEF SizesOf
<1>5. QED
  BY <1>1, <1>2, <1>3, <1>4, BitsOf, CountsTyped, SizesTyped

\* AddressTranslator goes through all six parts.
LEMMA LowToHighParts ==
  ASSUME NEW c \in Configurations, NEW m, m = Method(c)
  PROVE  /\ Parts(LowToHigh(m)) /\ Len(LowToHigh(m)) = 6
         /\ \A part \in Part : \E i \in 1 .. 6 : LowToHigh(m)[i] = part
<1> DEFINE l == LowToHigh(m)
<1>1. /\ l \in [1 .. 6 -> Part]
      /\ \A i, j \in 1 .. 6 : l[i] = l[j] => i = j
      /\ \A part \in Part : \E i \in 1 .. 6 : l[i] = part
  BY MethodTyped, ConfigurationTyped, LowToHighIsAnOrder
<1> HIDE DEF l
<1>2. l \in Seq(Part)
  <2>1. l = [i \in 1 .. 6 |-> l[i]] /\ \A i \in 1 .. 6 : l[i] \in Part
    BY <1>1
  <2>2. QED
    BY <2>1, IsASeq
<1>3. Len(l) = 6
  BY <1>1, <1>2, LenProperties
<1>4. QED
  BY <1>1, <1>2, <1>3 DEF l, Parts

Middle == {"CH", "RK", "BK"}

\* The three parts between column and row, each once.
LEMMA MiddleParts ==
  ASSUME NEW c \in Configurations, NEW m, m = Method(c)
  PROVE  LET b == BetweenColumnAndRow(m)
         IN  /\ Parts(b) /\ Len(b) = 3
             /\ \A i \in 1 .. 3 : b[i] \in Middle
             /\ \A part \in Middle : \E i \in 1 .. 3 : b[i] = part
<1> DEFINE o == m.order
           b == BetweenColumnAndRow(m)
           Sorted(s) == \A i, j \in 1 .. 3 : i < j => o[s[i]] < o[s[j]]
           Three(x, y, z) == [i \in 1 .. 3 |-> IF i = 1 THEN x ELSE IF i = 2 THEN y ELSE z]
<1>1. /\ o \in [Part -> 1 .. 6] /\ \A x, y \in Part : o[x] = o[y] => x = y
  BY MethodTyped, ConfigurationTyped, OrdersAreDistinct
<1>2. \A x, y, z \in Middle : o[x] < o[y] /\ o[y] < o[z] => \E s \in [1 .. 3 -> Middle] : Sorted(s)
  <2> SUFFICES ASSUME NEW x \in Middle, NEW y \in Middle, NEW z \in Middle, o[x] < o[y], o[y] < o[z]
               PROVE  \E s \in [1 .. 3 -> Middle] : Sorted(s)
    OBVIOUS
  <2> DEFINE s == Three(x, y, z)
  <2>1. s \in [1 .. 3 -> Middle] /\ s[1] = x /\ s[2] = y /\ s[3] = z
    OBVIOUS
  <2> HIDE DEF s
  <2>2. o[x] \in Nat /\ o[y] \in Nat /\ o[z] \in Nat
    BY <1>1 DEF Middle, Part
  <2>3. Sorted(s)
    <3> SUFFICES ASSUME NEW i \in 1 .. 3, NEW j \in 1 .. 3, i < j PROVE o[s[i]] < o[s[j]]
      OBVIOUS
    <3>1. (i = 1 /\ j = 2) \/ (i = 1 /\ j = 3) \/ (i = 2 /\ j = 3)
      OBVIOUS
    <3>2. QED
      BY <2>1, <2>2, <3>1
  <2>4. QED
    BY <2>1, <2>3
<1>3. \E s \in [1 .. 3 -> Middle] : Sorted(s)
  <2> DEFINE ch == o["CH"]
             rk == o["RK"]
             bk == o["BK"]
  <2>1. ch \in Nat /\ rk \in Nat /\ bk \in Nat /\ ch # rk /\ rk # bk /\ ch # bk
    BY <1>1 DEF Part
  <2>2. \/ (ch < rk /\ rk < bk) \/ (ch < bk /\ bk < rk) \/ (rk < ch /\ ch < bk)
        \/ (rk < bk /\ bk < ch) \/ (bk < ch /\ ch < rk) \/ (bk < rk /\ rk < ch)
    BY <2>1
  <2>3. "CH" \in Middle /\ "RK" \in Middle /\ "BK" \in Middle
    BY DEF Middle
  <2>4. QED
    BY <1>2, <2>2, <2>3
<1>4. b = CHOOSE s \in [1 .. 3 -> Middle] : Sorted(s)
  BY DEF BetweenColumnAndRow, Middle
<1> HIDE DEF b
<1>5. b \in [1 .. 3 -> Middle] /\ Sorted(b)
  BY <1>3, <1>4
<1>6. /\ b[1] \in Middle /\ b[2] \in Middle /\ b[3] \in Middle
      /\ o[b[1]] < o[b[2]] /\ o[b[2]] < o[b[3]]
  BY <1>5
<1>7. \A part \in Middle : part \in Part /\ o[part] \in Nat
  BY <1>1 DEF Middle, Part
<1>8. b[1] # b[2] /\ b[2] # b[3] /\ b[1] # b[3]
  BY <1>6, <1>7
<1>9. \A i \in 1 .. 3 : i = 1 \/ i = 2 \/ i = 3
  OBVIOUS
<1>10. \A part \in Middle : \E i \in 1 .. 3 : b[i] = part
  <2>1. \A part \in Middle : part = b[1] \/ part = b[2] \/ part = b[3]
    BY <1>6, <1>8 DEF Middle
  <2>2. QED
    BY <2>1
<1>11. \A i, j \in 1 .. 3 : b[i] = b[j] => i = j
  BY <1>8, <1>9
<1>12. b \in Seq(Part) /\ Len(b) = 3
  <2>1. b = [i \in 1 .. 3 |-> b[i]] /\ \A i \in 1 .. 3 : b[i] \in Part
    BY <1>5, <1>7
  <2>2. b \in Seq(Part)
    BY <2>1, IsASeq
  <2>3. DOMAIN b = 1 .. 3
    BY <1>5
  <2>4. QED
    BY <2>2, <2>3, LenProperties
<1>13. QED
  BY <1>5, <1>10, <1>11, <1>12 DEF b, Parts
-----------------------------------------------------------------------------
(* Both decoders lead back to the address, or to its row.                  *)
\* DRCDecoder goes through all parts but the subarrays.
LEMMA DRCParts ==
  ASSUME NEW c \in Configurations, NEW m, m = Method(c)
  PROVE  LET l == DRCLowToHigh(m)
         IN  /\ Parts(l) /\ Len(l) = 5
             /\ \A part \in Part \ {"SA"} : \E i \in 1 .. 5 : l[i] = part
             /\ ToSet(l) = Part \ {"SA"}
<1> DEFINE b == BetweenColumnAndRow(m)
           l == DRCLowToHigh(m)
<1>1. /\ b \in Seq(Part) /\ Len(b) = 3 /\ \A i \in 1 .. 3 : b[i] \in Middle
      /\ \A part \in Middle : \E i \in 1 .. 3 : b[i] = part
      /\ \A i, j \in 1 .. 3 : b[i] = b[j] => i = j
  BY MiddleParts DEF Parts
<1>2. l = <<"C">> \o b \o <<"R">>
  BY DEF DRCLowToHigh
<1> HIDE DEF b, l
<1> DEFINE first == <<"C">>
           last == <<"R">>
           cb == first \o b
<1>3. first \in Seq(Part) /\ Len(first) = 1 /\ last \in Seq(Part) /\ Len(last) = 1
      /\ first[1] = "C" /\ last[1] = "R"
  BY DEF Part
<1>0. l = cb \o last
  BY <1>2
<1> HIDE DEF first, last
<1>4. cb \in Seq(Part) /\ Len(cb) = 4 /\ cb[1] = "C" /\ cb[2] = b[1] /\ cb[3] = b[2] /\ cb[4] = b[3]
  <2>0. b \in Seq(Part) /\ first \in Seq(Part)
    BY <1>1, <1>3
  <2>1. cb \in Seq(Part) /\ Len(cb) = Len(first) + Len(b)
        /\ \A i \in 1 .. Len(first) + Len(b) : cb[i] = IF i <= Len(first) THEN first[i] ELSE b[i - Len(first)]
    BY <2>0, ConcatProperties
  <2> HIDE DEF cb
  <2>2. QED
    BY <1>1, <1>3, <2>1
<1> HIDE DEF cb
<1>5. /\ l \in Seq(Part) /\ Len(l) = 5 /\ l[1] = "C" /\ l[2] = b[1] /\ l[3] = b[2] /\ l[4] = b[3]
      /\ l[5] = "R"
  <2>1. l \in Seq(Part) /\ Len(l) = Len(cb) + Len(last)
        /\ \A i \in 1 .. Len(cb) + Len(last) : l[i] = IF i <= Len(cb) THEN cb[i] ELSE last[i - Len(cb)]
    BY <1>0, <1>3, <1>4, ConcatProperties
  <2>2. QED
    BY <1>3, <1>4, <2>1
<1>6. \A i \in 1 .. 5 : i = 1 \/ i = 2 \/ i = 3 \/ i = 4 \/ i = 5
  OBVIOUS
<1>7. \A i, j \in 1 .. 5 : l[i] = l[j] => i = j
  <2>1. b[1] \in Middle /\ b[2] \in Middle /\ b[3] \in Middle
        /\ b[1] # b[2] /\ b[2] # b[3] /\ b[1] # b[3]
    BY <1>1
  <2>2. QED
    BY <1>5, <1>6, <2>1 DEF Middle
<1>8. \A part \in Part \ {"SA"} : \E i \in 1 .. 5 : l[i] = part
  <2> SUFFICES ASSUME NEW part \in Part \ {"SA"} PROVE \E i \in 1 .. 5 : l[i] = part
    OBVIOUS
  <2>1. CASE part \in Middle
    <3>1. PICK i \in 1 .. 3 : b[i] = part
      BY <1>1, <2>1
    <3>2. i = 1 \/ i = 2 \/ i = 3
      OBVIOUS
    <3>3. QED
      BY <1>5, <3>1, <3>2
  <2>2. CASE part = "C" \/ part = "R"
    BY <1>5, <2>2
  <2>3. QED
    BY <2>1, <2>2 DEF Part, Middle
<1>9. ToSet(l) = Part \ {"SA"}
  <2>1. \A i \in 1 .. 5 : l[i] \in Part \ {"SA"}
    <3>1. b[1] \in Part \ {"SA"} /\ b[2] \in Part \ {"SA"} /\ b[3] \in Part \ {"SA"}
      BY <1>1 DEF Middle, Part
    <3>2. "C" \in Part \ {"SA"} /\ "R" \in Part \ {"SA"}
      BY DEF Part
    <3>3. QED
      BY <1>5, <1>6, <3>1, <3>2
  <2>2. ToSet(l) = {l[i] : i \in 1 .. 5}
    BY <1>5, LenProperties DEF ToSet
  <2>3. QED
    BY <1>8, <2>1, <2>2
<1>10. QED
  BY <1>5, <1>7, <1>8, <1>9 DEF l, Parts

\* A burst and a DRC line have a size.
LEMMA UnitsTyped ==
  ASSUME NEW ignoreBits \in Nat
  PROVE  Burst \in Nat \ {0} /\ DRCUnit(ignoreBits) \in Nat \ {0}
<1>1. Burst \in Nat \ {0} /\ TwoTo(ignoreBits) \in Nat \ {0}
  BY PowersOfTwo, AddressTranslatorAssumption DEF Burst
<1>2. QED
  BY <1>1 DEF DRCUnit

\* What one decoder finds is enough to put the address together again.
LEMMA DecodedAgain ==
  ASSUME NEW m, m.bitWidths \in [Part -> Nat], NEW parts, Parts(parts), NEW a \in Nat,
         NEW unit \in Nat \ {0}, a % unit = 0,
         RefAddress(m, parts, a \div unit)[Len(parts)] = 0
  PROVE  PutTogether(SizesOf(m), parts, unit, Taken(m, parts, a \div unit)).phy = a
<1> DEFINE x == a \div unit
           made == PutTogether(SizesOf(m), parts, unit, Taken(m, parts, x))
<1>1. x \in Nat /\ a = x * unit
  <2>1. x \in Nat /\ a = x * unit + (a % unit)
    BY Division
  <2>2. x * unit \in Nat
    BY <2>1, Product
  <2> HIDE DEF x
  <2>3. QED
    BY <2>1, <2>2
<1>2. x * unit = made.phy + 0 * made.unit
  <2> HIDE DEF x
  <2>1. RefAddress(m, parts, x)[Len(parts)] = 0
    BY DEF x
  <2>2. x * unit = made.phy + RefAddress(m, parts, x)[Len(parts)] * made.unit
    BY <1>1, TakenPutTogether
  <2>3. QED
    BY <2>1, <2>2
<1>3. made.phy \in Nat /\ made.unit \in Nat
  <2>1. SizesOf(m) \in [Part -> Nat \ {0}]
    BY SizesTyped
  <2> HIDE DEF x
  <2>2. Taken(m, parts, x) \in [Part -> Nat] /\ \A part \in Part : Taken(m, parts, x)[part] < SizesOf(m)[part]
    BY <1>1, TakenUnfolds
  <2>3. QED
    BY <2>1, <2>2, PutTogetherTellsApart
<1> HIDE DEF x, made
<1>4. QED
  BY <1>1, <1>2, <1>3 DEF x, made

\* The places stay as they were found when the decoders were set up.
Decoded ==
  /\ p \in Configurations /\ method = Method(p)
  /\ place = [a \in Address |-> PlaceOf(a)]

\* Every place is below the sizes of its parts; there are no subarrays in a DRC.
LEMMA PlaceTyped ==
  ASSUME Decoded, NEW a \in Address
  PROVE  /\ place[a] \in [Part -> Nat]
         /\ \A part \in Part : place[a][part] < SizesOf(method)[part]
         /\ p.decoder = "DRCDecoder" => place[a]["SA"] = 0
<1>1. p \in Configurations /\ a \in Nat /\ method.bitWidths \in [Part -> Nat] /\ place[a] = PlaceOf(a)
  BY MethodTyped, DataPathAssumption DEF Decoded
<1>2. CASE p.decoder = "DRCDecoder"
  <2> DEFINE l == DRCLowToHigh(method)
             x == a \div DRCUnit(p.ignoreBits)
  <2>1. Parts(l) /\ ToSet(l) = Part \ {"SA"}
    BY DRCParts DEF Decoded
  <2>2. x \in Nat
    BY <1>1, ConfigurationTyped, UnitsTyped, Division
  <2>3. place[a] = Taken(method, l, x)
    BY <1>1, <1>2 DEF PlaceOf, DRCTranslate
  <2> HIDE DEF l, x
  <2>4. /\ place[a] \in [Part -> Nat] /\ \A part \in Part : place[a][part] < SizesOf(method)[part]
        /\ \A part \in Part \ ToSet(l) : place[a][part] = 0
    BY <1>1, <2>1, <2>2, <2>3, TakenUnfolds
  <2>5. QED
    BY <2>1, <2>4 DEF Part
<1>3. CASE p.decoder # "DRCDecoder"
  <2> DEFINE l == LowToHigh(method)
             x == a \div Burst
  <2>1. Parts(l)
    BY LowToHighParts DEF Decoded
  <2>2. x \in Nat
    BY <1>1, ConfigurationTyped, UnitsTyped, Division
  <2>3. place[a] = Taken(method, l, x)
    BY <1>1, <1>3 DEF PlaceOf, Translate
  <2> HIDE DEF l, x
  <2>4. place[a] \in [Part -> Nat] /\ \A part \in Part : place[a][part] < SizesOf(method)[part]
    BY <1>1, <2>1, <2>2, <2>3, TakenUnfolds
  <2>5. QED
    BY <1>3, <2>4
<1>4. QED
  BY <1>2, <1>3

\* Every decoder's places lead back to the address.
LEMMA PlacesLeadBack ==
  ASSUME Decoded, NEW a \in Address
  PROVE  LET drc == p.decoder = "DRCDecoder"
         IN  PutTogether(SizesOf(method), IF drc THEN DRCLowToHigh(method) ELSE LowToHigh(method),
                         IF drc THEN DRCUnit(p.ignoreBits) ELSE Burst, place[a]).phy = a
<1>1. /\ p \in Configurations /\ a \in Nat /\ method.bitWidths \in [Part -> Nat]
      /\ place[a] = PlaceOf(a) /\ IsDecoded(p, a) /\ method = Method(p)
  BY MethodTyped, DataPathAssumption DEF Decoded
<1>2. CASE p.decoder = "DRCDecoder"
  <2> DEFINE l == DRCLowToHigh(method)
             unit == DRCUnit(p.ignoreBits)
  <2>1. Parts(l) /\ unit \in Nat \ {0}
    BY <1>1, DRCParts, ConfigurationTyped, UnitsTyped
  <2>2. a % unit = 0 /\ RefAddress(method, l, a \div unit)[Len(l)] = 0
    BY <1>1, <1>2 DEF IsDecoded
  <2>3. place[a] = Taken(method, l, a \div unit)
    BY <1>1, <1>2 DEF PlaceOf, DRCTranslate
  <2> HIDE DEF l, unit
  <2>4. PutTogether(SizesOf(method), l, unit, place[a]).phy = a
    BY <1>1, <2>1, <2>2, <2>3, DecodedAgain
  <2>5. QED
    BY <1>2, <2>4 DEF l, unit
<1>3. CASE p.decoder # "DRCDecoder"
  <2> DEFINE l == LowToHigh(method)
  <2>1. Parts(l) /\ Burst \in Nat \ {0}
    BY <1>1, LowToHighParts, ConfigurationTyped, UnitsTyped
  <2>2. a % Burst = 0 /\ RefAddress(method, l, a \div Burst)[Len(l)] = 0
    BY <1>1, <1>3 DEF IsDecoded
  <2>3. place[a] = Taken(method, l, a \div Burst)
    BY <1>1, <1>3 DEF PlaceOf, Translate
  <2> HIDE DEF l
  <2>4. PutTogether(SizesOf(method), l, Burst, place[a]).phy = a
    BY <1>1, <2>1, <2>2, <2>3, DecodedAgain
  <2>5. QED
    BY <1>3, <2>4 DEF l
<1>4. QED
  BY <1>2, <1>3

\* No two addresses share subarray, row and column.
LEMMA SamePlace ==
  ASSUME Decoded, NEW a \in Address, NEW b \in Address,
         SubArrayOf(a) = SubArrayOf(b), Row(a) = Row(b), Col(a) = Col(b)
  PROVE  a = b
<1>1. place[a] \in [Part -> Nat] /\ place[b] \in [Part -> Nat]
  BY PlaceTyped
<1>2. /\ SubArrayOf(a)[1] = place[a]["CH"] /\ SubArrayOf(b)[1] = place[b]["CH"]
      /\ SubArrayOf(a)[3] = place[a]["RK"] /\ SubArrayOf(b)[3] = place[b]["RK"]
      /\ SubArrayOf(a)[4] = place[a]["BK"] /\ SubArrayOf(b)[4] = place[b]["BK"]
      /\ SubArrayOf(a)[5] = place[a]["SA"] /\ SubArrayOf(b)[5] = place[b]["SA"]
  BY DEF SubArrayOf, Fields, FieldOf
<1>3. \A part \in Part : place[a][part] = place[b][part]
  BY <1>2 DEF Row, Col, Part
<1>4. place[a] = place[b]
  BY <1>1, <1>3
<1>5. QED
  BY <1>4, PlacesLeadBack

\* A row is known by all parts but the column.
LEMMA SameRow ==
  ASSUME Decoded, NEW a \in Address, NEW b \in Address
  PROVE  RowOf(a) = RowOf(b) <=>
           /\ \A part \in {"CH", "RK", "BK", "SA", "R"} : place[a][part] = place[b][part]
<1>1. \A c \in Address : SubArrayOf(c) = <<place[c]["CH"], 0, place[c]["RK"], place[c]["BK"], place[c]["SA"]>>
  BY DEF SubArrayOf, Fields, FieldOf
<1>2. QED
  BY <1>1 DEF RowOf, Row

\* DRCDecoder makes one address of each row.
LEMMA RowsToldApart ==
  ASSUME Decoded, p.decoder = "DRCDecoder", NEW a \in Address, NEW b \in Address
  PROVE  DRCReverseTranslate(method, p.ignoreBits, place[a]) = DRCReverseTranslate(method, p.ignoreBits, place[b])
           <=> RowOf(a) = RowOf(b)
<1> DEFINE l == BetweenColumnAndRow(method)
           unit == DRCUnit(p.ignoreBits)
           ofA == PutTogether(method.count, l, unit, place[a])
           ofB == PutTogether(method.count, l, unit, place[b])
           x == place[a]["R"]
           y == place[b]["R"]
<1>1. p \in Configurations /\ method = Method(p)
  BY DEF Decoded
<1>2. /\ Parts(l) /\ Len(l) = 3 /\ \A i \in 1 .. 3 : l[i] \in Middle
      /\ \A part \in Middle : \E i \in 1 .. 3 : l[i] = part
  BY <1>1, MiddleParts
<1>3. unit \in Nat \ {0}
  BY <1>1, ConfigurationTyped, UnitsTyped
<1>4. \A c \in {a, b} : /\ place[c] \in [Part -> Nat]
                        /\ \A part \in Part : place[c][part] < method.count[part]
                        /\ place[c]["SA"] = 0
  <2> SUFFICES ASSUME NEW c \in Address
               PROVE  /\ place[c] \in [Part -> Nat]
                      /\ \A part \in Part : place[c][part] < method.count[part]
                      /\ place[c]["SA"] = 0
    OBVIOUS
  <2>1. /\ place[c] \in [Part -> Nat] /\ place[c]["SA"] = 0
        /\ \A part \in Part : place[c][part] < SizesOf(method)[part]
    BY PlaceTyped
  <2>2. \A part \in Part : /\ SizesOf(method)[part] <= method.count[part]
                           /\ SizesOf(method)[part] \in Nat /\ method.count[part] \in Nat
    BY <1>1, MethodTyped
  <2>3. \A part \in Part : place[c][part] \in Nat
    BY <2>1
  <2>4. \A part \in Part : place[c][part] < method.count[part]
    BY <2>1, <2>2, <2>3
  <2>5. QED
    BY <2>1, <2>4
<1>5. method.count \in [Part -> Nat \ {0}]
  BY <1>1, MethodTyped
<1>6. /\ DRCReverseTranslate(method, p.ignoreBits, place[a]) = ofA.phy + x * ofA.unit
      /\ DRCReverseTranslate(method, p.ignoreBits, place[b]) = ofB.phy + y * ofB.unit
  BY DEF DRCReverseTranslate
<1>7. x \in Nat /\ y \in Nat
  BY <1>4 DEF Part
<1> HIDE DEF l, unit, ofA, ofB, x, y
<1>a. Parts(l) /\ unit \in Nat \ {0} /\ method.count \in [Part -> Nat \ {0}]
  BY <1>2, <1>3, <1>5
<1>b. place[a] \in [Part -> Nat] /\ \A part \in Part : place[a][part] < method.count[part]
  BY <1>4
<1>c. place[b] \in [Part -> Nat] /\ \A part \in Part : place[b][part] < method.count[part]
  BY <1>4
<1>8. /\ ofA.unit \in Nat \ {0} /\ ofA.unit = ofB.unit
      /\ ofA.phy \in Nat /\ ofA.phy < ofA.unit
      /\ (ofA.phy = ofB.phy <=> AgreeOn(l, place[a], place[b]))
  BY <1>a, <1>b, <1>c, PutTogetherTellsApart DEF ofA, ofB
<1>9. ofB.phy \in Nat /\ ofB.phy < ofB.unit
  BY <1>a, <1>b, <1>c, PutTogetherTellsApart DEF ofB
<1>10. ofA.phy = ofB.phy <=> \A part \in Middle : place[a][part] = place[b][part]
  BY <1>2, <1>8 DEF AgreeOn
<1>11. ofA.phy + x * ofA.unit = ofB.phy + y * ofB.unit <=> x = y /\ ofA.phy = ofB.phy
  <2> DEFINE w == ofA.unit
             c == ofA.phy
             d == ofB.phy
  <2>1. w \in Nat \ {0} /\ ofB.unit = w /\ c \in Nat /\ c < w /\ d \in Nat /\ d < w
    BY <1>8, <1>9
  <2> HIDE DEF w, c, d
  <2>2. (x * w + c) \div w = x /\ (x * w + c) % w = c
    BY <1>7, <2>1, Quotients
  <2>3. (y * w + d) \div w = y /\ (y * w + d) % w = d
    BY <1>7, <2>1, Quotients
  <2>4. x * w \in Nat /\ y * w \in Nat
    BY <1>7, <2>1, Product
  <2>5. c + x * w = x * w + c /\ d + y * w = y * w + d
    BY <2>1, <2>4
  <2>6. c + x * w = d + y * w <=> x = y /\ c = d
    BY <2>2, <2>3, <2>5
  <2>7. QED
    BY <2>1, <2>6 DEF w, c, d
<1>12. RowOf(a) = RowOf(b) <=> x = y /\ \A part \in Middle : place[a][part] = place[b][part]
  <2>1. RowOf(a) = RowOf(b) <=>
          \A part \in {"CH", "RK", "BK", "SA", "R"} : place[a][part] = place[b][part]
    BY SameRow
  <2>2. place[a]["SA"] = place[b]["SA"]
    BY <1>4
  <2>3. QED
    BY <2>1, <2>2 DEF Middle, x, y
<1>13. QED
  BY <1>6, <1>10, <1>11, <1>12

\* All of it together.
LEMMA DecodedPlaces ==
  ASSUME Decoded
  PROVE  PlacesAreDistinct
<1>1. p.decoder = "AddressTranslator" => \A a \in Address : ReverseTranslate(method, place[a]) = a
  <2> SUFFICES ASSUME p.decoder = "AddressTranslator", NEW a \in Address
               PROVE  ReverseTranslate(method, place[a]) = a
    OBVIOUS
  <2>1. PutTogether(SizesOf(method), LowToHigh(method), Burst, place[a]).phy = a
    BY PlacesLeadBack
  <2>2. QED
    BY <2>1 DEF ReverseTranslate, SizesOf
<1>2. QED
  BY <1>1, SamePlace, RowsToldApart DEF PlacesAreDistinct
-----------------------------------------------------------------------------
(* The bits of a word: inverting a byte also turns it round, see           *)
(* InvertData.                                                             *)
Word == [Bit -> {0, 1}]

\* A word of which some partitions are inverted.
Inverted(data, partitions) ==
  [b \in Bit |-> IF b \div fpSize \in partitions THEN 1 - data[Mirror(b)] ELSE data[b]]

\* Bytes, words and partitions: partitions are whole bytes and fill the word.
LEMMA Sizes ==
  /\ ByteBits \in Nat \ {0} /\ WordBytes \in Nat \ {0} /\ fpSize \in Nat \ {0}
  /\ flipPartitions \in Nat \ {0} /\ WordBits \in Nat \ {0}
  /\ fpSize = (fpSize \div ByteBits) * ByteBits /\ fpSize \div ByteBits \in Nat \ {0}
  /\ WordBits = WordBytes * ByteBits /\ WordBits = flipPartitions * fpSize
<1>1. ByteBits \in Nat \ {0} /\ WordBytes \in Nat \ {0} /\ fpSize \in Nat \ {0}
      /\ fpSize % ByteBits = 0 /\ WordBits % fpSize = 0
  BY FlipNWriteAssumption
<1>2. WordBits \in Nat \ {0} /\ WordBits = WordBytes * ByteBits
  BY <1>1 DEF WordBits
<1>3. \A a, n \in Nat \ {0} : a % n = 0 => a = (a \div n) * n /\ a \div n \in Nat \ {0}
  <2> SUFFICES ASSUME NEW a \in Nat \ {0}, NEW n \in Nat \ {0}, a % n = 0
               PROVE  a = (a \div n) * n /\ a \div n \in Nat \ {0}
    OBVIOUS
  <2>1. a \div n \in Nat /\ a = (a \div n) * n + (a % n)
    BY Division
  <2>2. a = (a \div n) * n
    BY <2>1, Product
  <2>3. QED
    BY <2>1, <2>2
<1>4. fpSize = (fpSize \div ByteBits) * ByteBits /\ fpSize \div ByteBits \in Nat \ {0}
  BY <1>1, <1>3
<1>5. WordBits = (WordBits \div fpSize) * fpSize /\ WordBits \div fpSize \in Nat \ {0}
  BY <1>1, <1>2, <1>3
<1>6. QED
  BY <1>1, <1>2, <1>4, <1>5 DEF flipPartitions

\* The bits of a byte change places within their byte.
LEMMA MirrorFacts ==
  ASSUME NEW b \in Bit
  PROVE  /\ Mirror(b) \in Bit /\ Mirror(Mirror(b)) = b
         /\ Mirror(b) \div fpSize = b \div fpSize
         /\ b \div fpSize \in Partition
         /\ \A i \in Nat : b \in PartitionBits(i) <=> b \div fpSize = i
<1> DEFINE B == ByteBits
           q == b \div B
           r == b % B
           m == fpSize \div B
           c == Mirror(b)
<1>1. /\ B \in Nat \ {0} /\ m \in Nat \ {0} /\ fpSize = m * B /\ fpSize \in Nat \ {0}
      /\ WordBytes \in Nat \ {0} /\ WordBits = WordBytes * B /\ WordBits \in Nat
      /\ flipPartitions \in Nat \ {0} /\ WordBits = flipPartitions * fpSize
  BY Sizes
<1>2. b \in Nat /\ b < WordBits
  BY <1>1 DEF Bit
<1>3. q \in Nat /\ r \in Nat /\ r < B /\ b = q * B + r /\ q * B \in Nat
  BY <1>1, <1>2, Division, Product
<1>4. c = q * B + (B - 1 - r)
  BY DEF Mirror
<1> HIDE DEF B, m, q, r, c
<1>5. B - 1 - r \in Nat /\ B - 1 - r < B
  BY <1>1, <1>3
<1>6. c \div B = q /\ c % B = B - 1 - r /\ c \in Nat
  <2> DEFINE w == B - 1 - r
  <2>1. w \in Nat /\ w < B /\ q * B \in Nat /\ c = q * B + w
    BY <1>3, <1>4, <1>5
  <2> HIDE DEF w
  <2>2. (q * B + w) \div B = q /\ (q * B + w) % B = w
    BY <1>1, <1>3, <2>1, Quotients
  <2>3. QED
    BY <2>1, <2>2 DEF w
<1>7. q < WordBytes
  <2>1. ~ q < WordBytes => q = WordBytes \/ WordBytes < q
    BY <1>1, <1>3
  <2>2. WordBytes < q => WordBytes * B + B <= q * B
    BY <1>1, <1>3, ProductsGrow
  <2>3. QED
    BY <1>1, <1>2, <1>3, <2>1, <2>2, Product
<1>8. c \in Bit
  <2>1. q * B + B <= WordBytes * B
    BY <1>1, <1>3, <1>7, ProductsGrow
  <2>2. c < WordBits
    BY <1>1, <1>3, <1>4, <1>5, <2>1
  <2>3. QED
    BY <1>1, <1>6, <2>2 DEF Bit
<1>9. Mirror(c) = b
  <2>1. Mirror(c) = (c \div B) * B + (B - 1 - (c % B))
    BY DEF Mirror, B
  <2>2. B - 1 - (B - 1 - r) = r
    BY <1>1, <1>3
  <2>3. QED
    BY <1>3, <1>6, <2>1, <2>2
<1>10. ASSUME NEW s \in Nat, s < B
       PROVE  (q * B + s) \div fpSize = q \div m
  <2> DEFINE Q == q \div m
             u == q % m
  <2>1. Q \in Nat /\ u \in Nat /\ u < m /\ q = Q * m + u
    BY <1>1, <1>3, Division
  <2> HIDE DEF Q, u
  <2>2. u * B + B <= m * B /\ u * B \in Nat
    BY <1>1, <2>1, ProductsGrow, Product
  <2>3. u * B + s \in Nat /\ u * B + s < fpSize
    BY <1>1, <1>10, <2>2
  <2>4. q * B + s = Q * fpSize + (u * B + s)
    <3>1. q * B = Q * m * B + u * B
      BY <1>1, <2>1
    <3>2. Q * m * B = Q * fpSize
      BY <1>1, <2>1
    <3>3. Q * fpSize \in Nat
      BY <1>1, <2>1, Product
    <3>4. QED
      BY <1>10, <2>2, <3>1, <3>2, <3>3
  <2> DEFINE w == u * B + s
  <2>5. (Q * fpSize + w) \div fpSize = Q
    <3>1. w \in Nat /\ w < fpSize
      BY <2>3
    <3> HIDE DEF w
    <3>2. QED
      BY <1>1, <2>1, <3>1, Quotients
  <2>6. QED
    BY <2>4, <2>5 DEF Q
<1>11. c \div fpSize = b \div fpSize
  BY <1>3, <1>4, <1>5, <1>10
<1>12. \A i \in Nat : b \in PartitionBits(i) <=> b \div fpSize = i
  <2> SUFFICES ASSUME NEW i \in Nat
               PROVE  b \in PartitionBits(i) <=> b \div fpSize = i
    OBVIOUS
  <2> DEFINE d == b \div fpSize
             e == b % fpSize
  <2>1. d \in Nat /\ e \in Nat /\ e < fpSize /\ b = d * fpSize + e /\ d * fpSize \in Nat
    BY <1>1, <1>2, Division, Product
  <2> HIDE DEF d, e
  <2>2. (i + 1) * fpSize = i * fpSize + fpSize /\ i * fpSize \in Nat
    BY <1>1, Product
  <2>3. b \in PartitionBits(i) <=> i * fpSize <= b /\ b < i * fpSize + fpSize
    BY <1>1, <1>2, <2>2 DEF PartitionBits
  <2>4. d < i => d * fpSize + fpSize <= i * fpSize
    BY <1>1, <2>1, ProductsGrow
  <2>5. i < d => i * fpSize + fpSize <= d * fpSize
    BY <1>1, <2>1, ProductsGrow
  <2>6. b \in PartitionBits(i) <=> d = i
    BY <1>1, <2>1, <2>2, <2>3, <2>4, <2>5
  <2>7. QED
    BY <2>6 DEF d
<1>13. b \div fpSize \in Partition
  <2> DEFINE d == b \div fpSize
             e == b % fpSize
  <2>1. d \in Nat /\ e \in Nat /\ e < fpSize /\ b = d * fpSize + e /\ d * fpSize \in Nat
    BY <1>1, <1>2, Division, Product
  <2> HIDE DEF d, e
  <2>2. flipPartitions < d => flipPartitions * fpSize + fpSize <= d * fpSize
    BY <1>1, <2>1, ProductsGrow
  <2>3. d < flipPartitions
    BY <1>1, <1>2, <2>1, <2>2
  <2>4. QED
    BY <1>1, <2>1, <2>3 DEF Partition, d
<1>14. QED
  BY <1>8, <1>9, <1>11, <1>12, <1>13 DEF c
-----------------------------------------------------------------------------
(* Inversion of partitions, in any order and twice.                        *)
\* A word with partitions inverted is a word.
LEMMA InvertedTyped ==
  ASSUME NEW data \in Word, NEW P \in SUBSET Partition
  PROVE  Inverted(data, P) \in Word
<1>1. \A b \in Bit : data[b] \in {0, 1} /\ data[Mirror(b)] \in {0, 1}
  BY MirrorFacts DEF Word
<1>2. \A v \in {0, 1} : 1 - v \in {0, 1}
  OBVIOUS
<1>3. QED
  BY <1>1, <1>2 DEF Inverted, Word

\* One partition more.
LEMMA InvertOne ==
  ASSUME NEW data \in Word, NEW P \in SUBSET Partition, NEW i \in P
  PROVE  InvertData(Inverted(data, P \ {i}), i) = Inverted(data, P)
<1> DEFINE w == Inverted(data, P \ {i})
           part(b) == b \div fpSize
<1>1. i \in Nat
  BY Sizes DEF Partition
<1>2. \A b \in Bit : Mirror(b) \in Bit /\ part(Mirror(b)) = part(b) /\ (b \in PartitionBits(i) <=> part(b) = i)
  BY <1>1, MirrorFacts
<1>3. \A b \in Bit : w[b] = IF part(b) \in P \ {i} THEN 1 - data[Mirror(b)] ELSE data[b]
  BY DEF Inverted
<1>4. ASSUME NEW b \in Bit
      PROVE  (IF b \in PartitionBits(i) THEN 1 - w[Mirror(b)] ELSE w[b])
               = IF part(b) \in P THEN 1 - data[Mirror(b)] ELSE data[b]
  <2> HIDE DEF w, part
  <2>1. CASE part(b) = i
    <3>1. w[Mirror(b)] = data[Mirror(b)]
      BY <1>2, <1>3, <2>1
    <3>2. QED
      BY <1>2, <2>1, <3>1
  <2>2. CASE part(b) # i
    BY <1>2, <1>3, <2>2
  <2>3. QED
    BY <2>1, <2>2
<1> HIDE DEF w
<1>5. InvertData(w, i) = [b \in Bit |-> IF part(b) \in P THEN 1 - data[Mirror(b)] ELSE data[b]]
  BY <1>4 DEF InvertData
<1>6. QED
  BY <1>5 DEF Inverted, w

\* Whatever the order of the partitions, each of them is inverted.
LEMMA InvertPartitionsInverts ==
  ASSUME NEW data \in Word, NEW P \in SUBSET Partition
  PROVE  InvertPartitions(data, P) = Inverted(data, P)
<1> DEFINE Value(f, s) == IF s = {} THEN data
                          ELSE LET x == CHOOSE x \in s : TRUE IN InvertData(f[s \ {x}], x)
           IsIt(f) == f = [s \in SUBSET P |-> Value(f, s)]
           e == [s \in SUBSET P |-> Inverted(data, s)]
           iter == CHOOSE f : IsIt(f)
<1>1. InvertPartitions(data, P) = iter[P]
  BY DEF InvertPartitions, FoldSet, MapThenFoldSet
<1>2. Inverted(data, {}) = data
  <2>1. Inverted(data, {}) = [b \in Bit |-> data[b]]
    BY DEF Inverted
  <2>2. QED
    BY <2>1 DEF Word
<1>3. ASSUME NEW s \in SUBSET P, s # {}
      PROVE  LET x == CHOOSE x \in s : TRUE
             IN  x \in s /\ s \ {x} \in SUBSET P /\ InvertData(Inverted(data, s \ {x}), x) = Inverted(data, s)
  <2> DEFINE x == CHOOSE x \in s : TRUE
  <2>1. x \in s
    BY <1>3
  <2> HIDE DEF x
  <2>2. s \in SUBSET Partition
    OBVIOUS
  <2>3. InvertData(Inverted(data, s \ {x}), x) = Inverted(data, s)
    BY <2>1, <2>2, InvertOne
  <2>4. QED
    BY <2>1, <2>3 DEF x
<1>4. IsIt(e)
  <2> SUFFICES ASSUME NEW s \in SUBSET P PROVE Inverted(data, s) = Value(e, s)
    OBVIOUS
  <2>1. CASE s = {}
    BY <1>2, <2>1
  <2>2. CASE s # {}
    <3> DEFINE x == CHOOSE x \in s : TRUE
    <3>1. s \ {x} \in SUBSET P /\ InvertData(Inverted(data, s \ {x}), x) = Inverted(data, s)
      BY <1>3, <2>2
    <3>2. e[s \ {x}] = Inverted(data, s \ {x})
      BY <3>1
    <3> HIDE DEF e
    <3>3. QED
      BY <2>2, <3>1, <3>2
  <2>3. QED
    BY <2>1, <2>2
<1>5. IsIt(iter)
  BY <1>4
<1> HIDE DEF iter
<1>6. \A s \in SUBSET P : iter[s] = Value(iter, s)
  BY <1>5
<1> DEFINE T == {s \in SUBSET P : iter[s] = Inverted(data, s)}
<1>7. IsFiniteSet(P)
  <2>1. IsFiniteSet(Partition)
    BY Sizes, FS_Interval DEF Partition
  <2>2. QED
    BY <2>1, FS_Subset
<1>8. {} \in T
  BY <1>2, <1>6
<1>9. ASSUME NEW s \in SUBSET P, \A x \in s : s \ {x} \in T
      PROVE  s \in T
  <2>1. CASE s = {}
    BY <1>8, <2>1
  <2>2. CASE s # {}
    <3> DEFINE x == CHOOSE x \in s : TRUE
    <3>1. x \in s /\ InvertData(Inverted(data, s \ {x}), x) = Inverted(data, s)
      BY <1>3, <2>2
    <3>2. iter[s] = InvertData(iter[s \ {x}], x)
      BY <1>6, <2>2
    <3>3. iter[s \ {x}] = Inverted(data, s \ {x})
      BY <1>9, <3>1
    <3>4. QED
      BY <3>1, <3>2, <3>3
  <2>3. QED
    BY <2>1, <2>2
<1>10. P \in T
  <2> HIDE DEF T
  <2>1. QED
    BY <1>7, <1>9, ElementByElement
<1>11. QED
  BY <1>1, <1>10

\* Inverting twice changes nothing.
LEMMA InvertedTwice ==
  ASSUME NEW data \in Word, NEW P \in SUBSET Partition
  PROVE  Inverted(Inverted(data, P), P) = data
<1> DEFINE w == Inverted(data, P)
           part(b) == b \div fpSize
<1>1. \A b \in Bit : Mirror(b) \in Bit /\ part(Mirror(b)) = part(b) /\ Mirror(Mirror(b)) = b
  BY MirrorFacts
<1>2. \A b \in Bit : w[b] = IF part(b) \in P THEN 1 - data[Mirror(b)] ELSE data[b]
  BY DEF Inverted
<1>3. \A b \in Bit : data[b] \in {0, 1}
  BY DEF Word
<1>4. ASSUME NEW b \in Bit
      PROVE  (IF part(b) \in P THEN 1 - w[Mirror(b)] ELSE w[b]) = data[b]
  <2> HIDE DEF w, part
  <2>1. CASE part(b) \in P
    <3>1. w[Mirror(b)] = 1 - data[b]
      BY <1>1, <1>2, <2>1
    <3>2. 1 - (1 - data[b]) = data[b]
      BY <1>3
    <3>3. QED
      BY <2>1, <3>1, <3>2
  <2>2. CASE part(b) \notin P
    BY <1>2, <2>2
  <2>3. QED
    BY <2>1, <2>2
<1>5. Inverted(w, P) = [b \in Bit |-> data[b]]
  <2> HIDE DEF w
  <2>1. QED
    BY <1>4 DEF Inverted
<1>6. QED
  BY <1>5 DEF Word
-----------------------------------------------------------------------------
(* A line of a trace is read as it was printed.                            *)
\* htonl undoes what reading a number in host order does.
LEMMA ReverseTwice ==
  ASSUME NEW V, NEW s \in Seq(V)
  PROVE  htonl(Number(s)) = s
<1> DEFINE n == Len(s)
           r == Reverse(s)
<1>1. n \in Nat /\ s \in [1 .. n -> V]
  BY LenProperties
<1>2. r = [i \in 1 .. n |-> s[(n - i) + 1]]
  BY DEF Reverse
<1>3. \A i \in 1 .. n : (n - i) + 1 \in 1 .. n /\ (n - ((n - i) + 1)) + 1 = i
  BY <1>1
<1>4. r \in Seq(V) /\ Len(r) = n
  <2>1. r \in [1 .. n -> V]
    BY <1>1, <1>2, <1>3
  <2> HIDE DEF r, n
  <2>2. QED
    BY <1>1, <2>1
<1> HIDE DEF r
<1>5. Reverse(r) = [i \in 1 .. n |-> r[(n - i) + 1]]
  BY <1>4 DEF Reverse
<1>6. \A i \in 1 .. n : r[(n - i) + 1] = s[i]
  BY <1>2, <1>3
<1>7. Reverse(r) = [i \in 1 .. n |-> s[i]]
  BY <1>5, <1>6
<1>8. Reverse(r) = s
  BY <1>1, <1>7
<1>9. QED
  BY <1>8 DEF htonl, Number, r

\* What is read by the number is what was printed by the byte.
LEMMA RawDataIsTheField ==
  ASSUME NEW V, NEW field \in Seq(V), Len(field) = WordBytes
  PROVE  RawData(field) = field
<1> DEFINE G == GroupBytes
           n == WordBytes \div G
           part(w) == SubSeq(field, (w - 1) * G + 1, w * G)
           seqs == [w \in 1 .. n |-> htonl(Number(part(w)))]
           Value(f, i) == IF i = 1 THEN seqs[i] ELSE f[i - 1] \o seqs[i]
           IsIt(f) == f = [i \in 1 .. n |-> Value(f, i)]
           flatten == CHOOSE f : IsIt(f)
           e == [i \in 1 .. n |-> SubSeq(field, 1, i * G)]
<1>1. G \in Nat \ {0} /\ n \in Nat \ {0} /\ WordBytes = n * G /\ WordBytes \in Nat
  <2>1. G \in Nat \ {0} /\ WordBytes \in Nat \ {0} /\ WordBytes % G = 0
    BY NVMainTraceAssumption, FlipNWriteAssumption
  <2>2. n \in Nat /\ WordBytes = n * G + (WordBytes % G)
    BY <2>1, Division
  <2>3. n * G \in Nat
    BY <2>1, <2>2, Product
  <2> HIDE DEF n
  <2>4. WordBytes = n * G
    BY <2>1, <2>2, <2>3
  <2>5. n # 0
    BY <2>1, <2>4
  <2>6. QED
    BY <2>1, <2>2, <2>4, <2>5
<1>2. RawData(field) = FlattenSeq(seqs)
  BY DEF RawData
<1> HIDE DEF G, n
<1>3. ASSUME NEW i \in 1 .. n
      PROVE  /\ i * G \in Nat /\ i * G <= WordBytes /\ (i - 1) * G \in Nat
             /\ i * G = (i - 1) * G + G
  <2>1. i * G \in Nat /\ n * G \in Nat /\ (i - 1) * G \in Nat
    BY <1>1, Product
  <2>2. i < n => i * G + G <= n * G
    BY <1>1, ProductsGrow
  <2>3. i * G = (i - 1) * G + G
    BY <1>1
  <2>4. QED
    BY <1>1, <2>1, <2>2, <2>3
<1>4. ASSUME NEW i \in 1 .. n
      PROVE  seqs[i] = part(i)
  <2>1. \A j \in (i - 1) * G + 1 .. i * G : field[j] \in V
    BY <1>1, <1>3, ElementOfSeq
  <2>2. part(i) \in Seq(V)
    <3> DEFINE lo == (i - 1) * G + 1
               hi == i * G
    <3>1. lo \in Int /\ hi \in Int /\ \A j \in lo .. hi : field[j] \in V
      BY <1>3, <2>1
    <3> HIDE DEF lo, hi
    <3>2. SubSeq(field, lo, hi) \in Seq(V)
      BY <3>1, SubSeqProperties
    <3>3. QED
      BY <3>2 DEF lo, hi
  <2> HIDE DEF part
  <2>3. htonl(Number(part(i))) = part(i)
    BY <2>2, ReverseTwice
  <2>4. QED
    BY <2>3
<1>5. Len(seqs) = n
  BY <1>1
<1>6. FlattenSeq(seqs) = flatten[n]
  <2> HIDE DEF seqs
  <2>1. QED
    BY <1>1, <1>5 DEF FlattenSeq
<1>7. ASSUME NEW i \in 1 .. n, i # 1
      PROVE  SubSeq(field, 1, (i - 1) * G) \o part(i) = SubSeq(field, 1, i * G)
  <2> DEFINE lo == (i - 1) * G
             hi == i * G
  <2>1. lo \in Nat /\ hi \in Nat /\ lo <= hi /\ hi <= Len(field) /\ Len(field) \in Nat
    BY <1>1, <1>3
  <2> HIDE DEF lo, hi
  <2>2. lo \in 1 - 1 .. Len(field) /\ hi \in lo .. Len(field) /\ 1 \in 1 .. Len(field) + 1
    BY <2>1
  <2>3. SubSeq(field, 1, lo) \o SubSeq(field, lo + 1, hi) = SubSeq(field, 1, hi)
    BY <2>2, ConcatAdjacentSubSeq
  <2>4. QED
    BY <2>3 DEF lo, hi
<1>8. part(1) = SubSeq(field, 1, 1 * G)
  BY <1>1
<1> HIDE DEF part, seqs
<1>9. IsIt(e)
  <2> SUFFICES ASSUME NEW i \in 1 .. n PROVE SubSeq(field, 1, i * G) = Value(e, i)
    OBVIOUS
  <2>1. CASE i = 1
    BY <1>4, <1>8, <2>1
  <2>2. CASE i # 1
    <3>1. i - 1 \in 1 .. n
      BY <2>2, <1>1
    <3>2. e[i - 1] = SubSeq(field, 1, (i - 1) * G)
      BY <3>1
    <3> HIDE DEF e
    <3>3. QED
      BY <1>4, <1>7, <2>2, <3>2
  <2>3. QED
    BY <2>1, <2>2
<1>10. IsIt(flatten)
  BY <1>9
<1> HIDE DEF flatten
<1>11. \A i \in 1 .. n : flatten[i] = IF i = 1 THEN part(i) ELSE flatten[i - 1] \o part(i)
  BY <1>4, <1>10
<1> DEFINE T == {k \in 0 .. n - 1 : flatten[k + 1] = SubSeq(field, 1, (k + 1) * G)}
<1>12. 0 \in T
  <2>1. flatten[1] = part(1)
    BY <1>1, <1>11
  <2>2. QED
    BY <1>1, <1>8, <2>1
<1>13. ASSUME NEW k \in 1 .. n - 1, k - 1 \in T
       PROVE  k \in T
  <2> DEFINE i == k + 1
  <2>1. i \in 1 .. n /\ i # 1 /\ i - 1 = k /\ (k - 1) + 1 = k
    BY <1>1
  <2>2. flatten[k] = SubSeq(field, 1, k * G)
    BY <1>13, <2>1
  <2> HIDE DEF i
  <2>3. flatten[i] = SubSeq(field, 1, i * G)
    BY <1>7, <1>11, <2>1, <2>2
  <2>4. QED
    BY <1>1, <2>3 DEF i
<1>14. flatten[n] = SubSeq(field, 1, n * G)
  <2> HIDE DEF T
  <2>1. n - 1 \in Nat
    BY <1>1
  <2>2. \A k \in 0 .. n - 1 : k \in T
    BY <1>12, <1>13, <2>1, CountingUp
  <2>3. n - 1 \in T
    BY <2>1, <2>2
  <2>4. (n - 1) + 1 = n
    BY <1>1
  <2>5. QED
    BY <2>3, <2>4 DEF T
<1>15. QED
  BY <1>1, <1>2, <1>6, <1>14, SubSeqFull

\* The data of a line, printed and read, are those of the request.
LEMMA PrintedBack ==
  ASSUME NEW d \in Word
  PROVE  DataOf(PrintData(d)) = d
<1> DEFINE field == PrintData(d)
           V == [0 .. ByteBits - 1 -> {0, 1}]
<1>1. /\ ByteBits \in Nat \ {0} /\ WordBytes \in Nat \ {0}
      /\ WordBits \in Nat \ {0} /\ WordBits = WordBytes * ByteBits
  BY Sizes
<1>2. field = [i \in 1 .. WordBytes |-> Byte(d, i - 1)]
  BY DEF PrintData
<1>3. ASSUME NEW i \in 1 .. WordBytes
      PROVE  Byte(d, i - 1) \in V
  <2>1. ASSUME NEW b \in 0 .. ByteBits - 1
        PROVE  (i - 1) * ByteBits + b \in Bit
    <3>1. i - 1 \in Nat /\ i - 1 < WordBytes /\ (i - 1) * ByteBits \in Nat
      BY <1>1, Product
    <3>2. (i - 1) * ByteBits + ByteBits <= WordBytes * ByteBits
      BY <1>1, <3>1, ProductsGrow
    <3>3. QED
      BY <1>1, <3>1, <3>2 DEF Bit
  <2>2. \A c \in Bit : d[c] \in {0, 1}
    BY DEF Word
  <2>3. \A b \in 0 .. ByteBits - 1 : d[(i - 1) * ByteBits + b] \in {0, 1}
    BY <2>1, <2>2
  <2>4. QED
    BY <2>3 DEF Byte
<1>4. field \in Seq(V) /\ Len(field) = WordBytes
  <2>1. field \in [1 .. WordBytes -> V]
    BY <1>2, <1>3
  <2> HIDE DEF field, V
  <2>2. QED
    BY <1>1, <2>1
<1> HIDE DEF field, V
<1>5. RawData(field) = field
  BY <1>4, RawDataIsTheField
<1>6. ASSUME NEW b \in Bit
      PROVE  RawData(field)[(b \div ByteBits) + 1][b % ByteBits] = d[b]
  <2> DEFINE q == b \div ByteBits
             r == b % ByteBits
  <2>1. b \in Nat /\ b < WordBytes * ByteBits
    BY <1>1 DEF Bit
  <2>2. q \in Nat /\ r \in Nat /\ r < ByteBits /\ b = q * ByteBits + r /\ q * ByteBits \in Nat
    BY <1>1, <2>1, Division, Product
  <2> HIDE DEF q, r
  <2>3. q < WordBytes
    <3>1. WordBytes < q => WordBytes * ByteBits + ByteBits <= q * ByteBits
      BY <1>1, <2>2, ProductsGrow
    <3>2. WordBytes * ByteBits \in Nat
      BY <1>1
    <3>3. QED
      BY <1>1, <2>1, <2>2, <3>1, <3>2
  <2>4. q + 1 \in 1 .. WordBytes /\ (q + 1) - 1 = q /\ r \in 0 .. ByteBits - 1
    BY <1>1, <2>2, <2>3
  <2>5. field[q + 1] = Byte(d, q)
    BY <1>2, <2>4
  <2>6. Byte(d, q)[r] = d[q * ByteBits + r]
    BY <2>4 DEF Byte
  <2>7. QED
    BY <1>5, <2>2, <2>5, <2>6 DEF q, r
<1>7. DataOf(field) = [b \in Bit |-> d[b]]
  BY <1>6 DEF DataOf
<1>8. QED
  BY <1>7 DEF Word, field
-----------------------------------------------------------------------------
(* Places, and the keys made of them.                                      *)
\* NVMain sets up the decoder from its configuration.
LEMMA DecodedAtFirst ==
  ASSUME Init
  PROVE  Decoded
BY DEF Init, Decoded

\* Nothing changes it later.
LEMMA DecodedStays ==
  ASSUME Decoded, [Next]_vars
  PROVE  Decoded'
<1>1. UNCHANGED <<p, method, place>>
  BY DEF Next, vars, Write, WriteAgain, Read
<1>2. \A a : PlaceOf(a)' = PlaceOf(a)
  BY <1>1 DEF PlaceOf
<1>3. QED
  BY <1>1, <1>2 DEF Decoded

\* For any sizes, any scheme that names no part twice and either decoder, no two
\* addresses of the memory share a place, and the commands that the controller
\* makes up with ReverseTranslate are about the line, or the DRC's row, they are
\* meant for.
THEOREM AddressesKeepTheirPlaces == Spec => []PlacesAreDistinct
<1>1. Init => Decoded
  BY DecodedAtFirst
<1>2. Decoded /\ [Next]_vars => Decoded'
  BY DecodedStays
<1>3. Decoded => PlacesAreDistinct
  BY DecodedPlaces
<1>4. QED
  BY <1>1, <1>2, <1>3, PTL DEF Spec
-----------------------------------------------------------------------------
\* A row's keys are laid one word after the other.
LEMMA ColumnsFit ==
  ASSUME Decoded, NEW a \in Address
  PROVE  Row(a) \in Nat /\ Col(a) \in Nat /\ Col(a) < COLS /\ COLS \in Nat \ {0}
<1>1. place[a] \in [Part -> Nat] /\ \A part \in Part : place[a][part] < SizesOf(method)[part]
  BY PlaceTyped
<1>2. p \in Configurations /\ method = Method(p)
  BY DEF Decoded
<1>3. SizesOf(method)["C"] <= method.count["C"] /\ SizesOf(method)["C"] \in Nat
  BY <1>2, MethodTyped DEF Part
<1>4. method.count["C"] = COLS /\ COLS \in Nat \ {0}
  BY <1>2, ConfigurationTyped DEF Method, Counts
<1>5. QED
  BY <1>1, <1>3, <1>4 DEF Row, Col, Part

\* A number of three digits, of which the two lower ones have bases.
Digits(n, C, F, r, c, i) ==
  r \in Nat /\ c \in Nat /\ i \in Nat /\ c < C /\ i < F /\ n = r * C * F + c * F + i

\* Such a number has no other digits.
LEMMA ThreeDigits ==
  ASSUME NEW C \in Nat \ {0}, NEW F \in Nat \ {0}, NEW n, NEW r, NEW s, NEW c, NEW d, NEW i, NEW j,
         Digits(n, C, F, r, c, i), Digits(n, C, F, s, d, j)
  PROVE  r = s /\ c = d /\ i = j
<1> DEFINE x == r * C + c
           y == s * C + d
<1>0. /\ r \in Nat /\ c \in Nat /\ i \in Nat /\ c < C /\ i < F /\ n = r * C * F + c * F + i
      /\ s \in Nat /\ d \in Nat /\ j \in Nat /\ d < C /\ j < F /\ n = s * C * F + d * F + j
  BY DEF Digits
<1>1. r * C \in Nat /\ s * C \in Nat
  BY <1>0, Product
<1>2. x * F + i = y * F + j
  <2>1. \A k, m \in Nat : (k + m) * F = k * F + m * F
    OBVIOUS
  <2>2. x * F = r * C * F + c * F /\ y * F = s * C * F + d * F
    BY <1>0, <1>1, <2>1
  <2>3. QED
    BY <1>0, <2>2
<1>3. x \in Nat /\ y \in Nat
  BY <1>0, <1>1
<1>4. x = y /\ i = j
  <2> HIDE DEF x, y
  <2>1. (x * F + i) \div F = x /\ (x * F + i) % F = i
    BY <1>0, <1>3, Quotients
  <2>2. (y * F + j) \div F = y /\ (y * F + j) % F = j
    BY <1>0, <1>3, Quotients
  <2>3. QED
    BY <1>2, <2>1, <2>2
<1>5. (r * C + c) \div C = r /\ (r * C + c) % C = c
  BY <1>0, Quotients
<1>6. (s * C + d) \div C = s /\ (s * C + d) % C = d
  BY <1>0, Quotients
<1>7. QED
  BY <1>4, <1>5, <1>6

\* FlipNWrite's keys are told apart by address and partition: rows do not overlap.
LEMMA KeysToldApart ==
  ASSUME Decoded, NEW a \in Address, NEW b \in Address, NEW i \in Partition, NEW j \in Partition,
         FlipKey(a, i) = FlipKey(b, j)
  PROVE  a = b /\ i = j
<1>1. flipPartitions \in Nat \ {0} /\ i \in Nat /\ i < flipPartitions /\ j \in Nat /\ j < flipPartitions
  BY Sizes DEF Partition
<1>2. /\ Row(a) \in Nat /\ Col(a) \in Nat /\ Col(a) < COLS /\ COLS \in Nat \ {0}
      /\ Row(b) \in Nat /\ Col(b) \in Nat /\ Col(b) < COLS
  BY ColumnsFit
<1> DEFINE n == Row(a) * COLS * flipPartitions + Col(a) * flipPartitions + i
<1>3. SubArrayOf(a) = SubArrayOf(b) /\ n = Row(b) * COLS * flipPartitions + Col(b) * flipPartitions + j
  BY DEF FlipKey
<1>4. Digits(n, COLS, flipPartitions, Row(a), Col(a), i) /\ Digits(n, COLS, flipPartitions, Row(b), Col(b), j)
  BY <1>1, <1>2, <1>3 DEF Digits
<1> HIDE DEF n
<1>5. Row(a) = Row(b) /\ Col(a) = Col(b) /\ i = j
  BY <1>1, <1>2, <1>4, ThreeDigits
<1>6. QED
  BY <1>3, <1>5, SamePlace

\* Marking one word leaves the marks of the others alone.
LEMMA MarksOfAWord ==
  ASSUME Decoded, NEW a \in Address, NEW inverted \in SUBSET Partition, NEW b \in Address
  PROVE  {i \in Partition : FlipKey(b, i) \in Marks(a, inverted)} = IF b = a THEN inverted ELSE Flipped(b)
<1> DEFINE ofA == {FlipKey(a, j) : j \in Partition}
           new == {FlipKey(a, j) : j \in inverted}
<1>1. \A i \in Partition : FlipKey(b, i) \in Marks(a, inverted)
        <=> (FlipKey(b, i) \in flippedAddresses /\ FlipKey(b, i) \notin ofA) \/ FlipKey(b, i) \in new
  BY DEF Marks
<1>2. CASE b = a
  <2>1. \A i \in Partition : FlipKey(b, i) \in ofA
    BY <1>2
  <2>2. \A i \in Partition : FlipKey(b, i) \in new <=> i \in inverted
    BY <1>2, KeysToldApart
  <2>3. QED
    BY <1>1, <1>2, <2>1, <2>2
<1>3. CASE b # a
  <2>1. \A i \in Partition : FlipKey(b, i) \notin ofA /\ FlipKey(b, i) \notin new
    BY <1>3, KeysToldApart
  <2> HIDE DEF ofA, new
  <2>2. QED
    BY <1>1, <1>3, <2>1 DEF Flipped
<1>4. QED
  BY <1>2, <1>3
-----------------------------------------------------------------------------
\* Untouched memory is a word like any other.
LEMMA ZeroIsAWord == Zero \in Word
  BY DEF Zero, Word

\* Without marks a word is read as it is.
LEMMA NothingInverted ==
  ASSUME NEW data \in Word
  PROVE  InvertPartitions(data, {}) = data
<1>1. Inverted(data, {}) = data
  <2>1. Inverted(data, {}) = [b \in Bit |-> data[b]]
    BY DEF Inverted
  <2>2. QED
    BY <2>1 DEF Word
<1>2. {} \in SUBSET Partition
  OBVIOUS
<1>3. InvertPartitions(data, {}) = Inverted(data, {})
  BY <1>2, InvertPartitionsInverts
<1>4. QED
  BY <1>1, <1>3

Request == [address : Address, data : Word, oldData : Word]

Typed ==
  /\ Decoded
  /\ program \in [Address -> Word] /\ memoryData \in [Address -> Word \cup {NoData}]
  /\ request \in Request \cup {NoRequest}

\* No word or request is taken for a missing one.
LEMMA NoWordIsMissing ==
  NoData \notin Word /\ NoData \notin Address /\ Data \subseteq Word /\ NoRequest \notin Request
BY DataPathAssumption DEF Word, NoRequest, Request

\* What a write leaves behind.
LEMMA WhatIsWritten ==
  ASSUME Typed, NEW req \in Request, IntoTheCells(req), UNCHANGED <<p, method, place>>
  PROVE  /\ memoryData' \in [Address -> Word \cup {NoData}] /\ memoryData'[req.address] # NoData
         /\ request' \in Request /\ request'.address = req.address
         /\ p.encoder # "FlipNWrite" => request'.data = req.data
         /\ p.encoder # "FlipNWrite" /\ flippedAddresses = {} => flippedAddresses' = {}
         /\ InvertPartitions(Cells(req.address)', Flipped(req.address)') = req.data
         /\ \A b \in Address \ {req.address} : /\ memoryData'[b] = memoryData[b]
                                               /\ Cells(b)' = Cells(b) /\ Flipped(b)' = Flipped(b)
<1> DEFINE a == req.address
           old == CurrentlyInMemory(req)
           inverted == IF p.encoder = "FlipNWrite" THEN ToInvert(old, req.data) ELSE {}
<1>1. a \in Address /\ req.data \in Word /\ req.oldData \in Word
  BY DEF Request
<1>2. inverted \in SUBSET Partition /\ Flipped(a) \in SUBSET Partition
  BY DEF ToInvert, Flipped
<1>3. old \in Word
  <2>1. InvertPartitions(req.oldData, Flipped(a)) \in Word
    BY <1>1, <1>2, InvertPartitionsInverts, InvertedTyped
  <2>2. QED
    BY <1>1, <2>1 DEF CurrentlyInMemory
<1>4. /\ request' = [req EXCEPT !.data = InvertPartitions(@, inverted), !.oldData = old]
      /\ flippedAddresses' = Marks(a, inverted)
      /\ memoryData' = [memoryData EXCEPT ![a] = request'.data]
  BY DEF IntoTheCells, Encode
<1>5. p.encoder # "FlipNWrite" => inverted = {}
  OBVIOUS
<1> HIDE DEF old, inverted
<1>6. InvertPartitions(req.data, inverted) \in Word
      /\ InvertPartitions(InvertPartitions(req.data, inverted), inverted) = req.data
  <2> DEFINE new == InvertPartitions(req.data, inverted)
  <2>1. new = Inverted(req.data, inverted) /\ new \in Word
    BY <1>1, <1>2, InvertPartitionsInverts, InvertedTyped
  <2> HIDE DEF new
  <2>2. InvertPartitions(new, inverted) = Inverted(new, inverted)
    BY <1>2, <2>1, InvertPartitionsInverts
  <2>3. QED
    BY <1>1, <1>2, <2>1, <2>2, InvertedTwice DEF new
<1>7. /\ request' \in Request /\ request'.address = a
      /\ request'.data = InvertPartitions(req.data, inverted)
  BY <1>1, <1>3, <1>4, <1>6 DEF Request
<1>8. memoryData' \in [Address -> Word \cup {NoData}] /\ memoryData'[a] = request'.data
      /\ \A b \in Address \ {a} : memoryData'[b] = memoryData[b]
  BY <1>1, <1>4, <1>6, <1>7 DEF Typed
<1>9. memoryData'[a] # NoData
  BY <1>6, <1>7, <1>8, NoWordIsMissing
<1>10. ASSUME p.encoder # "FlipNWrite"
       PROVE  request'.data = req.data /\ (flippedAddresses = {} => flippedAddresses' = {})
  BY <1>1, <1>4, <1>5, <1>7, <1>10, NothingInverted DEF Marks
<1>11. \A b \in Address : Flipped(b)' = {i \in Partition : FlipKey(b, i) \in Marks(a, inverted)}
  <2>1. \A b, i : FlipKey(b, i)' = FlipKey(b, i)
    BY DEF FlipKey, SubArrayOf, Row, Col, FieldOf, Fields
  <2>2. QED
    BY <1>4, <2>1 DEF Flipped
<1>12. \A b \in Address : Flipped(b)' = IF b = a THEN inverted ELSE Flipped(b)
  <2>1. Decoded
    BY DEF Typed
  <2>2. \A b \in Address : {i \in Partition : FlipKey(b, i) \in Marks(a, inverted)}
                             = IF b = a THEN inverted ELSE Flipped(b)
    BY <1>1, <1>2, <2>1, MarksOfAWord
  <2>3. QED
    BY <1>11, <2>2
<1>13. Cells(a)' = InvertPartitions(req.data, inverted)
  BY <1>7, <1>8, <1>9 DEF Cells
<1>14. InvertPartitions(Cells(a)', Flipped(a)') = req.data
  BY <1>1, <1>6, <1>12, <1>13
<1>15. \A b \in Address \ {a} : Cells(b)' = Cells(b) /\ Flipped(b)' = Flipped(b)
  BY <1>8, <1>12 DEF Cells
<1>16. QED
  BY <1>7, <1>8, <1>9, <1>10, <1>14, <1>15

\* A trace gives back what was recorded, the old data unless it is of before the
\* first version.
LEMMA TraceGivesBack ==
  ASSUME Typed, NEW a \in Address, NEW d \in Word
  PROVE  /\ NextAccess(a, d) \in Request /\ NextAccess(a, d).address = a /\ NextAccess(a, d).data = d
         /\ p.source # "NVMV0" => NextAccess(a, d).oldData = program[a]
<1> DEFINE old == program[a]
           first == <<a, PrintData(d)>>
           line == PrintPreTrace(p.source, [address |-> a, data |-> d, oldData |-> old])
<1>1. old \in Word
  BY DEF Typed
<1>2. DataOf(PrintData(d)) = d /\ DataOf(PrintData(old)) = old
  BY <1>1, PrintedBack
<1>3. NextAccess(a, d) = GetNextAccess(p.source, line)
  BY DEF NextAccess
<1>4. p.source = "NVMV0" => line = first \o <<>>
  BY DEF PrintPreTrace, WriteTraceLine
<1>5. p.source # "NVMV0" => line = first \o <<PrintData(old)>>
  BY DEF PrintPreTrace, WriteTraceLine
<1> HIDE DEF old, line
<1>6. line[1] = a /\ line[2] = PrintData(d) /\ (p.source # "NVMV0" => line[3] = PrintData(old))
  BY <1>4, <1>5
<1>7. NextAccess(a, d) = [address |-> a, data |-> d, oldData |-> IF p.source = "NVMV0" THEN Zero ELSE old]
  BY <1>2, <1>3, <1>6 DEF GetNextAccess
<1>8. NextAccess(a, d) \in Request
  BY <1>1, <1>7, ZeroIsAWord DEF Request
<1>9. QED
  BY <1>7, <1>8 DEF old
-----------------------------------------------------------------------------
(* The data: what is written, inverted or not, is what is read.            *)
\* No write that was encoded comes again.
EncodedOnce == p.encoder = "FlipNWrite" => ~ p.pausing

\* What was never written is not marked, without an encoder nothing is, and the
\* write that may come again holds the program's data.
DataInvariant ==
  /\ Typed
  /\ \A a \in Address : memoryData[a] = NoData => Flipped(a) = {}
  /\ p.encoder # "FlipNWrite" => flippedAddresses = {}
  /\ p.encoder # "FlipNWrite" /\ request # NoRequest => request.data = program[request.address]
  /\ EncodedOnce => DataSurvivesEncoding

\* Inversion looks at nothing that changes but the word and the partitions.
LEMMA InvertedLater ==
  DataSurvivesEncoding' <=> \A b \in Address : InvertPartitions(Cells(b)', Flipped(b)') = program'[b]
<1>1. \A b : InvertPartitions(Cells(b), Flipped(b))' = InvertPartitions(Cells(b)', Flipped(b)')
  BY DEF InvertPartitions, InvertData, Bit, PartitionBits, Mirror, WordBits, FoldSet, MapThenFoldSet
<1>2. QED
  BY <1>1 DEF DataSurvivesEncoding

\* Nothing is marked at first.
LEMMA DataAtFirst ==
  ASSUME Init
  PROVE  DataInvariant
<1>1. Typed
  BY DecodedAtFirst, ZeroIsAWord DEF Init, Typed
<1>2. \A a \in Address : Cells(a) = Zero /\ Flipped(a) = {} /\ program[a] = Zero
  BY DEF Init, Cells, Flipped
<1>3. InvertPartitions(Zero, {}) = Zero
  BY ZeroIsAWord, NothingInverted
<1>4. DataSurvivesEncoding
  BY <1>2, <1>3 DEF DataSurvivesEncoding
<1>5. QED
  BY <1>1, <1>2, <1>4 DEF DataInvariant, Init

\* A write of the program, from gem5 or from a trace.
LEMMA WriteKeepsTheData ==
  ASSUME DataInvariant, NEW a \in Address, NEW d \in Data, Write(a, d)
  PROVE  DataInvariant'
<1> DEFINE req == IF p.source = "gem5" THEN SetRequestData(a, d) ELSE NextAccess(a, d)
<1>1. Typed /\ d \in Word
  BY NoWordIsMissing DEF DataInvariant
<1>2. UNCHANGED <<p, method, place>> /\ IntoTheCells(req) /\ program' = [program EXCEPT ![a] = d]
  BY DEF Write
<1>3. req \in Request /\ req.address = a /\ req.data = d
  <2>1. SetRequestData(a, d) \in Request
    BY <1>1 DEF SetRequestData, Request, Typed
  <2>2. SetRequestData(a, d).address = a /\ SetRequestData(a, d).data = d
    BY DEF SetRequestData
  <2>3. QED
    BY <1>1, <2>1, <2>2, TraceGivesBack
<1> HIDE DEF req
<1>4. /\ memoryData' \in [Address -> Word \cup {NoData}] /\ memoryData'[a] # NoData
      /\ request' \in Request /\ request'.address = a
      /\ p.encoder # "FlipNWrite" => request'.data = d
      /\ p.encoder # "FlipNWrite" /\ flippedAddresses = {} => flippedAddresses' = {}
      /\ InvertPartitions(Cells(a)', Flipped(a)') = d
      /\ \A b \in Address \ {a} : /\ memoryData'[b] = memoryData[b]
                                  /\ Cells(b)' = Cells(b) /\ Flipped(b)' = Flipped(b)
  BY <1>1, <1>2, <1>3, WhatIsWritten
<1>5. Decoded'
  <2>1. [Next]_vars
    BY DEF Next
  <2>2. QED
    BY <1>1, <2>1, DecodedStays DEF Typed
<1>6. program' \in [Address -> Word] /\ program'[a] = d
      /\ \A b \in Address \ {a} : program'[b] = program[b]
  BY <1>1, <1>2 DEF Typed
<1>7. Typed'
  BY <1>4, <1>5, <1>6 DEF Typed
<1>8. \A b \in Address : memoryData'[b] = NoData => Flipped(b)' = {}
  BY <1>4 DEF DataInvariant
<1>9. ASSUME EncodedOnce'
      PROVE  DataSurvivesEncoding'
  <2>1. DataSurvivesEncoding
    BY <1>2, <1>9 DEF DataInvariant, EncodedOnce
  <2>2. \A b \in Address \ {a} : InvertPartitions(Cells(b)', Flipped(b)') = program'[b]
    BY <1>4, <1>6, <2>1 DEF DataSurvivesEncoding
  <2>3. \A b \in Address : InvertPartitions(Cells(b)', Flipped(b)') = program'[b]
    BY <1>4, <1>6, <2>2
  <2>4. QED
    BY <2>3, InvertedLater
<1>10. p.encoder # "FlipNWrite" => flippedAddresses' = {} /\ request'.data = program'[request'.address]
  BY <1>4, <1>6 DEF DataInvariant
<1>11. QED
  BY <1>2, <1>7, <1>8, <1>9, <1>10 DEF DataInvariant

\* A paused write comes again, with the data it has, where there is no encoder.
LEMMA WriteAgainKeepsTheData ==
  ASSUME DataInvariant, WriteAgain
  PROVE  DataInvariant'
<1> DEFINE a == request.address
<1>1. Typed
  BY DEF DataInvariant
<1>2. UNCHANGED <<p, method, place>> /\ IntoTheCells(request) /\ program' = program /\ p.pausing
  BY DEF WriteAgain
<1>3. request \in Request /\ a \in Address /\ request # NoRequest
  BY <1>1 DEF Typed, WriteAgain, Request
<1>4. /\ memoryData' \in [Address -> Word \cup {NoData}] /\ memoryData'[a] # NoData
      /\ request' \in Request /\ request'.address = a
      /\ p.encoder # "FlipNWrite" => request'.data = request.data
      /\ p.encoder # "FlipNWrite" /\ flippedAddresses = {} => flippedAddresses' = {}
      /\ InvertPartitions(Cells(a)', Flipped(a)') = request.data
      /\ \A b \in Address \ {a} : /\ memoryData'[b] = memoryData[b]
                                  /\ Cells(b)' = Cells(b) /\ Flipped(b)' = Flipped(b)
  BY <1>1, <1>2, <1>3, WhatIsWritten
<1>5. Decoded'
  <2>1. [Next]_vars
    BY DEF Next
  <2>2. QED
    BY <1>1, <2>1, DecodedStays DEF Typed
<1>6. Typed'
  BY <1>1, <1>2, <1>4, <1>5 DEF Typed
<1>7. \A b \in Address : memoryData'[b] = NoData => Flipped(b)' = {}
  BY <1>4 DEF DataInvariant
<1>8. p.encoder # "FlipNWrite" => flippedAddresses' = {} /\ request'.data = program'[request'.address]
  BY <1>2, <1>3, <1>4 DEF DataInvariant
<1>9. ASSUME EncodedOnce'
      PROVE  DataSurvivesEncoding'
  <2>1. DataSurvivesEncoding /\ p.encoder # "FlipNWrite"
    BY <1>2, <1>9 DEF DataInvariant, EncodedOnce
  <2>2. request.data = program[a]
    BY <1>3, <2>1 DEF DataInvariant
  <2>3. \A b \in Address : InvertPartitions(Cells(b)', Flipped(b)') = program'[b]
    BY <1>2, <1>4, <2>1, <2>2 DEF DataSurvivesEncoding
  <2>4. QED
    BY <2>3, InvertedLater
<1>10. QED
  BY <1>2, <1>6, <1>7, <1>8, <1>9 DEF DataInvariant

\* A first read stores what the program has, uninverted, and nothing was marked.
LEMMA ReadKeepsTheData ==
  ASSUME DataInvariant, NEW a \in Address, Read(a)
  PROVE  DataInvariant'
<1>1. Typed
  BY DEF DataInvariant
<1>2. /\ UNCHANGED <<p, method, place, program, flippedAddresses, request>>
      /\ memoryData[a] = NoData /\ memoryData' = [memoryData EXCEPT ![a] = program[a]]
  BY DEF Read
<1>3. Decoded'
  <2>1. [Next]_vars
    BY DEF Next
  <2>2. QED
    BY <1>1, <2>1, DecodedStays DEF Typed
<1>4. program[a] \in Word /\ program[a] # NoData
  BY <1>1, NoWordIsMissing DEF Typed
<1>5. /\ memoryData' \in [Address -> Word \cup {NoData}] /\ memoryData'[a] = program[a]
      /\ \A b \in Address \ {a} : memoryData'[b] = memoryData[b]
  BY <1>1, <1>2, <1>4 DEF Typed
<1>6. Typed'
  BY <1>1, <1>2, <1>3, <1>5 DEF Typed
<1>7. \A b \in Address : Flipped(b)' = Flipped(b)
  BY <1>2 DEF Flipped, FlipKey, SubArrayOf, Row, Col, FieldOf, Fields
<1>8. \A b \in Address : memoryData'[b] = NoData => Flipped(b)' = {}
  BY <1>4, <1>5, <1>7 DEF DataInvariant
<1>9. ASSUME EncodedOnce'
      PROVE  DataSurvivesEncoding'
  <2>1. DataSurvivesEncoding
    BY <1>2, <1>9 DEF DataInvariant, EncodedOnce
  <2>2. \A b \in Address \ {a} : Cells(b)' = Cells(b)
    BY <1>5 DEF Cells
  <2>3. Flipped(a) = {} /\ Cells(a)' = program[a]
    BY <1>2, <1>4, <1>5 DEF DataInvariant, Cells
  <2>4. InvertPartitions(program[a], {}) = program[a]
    BY <1>4, NothingInverted
  <2>5. \A b \in Address : InvertPartitions(Cells(b)', Flipped(b)') = program'[b]
    BY <1>2, <1>7, <2>1, <2>2, <2>3, <2>4 DEF DataSurvivesEncoding
  <2>6. QED
    BY <2>5, InvertedLater
<1>10. QED
  BY <1>2, <1>6, <1>8, <1>9 DEF DataInvariant

\* A step that changes nothing.
LEMMA NothingKeepsTheData ==
  ASSUME DataInvariant, UNCHANGED vars
  PROVE  DataInvariant'
<1>1. UNCHANGED <<p, method, place, program, memoryData, flippedAddresses, request>>
  BY DEF vars
<1>2. Decoded'
  <2>1. [Next]_vars
    OBVIOUS
  <2>2. QED
    BY <2>1, DecodedStays DEF DataInvariant, Typed
<1>3. Typed'
  BY <1>1, <1>2 DEF DataInvariant, Typed
<1>4. \A b \in Address : Flipped(b)' = Flipped(b) /\ Cells(b)' = Cells(b)
  BY <1>1 DEF Flipped, FlipKey, SubArrayOf, Row, Col, FieldOf, Fields, Cells
<1>6. DataSurvivesEncoding => DataSurvivesEncoding'
  BY <1>1, <1>4, InvertedLater DEF DataSurvivesEncoding
<1>7. QED
  BY <1>1, <1>3, <1>4, <1>6 DEF DataInvariant, EncodedOnce

\* Every step keeps the data.
LEMMA DataGoesOn ==
  ASSUME DataInvariant, [Next]_vars
  PROVE  DataInvariant'
<1>1. ASSUME NEW a \in Address, NEW d \in Data, Write(a, d) PROVE DataInvariant'
  BY <1>1, WriteKeepsTheData
<1>2. CASE WriteAgain
  BY <1>2, WriteAgainKeepsTheData
<1>3. ASSUME NEW a \in Address, Read(a) PROVE DataInvariant'
  BY <1>3, ReadKeepsTheData
<1>4. CASE UNCHANGED vars
  BY <1>4, NothingKeepsTheData
<1>5. QED
  BY <1>1, <1>2, <1>3, <1>4 DEF Next

\* For any word and partition size, any data and any order of writes, from gem5 or
\* from a trace of either version: while no encoded write comes again, the marks
\* tell how to read back what FlipNWrite has left in the cells.
THEOREM WhatIsWrittenIsRead == Spec => [](EncodedOnce => DataSurvivesEncoding)
<1>1. Init => DataInvariant
  BY DataAtFirst
<1>2. DataInvariant /\ [Next]_vars => DataInvariant'
  BY DataGoesOn
<1>3. DataInvariant => (EncodedOnce => DataSurvivesEncoding)
  BY DEF DataInvariant
<1>4. QED
  BY <1>1, <1>2, <1>3, PTL DEF Spec
-----------------------------------------------------------------------------
(* Sums, by counting: a number is as large as the set of the pairs made of *)
(* it.                                                                     *)
SumOf(w, S) == MapThenSumSet(LAMBDA u : w[u], S)
Tally(w, S) == {t \in S \X Nat : t[2] \in 1 .. w[t[1]]}

\* A tally grows by as many pairs as its new element counts.
LEMMA TalliesAdd ==
  ASSUME NEW D, IsFiniteSet(D), NEW w \in [D -> Nat]
  PROVE  \A S \in SUBSET D :
           /\ IsFiniteSet(Tally(w, S)) /\ Cardinality(Tally(w, S)) \in Nat
           /\ \A x \in S : Cardinality(Tally(w, S)) = w[x] + Cardinality(Tally(w, S \ {x}))
<1>1. ASSUME NEW S \in SUBSET D, NEW x \in S
      PROVE  /\ Tally(w, S) = Tally(w, S \ {x}) \cup ({x} \X (1 .. w[x]))
             /\ Tally(w, S \ {x}) \cap ({x} \X (1 .. w[x])) = {}
  BY DEF Tally
<1>2. \A x \in D : IsFiniteSet({x} \X (1 .. w[x])) /\ Cardinality({x} \X (1 .. w[x])) = w[x]
  <2> SUFFICES ASSUME NEW x \in D
               PROVE  IsFiniteSet({x} \X (1 .. w[x])) /\ Cardinality({x} \X (1 .. w[x])) = w[x]
    OBVIOUS
  <2> DEFINE n == w[x]
  <2>1. n \in Nat
    OBVIOUS
  <2> HIDE DEF n
  <2>2. IsFiniteSet(1 .. n) /\ Cardinality(1 .. n) = n
    BY <2>1, FS_Interval
  <2>3. IsFiniteSet({x}) /\ Cardinality({x}) = 1
    BY FS_Singleton
  <2>4. IsFiniteSet({x} \X (1 .. n)) /\ Cardinality({x} \X (1 .. n)) = 1 * n
    <3> DEFINE A == {x}
               B == 1 .. n
    <3> HIDE DEF A, B
    <3>1. IsFiniteSet(A) /\ IsFiniteSet(B) /\ Cardinality(A) = 1 /\ Cardinality(B) = n
      BY <2>2, <2>3 DEF A, B
    <3>2. IsFiniteSet(A \X B) /\ Cardinality(A \X B) = Cardinality(A) * Cardinality(B)
      BY <3>1, FS_Product
    <3>3. QED
      BY <3>1, <3>2 DEF A, B
  <2>5. QED
    BY <2>1, <2>4 DEF n
<1> DEFINE T == {S \in SUBSET D : IsFiniteSet(Tally(w, S))}
<1>3. ASSUME NEW U \in SUBSET D
      PROVE  U \in T
  <2>1. ASSUME NEW s \in SUBSET U, \A x \in s : s \ {x} \in T
        PROVE  s \in T
    <3>1. CASE s = {}
      <4>1. Tally(w, s) = {}
        BY <3>1 DEF Tally
      <4>2. QED
        BY <4>1, FS_EmptySet
    <3>2. CASE s # {}
      <4>1. PICK x \in s : TRUE
        BY <3>2
      <4>2. IsFiniteSet(Tally(w, s \ {x})) /\ IsFiniteSet({x} \X (1 .. w[x]))
        BY <1>2, <2>1, <4>1
      <4>3. Tally(w, s) = Tally(w, s \ {x}) \cup ({x} \X (1 .. w[x]))
        BY <1>1, <4>1
      <4>4. IsFiniteSet(Tally(w, s))
        <5> DEFINE A == Tally(w, s \ {x})
                   B == {x} \X (1 .. w[x])
        <5> HIDE DEF A, B
        <5>1. IsFiniteSet(A) /\ IsFiniteSet(B)
          BY <4>2 DEF A, B
        <5>2. IsFiniteSet(A \cup B)
          BY <5>1, FS_Union
        <5>3. QED
          BY <4>3, <5>2 DEF A, B
      <4>5. QED
        BY <4>4
    <3>3. QED
      BY <3>1, <3>2
  <2>2. IsFiniteSet(U)
    BY FS_Subset
  <2> HIDE DEF T
  <2>3. QED
    BY <2>1, <2>2, ElementByElement
<1>4. ASSUME NEW S \in SUBSET D, NEW x \in S
      PROVE  Cardinality(Tally(w, S)) = w[x] + Cardinality(Tally(w, S \ {x}))
  <2> DEFINE A == Tally(w, S \ {x})
             B == {x} \X (1 .. w[x])
  <2>1. IsFiniteSet(A) /\ IsFiniteSet(B) /\ Tally(w, S) = A \cup B /\ A \cap B = {}
        /\ Cardinality(B) = w[x]
    BY <1>1, <1>2, <1>3
  <2> HIDE DEF A, B
  <2>2. Cardinality(A \cup B) = Cardinality(A) + Cardinality(B) - Cardinality(A \cap B)
        /\ Cardinality(A) \in Nat /\ Cardinality(B) \in Nat /\ Cardinality(A \cap B) = 0
    BY <2>1, FS_Union, FS_CardinalityType, FS_EmptySet
  <2>3. QED
    BY <2>1, <2>2 DEF A
<1>5. QED
  BY <1>3, <1>4, FS_CardinalityType

\* MapThenSumSet adds up what a tally counts.
LEMMA SumsAreTallies ==
  ASSUME NEW D, IsFiniteSet(D), NEW w \in [D -> Nat]
  PROVE  SumOf(w, D) = Cardinality(Tally(w, D))
<1> DEFINE e == [s \in SUBSET D |-> Cardinality(Tally(w, s))]
           Value(f, s) == IF s = {} THEN 0
                          ELSE LET x == CHOOSE x \in s : TRUE IN w[x] + f[s \ {x}]
           IsIt(f) == f = [s \in SUBSET D |-> Value(f, s)]
           iter == CHOOSE f : IsIt(f)
<1>1. SumOf(w, D) = iter[D]
  BY DEF SumOf, MapThenSumSet, MapThenFoldSet
<1>2. Cardinality(Tally(w, {})) = 0
  <2>1. Tally(w, {}) = {}
    BY DEF Tally
  <2>2. QED
    BY <2>1, FS_EmptySet
<1>3. ASSUME NEW s \in SUBSET D, s # {}
      PROVE  LET x == CHOOSE x \in s : TRUE
             IN  /\ x \in s /\ s \ {x} \in SUBSET D
                 /\ Cardinality(Tally(w, s)) = w[x] + Cardinality(Tally(w, s \ {x}))
  <2> DEFINE x == CHOOSE x \in s : TRUE
  <2>1. x \in s
    BY <1>3
  <2> HIDE DEF x
  <2>2. Cardinality(Tally(w, s)) = w[x] + Cardinality(Tally(w, s \ {x}))
    BY <2>1, TalliesAdd
  <2>3. QED
    BY <2>1, <2>2 DEF x
<1>4. IsIt(e)
  <2> SUFFICES ASSUME NEW s \in SUBSET D PROVE Cardinality(Tally(w, s)) = Value(e, s)
    OBVIOUS
  <2>1. CASE s = {}
    BY <1>2, <2>1
  <2>2. CASE s # {}
    <3> DEFINE x == CHOOSE x \in s : TRUE
    <3>1. s \ {x} \in SUBSET D /\ Cardinality(Tally(w, s)) = w[x] + Cardinality(Tally(w, s \ {x}))
      BY <1>3, <2>2
    <3>2. e[s \ {x}] = Cardinality(Tally(w, s \ {x}))
      BY <3>1
    <3> HIDE DEF e
    <3>3. QED
      BY <2>2, <3>1, <3>2
  <2>3. QED
    BY <2>1, <2>2
<1>5. IsIt(iter)
  BY <1>4
<1> HIDE DEF iter
<1>6. \A s \in SUBSET D : iter[s] = Value(iter, s)
  BY <1>5
<1> DEFINE T == {s \in SUBSET D : iter[s] = Cardinality(Tally(w, s))}
<1>7. {} \in T
  BY <1>2, <1>6
<1>8. ASSUME NEW s \in SUBSET D, \A x \in s : s \ {x} \in T
      PROVE  s \in T
  <2>1. CASE s = {}
    BY <1>7, <2>1
  <2>2. CASE s # {}
    <3> DEFINE x == CHOOSE x \in s : TRUE
    <3>1. x \in s /\ Cardinality(Tally(w, s)) = w[x] + Cardinality(Tally(w, s \ {x}))
      BY <1>3, <2>2
    <3>2. iter[s] = w[x] + iter[s \ {x}]
      BY <1>6, <2>2
    <3>3. iter[s \ {x}] = Cardinality(Tally(w, s \ {x}))
      BY <1>8, <3>1
    <3>4. QED
      BY <3>1, <3>2, <3>3
  <2>3. QED
    BY <2>1, <2>2
<1>9. D \in T
  <2> HIDE DEF T
  <2>1. QED
    BY <1>8, ElementByElement
<1>10. QED
  BY <1>1, <1>9

\* A sum may be taken from any of its numbers on.
LEMMA Sums ==
  ASSUME NEW D, IsFiniteSet(D), NEW w, \A x \in D : w[x] \in Nat
  PROVE  /\ SumOf(w, {}) = 0
         /\ \A S \in SUBSET D : SumOf(w, S) \in Nat
         /\ \A S \in SUBSET D : \A x \in S : SumOf(w, S) = w[x] + SumOf(w, S \ {x})
<1>1. ASSUME NEW S \in SUBSET D, NEW v, v = [x \in S |-> w[x]]
      PROVE  SumOf(w, S) = Cardinality(Tally(v, S))
  <2>1. IsFiniteSet(S) /\ v \in [S -> Nat]
    BY <1>1, FS_Subset
  <2>2. SumOf(v, S) = Cardinality(Tally(v, S))
    BY <2>1, SumsAreTallies
  <2>3. SumOf(v, S) = SumOf(w, S)
    <3>1. \A s \in SUBSET S : s # {} => v[CHOOSE x \in s : TRUE] = w[CHOOSE x \in s : TRUE]
      BY <1>1
    <3> DEFINE ValueV(f, s) == IF s = {} THEN 0
                               ELSE LET x == CHOOSE x \in s : TRUE IN v[x] + f[s \ {x}]
               ValueW(f, s) == IF s = {} THEN 0
                               ELSE LET x == CHOOSE x \in s : TRUE IN w[x] + f[s \ {x}]
    <3>2. \A f : \A s \in SUBSET S : ValueV(f, s) = ValueW(f, s)
      BY <3>1
    <3>3. SumOf(v, S) = (CHOOSE f : f = [s \in SUBSET S |-> ValueV(f, s)])[S]
      BY DEF SumOf, MapThenSumSet, MapThenFoldSet
    <3>4. SumOf(w, S) = (CHOOSE f : f = [s \in SUBSET S |-> ValueW(f, s)])[S]
      BY DEF SumOf, MapThenSumSet, MapThenFoldSet
    <3> HIDE DEF ValueV, ValueW
    <3>5. \A f : [s \in SUBSET S |-> ValueV(f, s)] = [s \in SUBSET S |-> ValueW(f, s)]
      BY <3>2
    <3>6. (CHOOSE f : f = [s \in SUBSET S |-> ValueV(f, s)]) = (CHOOSE f : f = [s \in SUBSET S |-> ValueW(f, s)])
      BY <3>5
    <3>7. QED
      BY <3>3, <3>4, <3>6
  <2>4. QED
    BY <2>2, <2>3
<1> DEFINE all == [x \in D |-> w[x]]
<1>2. all \in [D -> Nat]
  OBVIOUS
<1>3. \A S \in SUBSET D : SumOf(w, S) = Cardinality(Tally(all, S))
  <2> SUFFICES ASSUME NEW S \in SUBSET D PROVE SumOf(w, S) = Cardinality(Tally(all, S))
    OBVIOUS
  <2> DEFINE v == [x \in S |-> w[x]]
  <2>1. Tally(v, S) = Tally(all, S)
    BY DEF Tally
  <2> HIDE DEF all
  <2>2. SumOf(w, S) = Cardinality(Tally(v, S))
    BY <1>1
  <2>3. QED
    BY <2>1, <2>2
<1>4. SumOf(w, {}) = 0
  <2>1. Tally(all, {}) = {}
    BY DEF Tally
  <2>2. SumOf(w, {}) = Cardinality(Tally(all, {}))
    BY <1>3
  <2>3. QED
    BY <2>1, <2>2, FS_EmptySet
<1>5. \A x \in D : all[x] = w[x]
  OBVIOUS
<1> HIDE DEF all
<1>6. \A S \in SUBSET D :
        /\ Cardinality(Tally(all, S)) \in Nat
        /\ \A x \in S : Cardinality(Tally(all, S)) = all[x] + Cardinality(Tally(all, S \ {x}))
  BY <1>2, TalliesAdd
<1>7. QED
  BY <1>3, <1>4, <1>5, <1>6
-----------------------------------------------------------------------------
(* Extremes, averages and sums over what shares a key.                     *)
\* An average, rounded down, is between the bounds of its numbers.
LEMMA AverageBounds ==
  ASSUME NEW D, IsFiniteSet(D), D # {}, NEW lo \in Nat, NEW hi \in Nat, NEW w,
         \A x \in D : w[x] \in Nat /\ lo <= w[x] /\ w[x] <= hi
  PROVE  LET average == SumOf(w, D) \div Cardinality(D)
         IN  average \in Nat /\ lo <= average /\ average <= hi
<1> DEFINE n(S) == Cardinality(S)
           T == {S \in SUBSET D : lo * n(S) <= SumOf(w, S) /\ SumOf(w, S) <= hi * n(S)}
<1>1. /\ SumOf(w, {}) = 0 /\ \A S \in SUBSET D : SumOf(w, S) \in Nat
      /\ \A S \in SUBSET D : \A x \in S : SumOf(w, S) = w[x] + SumOf(w, S \ {x})
  BY Sums
<1>2. \A S \in SUBSET D : IsFiniteSet(S) /\ n(S) \in Nat
  BY FS_Subset, FS_CardinalityType
<1>3. ASSUME NEW S \in SUBSET D, \A x \in S : S \ {x} \in T
      PROVE  S \in T
  <2>1. CASE S = {}
    <3>1. n(S) = 0
      BY <2>1, FS_EmptySet
    <3>2. lo * 0 = 0 /\ hi * 0 = 0
      OBVIOUS
    <3>3. QED
      BY <1>1, <2>1, <3>1, <3>2
  <2>2. CASE S # {}
    <3>1. PICK x \in S : TRUE
      BY <2>2
    <3> DEFINE m == n(S \ {x})
               s == SumOf(w, S \ {x})
    <3>2. m \in Nat /\ s \in Nat /\ lo * m <= s /\ s <= hi * m
      BY <1>1, <1>2, <1>3, <3>1
    <3>3. n(S) = m + 1
      <4>1. n(S) \in Nat /\ m = n(S) - 1
        BY <1>2, <3>1, FS_RemoveElement
      <4>2. QED
        BY <4>1
    <3>4. SumOf(w, S) = w[x] + s /\ w[x] \in Nat /\ lo <= w[x] /\ w[x] <= hi
      BY <1>1, <3>1
    <3> HIDE DEF m, s, n
    <3>5. lo * (m + 1) = lo * m + lo /\ hi * (m + 1) = hi * m + hi
          /\ lo * m \in Nat /\ hi * m \in Nat
      BY <3>2, Product
    <3>6. lo * (m + 1) <= w[x] + s /\ w[x] + s <= hi * (m + 1)
      BY <3>2, <3>4, <3>5
    <3>7. QED
      BY <3>3, <3>4, <3>6
  <2>3. QED
    BY <2>1, <2>2
<1>4. D \in T
  <2> HIDE DEF T
  <2>1. QED
    BY <1>3, ElementByElement
<1> DEFINE k == Cardinality(D)
           s == SumOf(w, D)
           q == s \div k
           r == s % k
<1>5. k \in Nat \ {0} /\ s \in Nat /\ lo * k <= s /\ s <= hi * k
  BY <1>1, <1>2, <1>4, FS_EmptySet
<1> HIDE DEF k, s
<1>6. q \in Nat /\ r \in Nat /\ r < k /\ s = q * k + r /\ q * k \in Nat
  BY <1>5, Division, Product
<1> HIDE DEF q, r
<1>7. q < lo => q * k + k <= lo * k
  BY <1>5, <1>6, ProductsGrow
<1>8. hi < q => hi * k + k <= q * k
  BY <1>5, <1>6, ProductsGrow
<1>9. lo * k \in Nat /\ hi * k \in Nat
  BY <1>5, Product
<1>10. lo <= q /\ q <= hi
  BY <1>5, <1>6, <1>7, <1>8, <1>9
<1>11. QED
  BY <1>6, <1>10 DEF q, k, s

\* Min and Max of a finite set of numbers.
LEMMA Extremes ==
  ASSUME NEW S \in SUBSET Nat, IsFiniteSet(S), S # {}
  PROVE  /\ Min(S) \in S /\ \A y \in S : Min(S) <= y
         /\ Max(S) \in S /\ \A y \in S : y <= Max(S)
<1> DEFINE T == {s \in SUBSET S : s = {} \/ \E x \in s : \A y \in s : x <= y}
           U == {s \in SUBSET S : s = {} \/ \E x \in s : \A y \in s : y <= x}
<1>1. ASSUME NEW s \in SUBSET S, \A x \in s : s \ {x} \in T
      PROVE  s \in T
  <2>1. CASE \A x \in s : s \ {x} = {}
    BY <2>1
  <2>2. CASE \E x \in s : s \ {x} # {}
    <3>1. PICK x \in s : s \ {x} # {}
      BY <2>2
    <3>2. PICK m \in s \ {x} : \A y \in s \ {x} : m <= y
      BY <1>1, <3>1
    <3>3. x <= m \/ m <= x
      BY <3>1, <3>2
    <3>4. CASE x <= m
      <4>1. \A y \in s : x <= y
        BY <3>2, <3>4
      <4>2. QED
        BY <3>1, <4>1
    <3>5. CASE m <= x
      <4>1. \A y \in s : m <= y
        BY <3>2, <3>5
      <4>2. QED
        BY <3>2, <4>1
    <3>6. QED
      BY <3>3, <3>4, <3>5
  <2>3. QED
    BY <2>1, <2>2
<1>2. ASSUME NEW s \in SUBSET S, \A x \in s : s \ {x} \in U
      PROVE  s \in U
  <2>1. CASE \A x \in s : s \ {x} = {}
    BY <2>1
  <2>2. CASE \E x \in s : s \ {x} # {}
    <3>1. PICK x \in s : s \ {x} # {}
      BY <2>2
    <3>2. PICK m \in s \ {x} : \A y \in s \ {x} : y <= m
      BY <1>2, <3>1
    <3>3. x <= m \/ m <= x
      BY <3>1, <3>2
    <3>4. CASE m <= x
      <4>1. \A y \in s : y <= x
        BY <3>2, <3>4
      <4>2. QED
        BY <3>1, <4>1
    <3>5. CASE x <= m
      <4>1. \A y \in s : y <= m
        BY <3>2, <3>5
      <4>2. QED
        BY <3>2, <4>1
    <3>6. QED
      BY <3>3, <3>4, <3>5
  <2>3. QED
    BY <2>1, <2>2
<1>3. S \in T
  <2> HIDE DEF T
  <2>1. QED
    BY <1>1, ElementByElement
<1>4. S \in U
  <2> HIDE DEF U
  <2>1. QED
    BY <1>2, ElementByElement
<1>5. Min(S) \in S /\ \A y \in S : Min(S) <= y
  BY <1>3 DEF Min
<1>6. Max(S) \in S /\ \A y \in S : y <= Max(S)
  <2>1. \E x \in S : \A y \in S : x >= y
    BY <1>4
  <2>2. Max(S) \in S /\ \A y \in S : Max(S) >= y
    BY <2>1 DEF Max
  <2>3. QED
    BY <2>2
<1>7. QED
  BY <1>5, <1>6

\* As many images as elements, at most.
LEMMA ImagesAreFinite ==
  ASSUME NEW S, IsFiniteSet(S), NEW f
  PROVE  IsFiniteSet({f[x] : x \in S})
<1> DEFINE T == {f[x] : x \in S}
           g == [x \in S |-> f[x]]
<1>1. g \in [S -> T] /\ \A t \in T : \E x \in S : g[x] = t
  OBVIOUS
<1>2. g \in Surjection(S, T)
  BY <1>1 DEF Surjection
<1>3. QED
  BY <1>2, FS_Surjection

\* One number apart from the others.
LEMMA SumWithout ==
  ASSUME NEW D, IsFiniteSet(D), NEW w, \A y \in D : w[y] \in Nat, NEW x \in D
  PROVE  SumOf(w, D) = w[x] + SumOf(w, D \ {x})
BY Sums

\* Sums of numbers are numbers.
LEMMA SumTyped ==
  ASSUME NEW D, IsFiniteSet(D), NEW w, \A y \in D : w[y] \in Nat
  PROVE  SumOf(w, D) \in Nat
BY Sums

\* Equal numbers have equal sums.
LEMMA SumsAgree ==
  ASSUME NEW D, IsFiniteSet(D), NEW v, NEW w, \A x \in D : v[x] \in Nat /\ w[x] = v[x]
  PROVE  SumOf(w, D) = SumOf(v, D)
<1> DEFINE T == {S \in SUBSET D : SumOf(w, S) = SumOf(v, S)}
<1>1. /\ SumOf(w, {}) = 0
      /\ \A S \in SUBSET D : \A x \in S : SumOf(w, S) = w[x] + SumOf(w, S \ {x})
  <2>1. \A x \in D : w[x] \in Nat
    OBVIOUS
  <2>2. QED
    BY <2>1, Sums
<1>2. /\ SumOf(v, {}) = 0
      /\ \A S \in SUBSET D : \A x \in S : SumOf(v, S) = v[x] + SumOf(v, S \ {x})
  BY Sums
<1>3. ASSUME NEW S \in SUBSET D, \A x \in S : S \ {x} \in T
      PROVE  S \in T
  BY <1>1, <1>2, <1>3
<1>4. D \in T
  <2> HIDE DEF T
  <2>1. QED
    BY <1>3, ElementByElement
<1>5. QED
  BY <1>4

\* The sum over those that have a key.
TotalOf(w, D, K, l) == SumOf(w, {x \in D : K[x] = l})

ToldApart(E, K) == \A x, y \in E : K[x] = K[y] => x = y

Positive(w, D) == \A x \in D : w[x] \in Nat \ {0}

\* One more for each of E.
OneMore(v, w, D, E) ==
  v = [x \in D \cup E |-> (IF x \in D THEN w[x] ELSE 0) + (IF x \in E THEN 1 ELSE 0)]

\* One more for each of E is one more for each key of E, as no two of E share one.
LEMMA SumsGrow ==
  ASSUME NEW D, IsFiniteSet(D), NEW E, IsFiniteSet(E), NEW K, ToldApart(E, K),
         NEW w, Positive(w, D), NEW v, OneMore(v, w, D, E), NEW l
  PROVE  TotalOf(v, D \cup E, K, l) = TotalOf(w, D, K, l) + (IF \E x \in E : K[x] = l THEN 1 ELSE 0)
<1> DEFINE A == {x \in D : K[x] = l}
           B == {x \in D \cup E : K[x] = l}
<1> USE DEF TotalOf, ToldApart, Positive, OneMore
<1>1. IsFiniteSet(D \cup E)
  BY FS_Union
<1>2. IsFiniteSet(A) /\ IsFiniteSet(B)
  BY <1>1, FS_Subset
<1>3. \A x \in D \cup E : v[x] \in Nat
  OBVIOUS
<1>4. \A x \in A : w[x] \in Nat
  OBVIOUS
<1>5. \A S \in SUBSET A : SumOf(w, S) \in Nat
  BY <1>2, <1>4, Sums
<1>6. CASE ~ \E x \in E : K[x] = l
  <2>1. B = A /\ \A x \in A : v[x] = w[x]
    BY <1>6
  <2>2. SumOf(v, A) = SumOf(w, A)
    BY <1>2, <1>4, <2>1, SumsAgree
  <2>3. SumOf(w, A) \in Nat
    BY <1>5
  <2> HIDE DEF A, B
  <2>4. SumOf(v, B) = SumOf(w, A) + 0
    BY <2>1, <2>2, <2>3
  <2>5. QED
    BY <1>6, <2>4 DEF A, B
<1>7. CASE \E x \in E : K[x] = l
  <2>1. PICK x \in E : K[x] = l
    BY <1>7
  <2>2. B = A \cup {x} /\ x \in B /\ \A y \in A \ {x} : v[y] = w[y]
    BY <2>1
  <2>3. v[x] = (IF x \in D THEN w[x] ELSE 0) + 1
    BY <2>1
  <2>4. x \in A <=> x \in D
    BY <2>1
  <2>5. \A y \in B : v[y] \in Nat
    BY <1>3
  <2> HIDE DEF A, B
  <2>6. SumOf(v, B) = v[x] + SumOf(v, B \ {x})
    <3>1. IsFiniteSet(B) /\ x \in B
      BY <1>2, <2>2
    <3>2. QED
      BY <2>5, <3>1, SumWithout
  <2>7. SumOf(v, A \ {x}) = SumOf(w, A \ {x})
    <3>1. IsFiniteSet(A \ {x})
      BY <1>2, FS_Subset
    <3>2. \A y \in A \ {x} : w[y] \in Nat /\ v[y] = w[y]
      BY <1>4, <2>2
    <3>3. QED
      BY <3>1, <3>2, SumsAgree
  <2>8. B \ {x} = A \ {x}
    BY <2>2
  <2>9. SumOf(w, A \ {x}) \in Nat /\ SumOf(w, A) \in Nat
    BY <1>5
  <2>10. SumOf(v, B) = SumOf(w, A) + 1
    <3>1. CASE x \in D
      <4>1. SumOf(w, A) = w[x] + SumOf(w, A \ {x})
        BY <1>2, <1>4, <2>4, <3>1, Sums
      <4>2. w[x] \in Nat
        BY <3>1
      <4>3. v[x] = w[x] + 1
        BY <2>3, <3>1
      <4> DEFINE rest == SumOf(w, A \ {x})
                 n == w[x]
                 made == SumOf(v, B)
                 was == SumOf(w, A)
      <4>4. rest \in Nat /\ n \in Nat /\ was = n + rest /\ made = (n + 1) + rest
        BY <2>6, <2>7, <2>8, <2>9, <4>1, <4>2, <4>3
      <4> HIDE DEF rest, n, made, was
      <4>5. made = was + 1
        BY <4>4
      <4>6. QED
        BY <4>5 DEF made, was
    <3>2. CASE x \notin D
      <4>1. A \ {x} = A
        BY <2>4, <3>2
      <4>2. QED
        BY <2>3, <2>6, <2>7, <2>8, <2>9, <3>2, <4>1
    <3>3. QED
      BY <3>1, <3>2
  <2>11. QED
    BY <1>7, <2>10 DEF A, B
<1>8. QED
  BY <1>6, <1>7
-----------------------------------------------------------------------------
(* The units of the endurance models and their keys.                       *)
Models == {"RowModel", "WordModel", "ByteModel", "BitModel"}

\* What can wear out in a subarray.
IsUnit(model, u) ==
  \E r \in Nat, c \in 0 .. COLS - 1 :
    \/ model = "RowModel" /\ u = <<r>>
    \/ model = "WordModel" /\ u = <<r, c>>
    \/ model = "ByteModel" /\ \E b \in Nat : u = <<r, c, b>>
    \/ model = "BitModel" /\ \E b \in Bit : u = <<r, c, b>>

\* The keys of rows, words and bits are told apart; ByteModel's are not.
LEMMA KeysOfUnits ==
  ASSUME NEW model \in Models \ {"ByteModel"}, NEW u, IsUnit(model, u), NEW v, IsUnit(model, v),
         Key(model, u) = Key(model, v)
  PROVE  u = v
<1>1. COLS \in Nat \ {0} /\ WordBits \in Nat \ {0}
  BY EnduranceAssumption, Sizes
<1>2. PICK r \in Nat, c \in 0 .. COLS - 1 :
         \/ model = "RowModel" /\ u = <<r>>
         \/ model = "WordModel" /\ u = <<r, c>>
         \/ model = "BitModel" /\ \E b \in Bit : u = <<r, c, b>>
  BY DEF IsUnit
<1>3. PICK s \in Nat, d \in 0 .. COLS - 1 :
         \/ model = "RowModel" /\ v = <<s>>
         \/ model = "WordModel" /\ v = <<s, d>>
         \/ model = "BitModel" /\ \E b \in Bit : v = <<s, d, b>>
  BY DEF IsUnit
<1>4. c \in Nat /\ c < COLS /\ d \in Nat /\ d < COLS
  BY <1>1
<1>5. CASE model = "RowModel"
  BY <1>2, <1>3, <1>5 DEF Key, RowKey
<1>6. CASE model = "WordModel"
  <2>1. u = <<r, c>> /\ v = <<s, d>>
    BY <1>2, <1>3, <1>6
  <2>2. r * COLS + c = s * COLS + d
    BY <1>6, <2>1 DEF Key, WordKey
  <2>3. (r * COLS + c) \div COLS = r /\ (r * COLS + c) % COLS = c
    BY <1>1, <1>4, Quotients
  <2>4. (s * COLS + d) \div COLS = s /\ (s * COLS + d) % COLS = d
    BY <1>1, <1>4, Quotients
  <2>5. QED
    BY <2>1, <2>2, <2>3, <2>4
<1>7. CASE model = "BitModel"
  <2>1. PICK i \in Bit : u = <<r, c, i>>
    BY <1>2, <1>7
  <2>2. PICK j \in Bit : v = <<s, d, j>>
    BY <1>3, <1>7
  <2>3. i \in Nat /\ i < WordBits /\ j \in Nat /\ j < WordBits
    BY <1>1 DEF Bit
  <2>4. Digits(Key(model, u), COLS, WordBits, r, c, i) /\ Digits(Key(model, u), COLS, WordBits, s, d, j)
    <3>1. Key(model, u) = r * COLS * WordBits + c * WordBits + i
      BY <1>7, <2>1 DEF Key, BitKey
    <3>2. Key(model, v) = s * COLS * WordBits + d * WordBits + j
      BY <1>7, <2>2 DEF Key, BitKey
    <3>3. QED
      BY <1>4, <2>3, <3>1, <3>2 DEF Digits
  <2>5. r = s /\ c = d /\ i = j
    BY <1>1, <1>4, <2>3, <2>4, ThreeDigits
  <2>6. QED
    BY <2>1, <2>2, <2>5
<1>8. QED
  BY <1>5, <1>6, <1>7 DEF Models

\* One write charges every key once, with ByteModel too.
LEMMA UnitsOfAWrite ==
  ASSUME NEW model \in Models, NEW row \in Nat, NEW col \in Nat, col < COLS, NEW changed \in SUBSET Bit
  PROVE  LET units == Units(model, row, col, changed)
         IN  /\ IsFiniteSet(units) /\ \A u \in units : IsUnit(model, u)
             /\ \A u, v \in units : Key(model, u) = Key(model, v) => u = v
<1> DEFINE units == Units(model, row, col, changed)
<1>1. /\ COLS \in Nat \ {0} /\ WordBytes \in Nat \ {0} /\ ByteBits \in Nat \ {0}
      /\ WordBits \in Nat /\ col \in 0 .. COLS - 1
  BY EnduranceAssumption, Sizes
<1>2. IsFiniteSet(changed)
  <2>1. IsFiniteSet(Bit)
    BY <1>1, FS_Interval DEF Bit
  <2>2. QED
    BY <2>1, FS_Subset
<1>3. CASE model = "ByteModel"
  <2>1. units = {<<row, col, b \div ByteBits>> : b \in changed}
    BY <1>3 DEF Units, ByteUnits
  <2>2. \A b \in changed : b \div ByteBits \in Nat
    <3>1. \A b \in changed : b \in Nat
      BY <1>1 DEF Bit
    <3>2. QED
      BY <1>1, <3>1, Division
  <2>3. IsFiniteSet(units)
    <3> DEFINE f == [b \in changed |-> <<row, col, b \div ByteBits>>]
    <3>1. units = {f[b] : b \in changed}
      BY <2>1
    <3> HIDE DEF f, units
    <3>2. QED
      BY <1>2, <3>1, ImagesAreFinite
  <2>4. \A u \in units : IsUnit(model, u)
    BY <1>1, <1>3, <2>1, <2>2 DEF IsUnit
  <2>5. ASSUME NEW u \in units, NEW v \in units, Key(model, u) = Key(model, v)
        PROVE  u = v
    <3>1. PICK x \in Nat : u = <<row, col, x>>
      BY <2>1, <2>2
    <3>2. PICK y \in Nat : v = <<row, col, y>>
      BY <2>1, <2>2
    <3> DEFINE n == row * ((COLS * WordBytes) \div ByteBits) + col * WordBytes
    <3>3. n \in Nat
      <4>1. COLS * WordBytes \in Nat
        BY <1>1, Product
      <4>2. (COLS * WordBytes) \div ByteBits \in Nat
        BY <1>1, <4>1, Division
      <4>3. row * ((COLS * WordBytes) \div ByteBits) \in Nat /\ col * WordBytes \in Nat
        BY <1>1, <4>2, Product
      <4>4. QED
        BY <4>3
    <3>4. Key(model, u) = n + x /\ Key(model, v) = n + y
      BY <1>3, <3>1, <3>2 DEF Key, ByteKey
    <3> HIDE DEF n
    <3>5. x = y
      <4>1. n + x = n + y
        BY <2>5, <3>4
      <4>2. QED
        BY <3>3, <4>1
    <3>6. QED
      BY <3>1, <3>2, <3>5
  <2>6. QED
    BY <2>3, <2>4, <2>5
<1>4. CASE model # "ByteModel"
  <2>1. \A u \in units : IsUnit(model, u)
    <3>1. CASE model = "RowModel"
      BY <1>1, <3>1 DEF Units, RowUnits, IsUnit
    <3>2. CASE model = "WordModel"
      BY <1>1, <3>2 DEF Units, WordUnits, IsUnit
    <3>3. CASE model = "BitModel"
      BY <1>1, <3>3 DEF Units, BitUnits, IsUnit
    <3>4. QED
      BY <1>4, <3>1, <3>2, <3>3 DEF Models
  <2>2. IsFiniteSet(units)
    <3>1. CASE model = "RowModel" \/ model = "WordModel"
      <4>1. units = {<<row>>} \/ units = {<<row, col>>}
        BY <3>1 DEF Units, RowUnits, WordUnits
      <4>2. QED
        BY <4>1, FS_Singleton
    <3>2. CASE model = "BitModel"
      <4> DEFINE f == [b \in changed |-> <<row, col, b>>]
      <4>1. units = {f[b] : b \in changed}
        BY <3>2 DEF Units, BitUnits
      <4> HIDE DEF f, units
      <4>2. QED
        BY <1>2, <4>1, ImagesAreFinite
    <3>3. QED
      BY <1>4, <3>1, <3>2 DEF Models
  <2>3. \A u, v \in units : Key(model, u) = Key(model, v) => u = v
    BY <1>4, <2>1, KeysOfUnits
  <2>4. QED
    BY <2>1, <2>2, <2>3
<1>5. QED
  BY <1>3, <1>4
-----------------------------------------------------------------------------
(* Lives: every key has what its units' wear leaves of the first life.     *)
\* The life that is left after so many writes.
LeftAfter(n) == IF n > Mean THEN 0 ELSE Mean - (n - 1)

\* One write more leaves one less, down to 0.
LEMMA LifeLeft ==
  ASSUME NEW n \in Nat \ {0}
  PROVE  /\ LeftAfter(n) \in Nat /\ LeftAfter(n) <= Mean
         /\ LeftAfter(n + 1) = IF LeftAfter(n) > 0 THEN LeftAfter(n) - 1 ELSE LeftAfter(n)
         /\ \A m \in Nat : n <= m => LeftAfter(m) <= LeftAfter(n)
BY EnduranceAssumption DEF LeftAfter

\* The first write is free.
LEMMA LifeGivenOut == LeftAfter(1) = Mean
BY EnduranceAssumption DEF LeftAfter

\* Every life is given out to those of D that have its key, and counts their wear.
LivesCount(lives, w, D, K) ==
  /\ DOMAIN lives = {K[x] : x \in D}
  /\ \A l \in DOMAIN lives : lives[l] = LeftAfter(TotalOf(w, D, K, l))

\* Only the keys matter.
LEMMA OtherKeys ==
  ASSUME NEW lives, NEW w, NEW D, NEW K, LivesCount(lives, w, D, K), NEW L, \A x \in D : L[x] = K[x]
  PROVE  LivesCount(lives, w, D, L)
<1>1. \A l : {x \in D : K[x] = l} = {x \in D : L[x] = l}
  OBVIOUS
<1>2. {K[x] : x \in D} = {L[x] : x \in D}
  OBVIOUS
<1>3. QED
  BY <1>1, <1>2 DEF LivesCount, TotalOf

\* DecrementLife takes one from the keys it is given, and gives out lives to new ones.
LEMMA LivesGoDown ==
  ASSUME NEW D, IsFiniteSet(D), NEW E, IsFiniteSet(E), NEW K, ToldApart(E, K),
         NEW w, Positive(w, D), NEW v, OneMore(v, w, D, E),
         NEW lives, LivesCount(lives, w, D, K)
  PROVE  LivesCount(DecrementLife(lives, {K[x] : x \in E}), v, D \cup E, K)
<1> DEFINE keys == {K[x] : x \in E}
           new == DecrementLife(lives, keys)
           Total(l) == TotalOf(w, D, K, l)
           NewTotal(l) == TotalOf(v, D \cup E, K, l)
<1>1. \A l : NewTotal(l) = Total(l) + (IF l \in keys THEN 1 ELSE 0)
  <2> SUFFICES ASSUME NEW l PROVE NewTotal(l) = Total(l) + (IF l \in keys THEN 1 ELSE 0)
    OBVIOUS
  <2>1. NewTotal(l) = Total(l) + (IF \E x \in E : K[x] = l THEN 1 ELSE 0)
    BY SumsGrow
  <2>2. QED
    BY <2>1
<1>2. /\ DOMAIN lives = {K[x] : x \in D}
      /\ \A l \in DOMAIN lives : lives[l] = LeftAfter(Total(l))
  BY DEF LivesCount
<1>3. ASSUME NEW l \in DOMAIN lives
      PROVE  Total(l) \in Nat \ {0}
  <2>1. PICK x \in D : K[x] = l
    BY <1>2
  <2> DEFINE S == {y \in D : K[y] = l}
  <2>2. x \in S /\ S \in SUBSET D
    BY <2>1
  <2> HIDE DEF S
  <2>3. \A y \in D : w[y] \in Nat
    BY DEF Positive
  <2>4. SumOf(w, S) = w[x] + SumOf(w, S \ {x}) /\ SumOf(w, S \ {x}) \in Nat
    <3>1. /\ IsFiniteSet(S) /\ IsFiniteSet(S \ {x}) /\ x \in S
          /\ \A y \in S : w[y] \in Nat
      BY <2>2, <2>3, FS_Subset
    <3>2. \A y \in S \ {x} : w[y] \in Nat
      BY <3>1
    <3>3. SumOf(w, S) = w[x] + SumOf(w, S \ {x})
      BY <3>1, SumWithout
    <3>4. QED
      BY <3>1, <3>2, <3>3, SumTyped
  <2>5. w[x] \in Nat \ {0}
    BY DEF Positive
  <2>6. SumOf(w, S) \in Nat \ {0}
    BY <2>4, <2>5
  <2>7. QED
    BY <2>6 DEF S, TotalOf
<1>4. ASSUME NEW l, l \notin DOMAIN lives
      PROVE  Total(l) = 0
  <2>1. {x \in D : K[x] = l} = {}
    BY <1>2, <1>4
  <2>2. SumOf(w, {}) = 0
    <3>1. \A y \in D : w[y] \in Nat
      BY DEF Positive
    <3>2. QED
      BY <3>1, Sums
  <2>3. QED
    BY <2>1, <2>2 DEF TotalOf
<1> HIDE DEF Total, NewTotal
<1>5. DOMAIN new = DOMAIN lives \cup keys
      /\ \A l \in DOMAIN new :
           new[l] = IF l \notin DOMAIN lives THEN Mean
                    ELSE IF l \in keys /\ lives[l] > 0 THEN lives[l] - 1 ELSE lives[l]
  BY DEF DecrementLife
<1>6. DOMAIN new = {K[x] : x \in D \cup E}
  BY <1>2, <1>5
<1> HIDE DEF keys, new
<1>7. ASSUME NEW l \in DOMAIN new
      PROVE  new[l] = LeftAfter(NewTotal(l))
  <2>1. CASE l \notin DOMAIN lives
    <3>1. NewTotal(l) = 1
      BY <1>1, <1>4, <1>5, <2>1
    <3>2. LeftAfter(1) = Mean
      BY LifeGivenOut
    <3>3. QED
      BY <1>5, <2>1, <3>1, <3>2
  <2>2. CASE l \in DOMAIN lives /\ l \in keys
    <3> DEFINE t == Total(l)
    <3>1. t \in Nat \ {0} /\ lives[l] = LeftAfter(t) /\ NewTotal(l) = t + 1
      BY <1>1, <1>2, <1>3, <2>2
    <3>2. new[l] = IF lives[l] > 0 THEN lives[l] - 1 ELSE lives[l]
      BY <1>5, <2>2
    <3> HIDE DEF t
    <3>3. LeftAfter(t + 1) = IF LeftAfter(t) > 0 THEN LeftAfter(t) - 1 ELSE LeftAfter(t)
      BY <3>1, LifeLeft
    <3>4. QED
      BY <3>1, <3>2, <3>3
  <2>3. CASE l \in DOMAIN lives /\ l \notin keys
    <3>1. NewTotal(l) = Total(l)
      BY <1>1, <1>3, <2>3
    <3>2. QED
      BY <1>2, <1>5, <2>3, <3>1
  <2>4. QED
    BY <2>1, <2>2, <2>3
<1>8. QED
  BY <1>6, <1>7 DEF LivesCount, new, keys, NewTotal
-----------------------------------------------------------------------------
KeyOf(k) == <<k[1], Key(p.model, k[2])>>
Keys == [k \in DOMAIN wear |-> KeyOf(k)]

\* When it is the wear that the endurance models count.
Counted == p.model \in {"RowModel", "WordModel"} \/ (p.source # "NVMV0" /\ ~ p.pausing)

WearTyped ==
  /\ IsFiniteSet(DOMAIN wear)
  /\ \A k \in DOMAIN wear : k = <<k[1], k[2]>> /\ IsUnit(p.model, k[2]) /\ wear[k] \in Nat \ {0}

\* With what the data need, see there.
WearInvariant ==
  /\ DataInvariant
  /\ WearTyped
  /\ Counted => LivesCount(life, wear, DOMAIN wear, Keys)

\* Priming is only of lives, wear and keys.
LEMMA LivesCountLater ==
  LivesCount(life, wear, DOMAIN wear, Keys)' <=> LivesCount(life', wear', DOMAIN wear', Keys')
BY DEF LivesCount, LeftAfter, TotalOf, SumOf, MapThenSumSet, MapThenFoldSet

\* The old data are those that are in the cells.
LEMMA OldDataIsInTheCells ==
  ASSUME DataInvariant, EncodedOnce, NEW req \in Request, req.oldData = program[req.address]
  PROVE  CurrentlyInMemory(req) = Cells(req.address)
<1> DEFINE a == req.address
           c == Cells(a)
           f == Flipped(a)
<1>1. a \in Address
  BY DEF Request
<1>2. c \in Word
  BY <1>1, ZeroIsAWord DEF DataInvariant, Typed, Cells
<1>3. f \in SUBSET Partition
  BY DEF Flipped
<1>4. InvertPartitions(c, f) = program[a]
  BY <1>1 DEF DataInvariant, DataSurvivesEncoding
<1>5. CASE p.encoder = "FlipNWrite"
  <2>1. CurrentlyInMemory(req) = InvertPartitions(program[a], f)
    BY <1>5 DEF CurrentlyInMemory
  <2> HIDE DEF a, c, f
  <2>2. program[a] = Inverted(c, f) /\ program[a] \in Word
    BY <1>2, <1>3, <1>4, InvertPartitionsInverts, InvertedTyped
  <2>3. InvertPartitions(program[a], f) = Inverted(program[a], f)
    BY <1>3, <2>2, InvertPartitionsInverts
  <2>4. Inverted(program[a], f) = c
    BY <1>2, <1>3, <2>2, InvertedTwice
  <2>5. QED
    BY <2>1, <2>3, <2>4 DEF c, a
<1>6. CASE p.encoder # "FlipNWrite"
  <2>1. f = {}
    BY <1>6 DEF DataInvariant, Flipped
  <2>2. InvertPartitions(c, {}) = c
    BY <1>2, NothingInverted
  <2>3. QED
    BY <1>4, <1>6, <2>1, <2>2 DEF CurrentlyInMemory
<1>7. QED
  BY <1>5, <1>6
-----------------------------------------------------------------------------
(* Every write wears what it changes, in the cells.                        *)
\* Nothing is worn at first.
LEMMA WearAtFirst ==
  ASSUME Init
  PROVE  WearInvariant
<1>1. DOMAIN wear = {} /\ DOMAIN life = {}
  BY DEF Init
<1>2. WearTyped
  BY <1>1, FS_EmptySet DEF WearTyped
<1>3. LivesCount(life, wear, DOMAIN wear, Keys)
  BY <1>1 DEF LivesCount
<1>4. QED
  BY <1>2, <1>3, DataAtFirst DEF WearInvariant

\* A write wears what its models say, and takes it from the lives if it knows
\* what was in the cells.
LEMMA WriteWears ==
  ASSUME WearInvariant, NEW req \in Request, IntoTheCells(req), UNCHANGED <<p, method, place>>,
         Counted /\ p.model \notin {"RowModel", "WordModel"} =>
           CurrentlyInMemory(req) = Cells(req.address)
  PROVE  WearTyped' /\ (Counted' => LivesCount(life', wear', DOMAIN wear', Keys'))
<1> DEFINE a == req.address
           s == SubArrayOf(a)
           spent == Units(p.model, Row(a), Col(a), Changed(request'.oldData, request'.data))
           units == Units(p.model, Row(a), Col(a), Changed(Cells(a), request'.data))
           worn == {<<s, u>> : u \in units}
           D == DOMAIN wear
           K == [k \in D \cup worn |-> KeyOf(k)]
<1>1. a \in Address /\ Typed /\ Decoded
  BY DEF Request, WearInvariant, DataInvariant, Typed
<1>2. p.model \in Models /\ Row(a) \in Nat /\ Col(a) \in Nat /\ Col(a) < COLS
  BY <1>1, ConfigurationTyped, ColumnsFit DEF Decoded, Models
<1>3. /\ IsFiniteSet(units) /\ \A u \in units : IsUnit(p.model, u)
      /\ \A u, v \in units : Key(p.model, u) = Key(p.model, v) => u = v
  <2> DEFINE changed == Changed(Cells(a), request'.data)
  <2>1. changed \in SUBSET Bit
    BY DEF Changed
  <2> HIDE DEF changed
  <2>2. QED
    BY <1>2, <2>1, UnitsOfAWrite DEF changed
<1>4. /\ wear' = [k \in D \cup worn |-> (IF k \in D THEN wear[k] ELSE 0) + (IF k \in worn THEN 1 ELSE 0)]
      /\ life' = DecrementLife(life, {<<s, Key(p.model, u)>> : u \in spent})
      /\ request'.oldData = CurrentlyInMemory(req)
  <2>1. req = [address |-> req.address, data |-> req.data, oldData |-> req.oldData]
    BY DEF Request
  <2>2. request' = [req EXCEPT !.data = InvertPartitions(@, IF p.encoder = "FlipNWrite"
                                  THEN ToInvert(CurrentlyInMemory(req), req.data) ELSE {}),
                               !.oldData = CurrentlyInMemory(req)]
    BY DEF IntoTheCells, Encode
  <2>3. request'.oldData = CurrentlyInMemory(req)
    BY <2>1, <2>2
  <2>4. QED
    BY <2>3 DEF IntoTheCells, CountWear, ChargeLife
<1>5. Counted => spent = units
  <2>1. p.model \in {"RowModel", "WordModel"} => spent = units
    BY DEF Units, RowUnits, WordUnits
  <2>2. QED
    BY <1>4, <2>1
<1>6. IsFiniteSet(D) /\ Positive(wear, D)
      /\ \A k \in D : k = <<k[1], k[2]>> /\ IsUnit(p.model, k[2])
  BY DEF WearInvariant, WearTyped, Positive
<1> HIDE DEF spent, units, s, D
<1>7. IsFiniteSet(worn)
  <2> DEFINE f == [u \in units |-> <<s, u>>]
  <2>1. worn = {f[u] : u \in units}
    OBVIOUS
  <2> HIDE DEF f, worn
  <2>2. QED
    BY <1>3, <2>1, ImagesAreFinite
<1>8. ToldApart(worn, K)
  BY <1>3 DEF ToldApart, KeyOf
<1>9. \A k \in worn : k = <<k[1], k[2]>> /\ IsUnit(p.model, k[2])
  BY <1>3
<1>10. {<<s, Key(p.model, u)>> : u \in units} = {K[k] : k \in worn}
  <2>1. \A u \in units : K[<<s, u>>] = <<s, Key(p.model, u)>> /\ <<s, u>> \in worn
    BY DEF KeyOf
  <2>2. \A k \in worn : \E u \in units : k = <<s, u>>
    OBVIOUS
  <2> HIDE DEF K, worn
  <2>3. \A u \in units : <<s, Key(p.model, u)>> \in {K[k] : k \in worn}
    BY <2>1
  <2>4. \A k \in worn : K[k] \in {<<s, Key(p.model, u)>> : u \in units}
    BY <2>1, <2>2
  <2>5. QED
    BY <2>3, <2>4
<1>11. OneMore(wear', wear, D, worn)
  BY <1>4 DEF OneMore
<1> HIDE DEF worn
<1>12. DOMAIN wear' = D \cup worn
  BY <1>4
<1>13. WearTyped'
  <2>1. IsFiniteSet(D \cup worn)
    BY <1>6, <1>7, FS_Union
  <2>2. \A k \in D \cup worn : wear'[k] \in Nat \ {0}
    BY <1>4, <1>6 DEF Positive
  <2>3. \A k \in DOMAIN wear' : /\ k = <<k[1], k[2]>> /\ IsUnit(p.model, k[2])
                                /\ wear'[k] \in Nat \ {0}
    BY <1>6, <1>9, <1>12, <2>2
  <2>4. QED
    BY <1>12, <2>1, <2>3 DEF WearTyped, IsUnit, Bit, WordBits
<1>14. ASSUME Counted'
       PROVE  LivesCount(life', wear', DOMAIN wear', Keys')
  <2>1. Counted
    BY <1>14 DEF Counted
  <2>2. LivesCount(life, wear, D, Keys)
    BY <2>1 DEF WearInvariant, D
  <2>3. LivesCount(life, wear, D, K)
    <3>1. \A k \in D : K[k] = Keys[k]
      BY DEF Keys, D
    <3> HIDE DEF K
    <3>2. QED
      BY <2>2, <3>1, OtherKeys
  <2>4. life' = DecrementLife(life, {K[k] : k \in worn})
    BY <1>4, <1>5, <1>10, <2>1
  <2>5. Keys' = K
    BY <1>12 DEF Keys, KeyOf
  <2> HIDE DEF K
  <2>6. LivesCount(DecrementLife(life, {K[k] : k \in worn}), wear', D \cup worn, K)
    BY <1>6, <1>7, <1>8, <1>11, <2>3, LivesGoDown
  <2>7. QED
    BY <1>12, <2>4, <2>5, <2>6
<1>15. QED
  BY <1>13, <1>14

\* Every step keeps the count.
LEMMA WearGoesOn ==
  ASSUME WearInvariant, [Next]_vars
  PROVE  WearInvariant'
<1>1. DataInvariant /\ DataInvariant'
  BY DataGoesOn DEF WearInvariant
<1>2. ASSUME NEW a \in Address, NEW d \in Data, Write(a, d)
      PROVE  WearTyped' /\ (Counted' => LivesCount(life', wear', DOMAIN wear', Keys'))
  <2> DEFINE req == IF p.source = "gem5" THEN SetRequestData(a, d) ELSE NextAccess(a, d)
  <2>1. UNCHANGED <<p, method, place>> /\ IntoTheCells(req)
    BY <1>2 DEF Write
  <2>2. Typed /\ d \in Word
    BY <1>1, NoWordIsMissing DEF DataInvariant
  <2>3. req \in Request /\ req.address = a /\ (p.source # "NVMV0" => req.oldData = program[a])
    <3>1. SetRequestData(a, d) \in Request
      BY <2>2 DEF SetRequestData, Request, Typed
    <3>2. SetRequestData(a, d).address = a /\ SetRequestData(a, d).oldData = program[a]
      BY DEF SetRequestData
    <3>3. QED
      BY <2>2, <3>1, <3>2, TraceGivesBack
  <2> HIDE DEF req
  <2>4. ASSUME Counted, p.model \notin {"RowModel", "WordModel"}
        PROVE  CurrentlyInMemory(req) = Cells(req.address)
    <3>1. EncodedOnce /\ req.oldData = program[req.address]
      BY <2>3, <2>4 DEF Counted, EncodedOnce
    <3>2. QED
      BY <1>1, <2>3, <3>1, OldDataIsInTheCells
  <2>5. QED
    BY <2>1, <2>3, <2>4, WriteWears
<1>3. ASSUME WriteAgain
      PROVE  WearTyped' /\ (Counted' => LivesCount(life', wear', DOMAIN wear', Keys'))
  <2>1. UNCHANGED <<p, method, place>> /\ IntoTheCells(request) /\ p.pausing /\ request # NoRequest
    BY <1>3 DEF WriteAgain
  <2>2. request \in Request
    BY <1>1, <2>1 DEF DataInvariant, Typed
  <2>3. ~ (Counted /\ p.model \notin {"RowModel", "WordModel"})
    BY <2>1 DEF Counted
  <2>4. QED
    BY <2>1, <2>2, <2>3, WriteWears
<1>4. ASSUME UNCHANGED <<p, life, wear>>
      PROVE  WearTyped' /\ (Counted' => LivesCount(life', wear', DOMAIN wear', Keys'))
  <2>1. WearTyped'
    BY <1>4 DEF WearInvariant, WearTyped, IsUnit, Bit, WordBits
  <2>2. Keys' = Keys
    BY <1>4 DEF Keys, KeyOf
  <2>3. QED
    BY <1>4, <2>1, <2>2 DEF WearInvariant, Counted
<1>5. WearTyped' /\ (Counted' => LivesCount(life', wear', DOMAIN wear', Keys'))
  BY <1>2, <1>3, <1>4 DEF Next, Read, vars
<1>6. QED
  BY <1>1, <1>5, LivesCountLater DEF WearInvariant
-----------------------------------------------------------------------------
(* What is reported of a subarray.                                         *)
\* What the models report of a subarray: the life of what is worn most, and an average
\* above it.
LEMMA WorstLife ==
  ASSUME NEW D, IsFiniteSet(D), D # {}, NEW K, ToldApart(D, K), NEW w, Positive(w, D),
         NEW lives, DOMAIN lives = {K[x] : x \in D}, \A x \in D : lives[K[x]] = LeftAfter(w[x])
  PROVE  GetWorstLife(lives) = LeftAfter(Max({w[x] : x \in D}))
<1> DEFINE wears == {w[x] : x \in D}
           left == {lives[l] : l \in DOMAIN lives}
           most == Max(wears)
<1>1. wears \in SUBSET Nat /\ IsFiniteSet(wears) /\ wears # {}
  <2>1. IsFiniteSet(wears)
    BY ImagesAreFinite
  <2>2. QED
    BY <2>1 DEF Positive
<1>2. most \in wears /\ \A n \in wears : n <= most
  <2> HIDE DEF wears
  <2>1. QED
    BY <1>1, Extremes
<1>3. \A n \in wears : n \in Nat \ {0}
  BY DEF Positive
<1> HIDE DEF most
<1>4. LeftAfter(most) \in left
  BY <1>2
<1>5. \A v \in left : v \in Nat /\ LeftAfter(most) <= v
  <2> SUFFICES ASSUME NEW v \in left PROVE v \in Nat /\ LeftAfter(most) <= v
    OBVIOUS
  <2>1. PICK n \in wears : v = LeftAfter(n)
    OBVIOUS
  <2>2. n \in Nat \ {0} /\ most \in Nat /\ n <= most
    BY <1>2, <1>3
  <2> HIDE DEF left, wears
  <2>3. LeftAfter(n) \in Nat /\ LeftAfter(most) <= LeftAfter(n)
    BY <2>2, LifeLeft
  <2>4. QED
    BY <2>1, <2>3
<1> HIDE DEF left, wears
<1>6. Min(left) = LeftAfter(most)
  <2> DEFINE v == LeftAfter(most)
  <2>1. v \in left /\ v \in Nat /\ \A u \in left : u \in Nat /\ v <= u
    BY <1>4, <1>5
  <2> HIDE DEF v
  <2>2. Min(left) \in left /\ Min(left) <= v
    <3>1. \E x \in left : \A y \in left : x =< y
      BY <2>1
    <3>2. Min(left) \in left /\ \A y \in left : Min(left) =< y
      BY <3>1 DEF Min
    <3>3. QED
      BY <2>1, <3>2
  <2>3. Min(left) = v
    <3> DEFINE m == Min(left)
    <3>1. m \in Nat /\ v \in Nat /\ v <= m /\ m <= v
      BY <2>1, <2>2
    <3> HIDE DEF m
    <3>2. m = v
      BY <3>1
    <3>3. QED
      BY <3>2 DEF m
  <2>4. QED
    BY <2>3 DEF v
<1>7. QED
  BY <1>6 DEF GetWorstLife, left, most, wears

\* The average of lives is between the worst and the first of them.
LEMMA AverageLife ==
  ASSUME NEW lives, IsFiniteSet(DOMAIN lives), DOMAIN lives # {},
         \A l \in DOMAIN lives : lives[l] \in Nat /\ lives[l] <= Mean
  PROVE  GetWorstLife(lives) <= GetAverageLife(lives) /\ GetAverageLife(lives) <= Mean
<1> DEFINE L == DOMAIN lives
           left == {lives[l] : l \in L}
<1>1. left \in SUBSET Nat /\ IsFiniteSet(left) /\ left # {}
  BY ImagesAreFinite
<1>2. Min(left) \in Nat /\ \A l \in L : Min(left) <= lives[l]
  <2>1. Min(left) \in left /\ \A v \in left : Min(left) <= v
    <3> HIDE DEF left
    <3>1. QED
      BY <1>1, Extremes
  <2>2. QED
    BY <1>1, <2>1
<1>3. GetAverageLife(lives) = SumOf(lives, L) \div Cardinality(L)
  BY DEF GetAverageLife, SumOf
<1>4. GetWorstLife(lives) = Min(left)
  BY DEF GetWorstLife
<1>5. IsFiniteSet(L) /\ L # {} /\ Mean \in Nat
      /\ \A l \in L : lives[l] \in Nat /\ Min(left) <= lives[l] /\ lives[l] <= Mean
  BY <1>2, EnduranceAssumption
<1> DEFINE lo == Min(left)
<1>6. lo \in Nat
  BY <1>2
<1> HIDE DEF L, lo
<1>7. lo <= SumOf(lives, L) \div Cardinality(L) /\ SumOf(lives, L) \div Cardinality(L) <= Mean
  <2>1. \A l \in L : lives[l] \in Nat /\ lo <= lives[l] /\ lives[l] <= Mean
    BY <1>5 DEF lo
  <2>2. QED
    BY <1>5, <1>6, <2>1, AverageBounds
<1>8. QED
  BY <1>3, <1>4, <1>7 DEF lo

\* What LifeCountsTheWear says follows from the invariant.
LEMMA WearIsCounted ==
  ASSUME WearInvariant
  PROVE  LifeCountsTheWear
<1> SUFFICES ASSUME Counted
             PROVE  LifeCountsTheWear
  BY DEF LifeCountsTheWear, Counted
<1> DEFINE K == Keys
           D == DOMAIN wear
           Sharing(l) == {u \in D : KeyOf(u) = l}
<1>1. IsFiniteSet(D) /\ Positive(wear, D)
      /\ \A k \in D : k = <<k[1], k[2]>> /\ IsUnit(p.model, k[2])
  BY DEF WearInvariant, WearTyped, Positive
<1>2. p.model \in Models
  BY ConfigurationTyped DEF WearInvariant, DataInvariant, Typed, Decoded, Models
<1>3. LivesCount(life, wear, D, K)
  BY DEF WearInvariant
<1>4. DOMAIN life = {KeyOf(k) : k \in D}
  BY <1>3 DEF LivesCount, Keys
<1>5. \A l : {x \in D : K[x] = l} = Sharing(l)
  BY DEF Keys
<1>6. \A k \in D : life[KeyOf(k)] = LeftAfter(SumOf(wear, Sharing(KeyOf(k))))
  <2>1. \A l \in DOMAIN life : life[l] = LeftAfter(TotalOf(wear, D, K, l))
    BY <1>3 DEF LivesCount
  <2>2. \A l : TotalOf(wear, D, K, l) = SumOf(wear, Sharing(l))
    BY <1>5 DEF TotalOf
  <2>3. \A k \in D : KeyOf(k) \in DOMAIN life
    BY <1>4
  <2> HIDE DEF D, K, Sharing
  <2>4. QED
    BY <2>1, <2>2, <2>3
<1>7. \A k \in D : wear[k] \in Nat \ {0}
  BY <1>1 DEF Positive
<1>8. ASSUME NEW k \in D, p.model # "ByteModel"
      PROVE  Sharing(KeyOf(k)) = {k} /\ SumOf(wear, Sharing(KeyOf(k))) = wear[k]
  <2>1. ASSUME NEW u \in D, KeyOf(u) = KeyOf(k)
        PROVE  u = k
    <3>1. u[1] = k[1] /\ Key(p.model, u[2]) = Key(p.model, k[2])
      BY <2>1 DEF KeyOf
    <3>2. u[2] = k[2]
      BY <1>1, <1>2, <1>8, <3>1, KeysOfUnits
    <3>3. QED
      BY <1>1, <3>1, <3>2
  <2>2. Sharing(KeyOf(k)) = {k}
    BY <2>1
  <2>3. SumOf(wear, {k}) = wear[k]
    <3>1. IsFiniteSet({k}) /\ \A x \in {k} : wear[x] \in Nat
      BY <1>7, FS_Singleton
    <3>2. SumOf(wear, {k}) = wear[k] + SumOf(wear, {k} \ {k})
      BY <3>1, SumWithout
    <3>3. {k} \ {k} = {} /\ SumOf(wear, {}) = 0
      BY <3>1, Sums
    <3>4. QED
      BY <1>7, <3>2, <3>3
  <2>4. QED
    BY <2>2, <2>3
<1>9. ASSUME NEW k \in D
      PROVE  LET key == <<k[1], Key(p.model, k[2])>>
                 sharing == {u \in DOMAIN wear : <<u[1], Key(p.model, u[2])>> = key}
                 written == IF p.model = "ByteModel" THEN MapThenSumSet(LAMBDA u : wear[u], sharing)
                            ELSE wear[k]
             IN  life[key] = IF written > Mean THEN 0 ELSE Mean - (written - 1)
  <2> DEFINE written == IF p.model = "ByteModel" THEN SumOf(wear, Sharing(KeyOf(k))) ELSE wear[k]
  <2>1. life[KeyOf(k)] = LeftAfter(written)
    BY <1>6, <1>8
  <2>2. life[KeyOf(k)] = IF written > Mean THEN 0 ELSE Mean - (written - 1)
    <3> HIDE DEF written
    <3>1. QED
      BY <2>1 DEF LeftAfter
  <2>3. QED
    BY <2>2 DEF SumOf, KeyOf
<1>10. ASSUME NEW s \in {k[1] : k \in D}
       PROVE  LET stats == CalculateStats(s)
                  most == Max({wear[k] : k \in {l \in D : l[1] = s}})
              IN  /\ p.model # "ByteModel" =>
                       stats.worstCaseEndurance = IF most > Mean THEN 0 ELSE Mean - (most - 1)
                  /\ stats.worstCaseEndurance <= stats.averageEndurance /\ stats.averageEndurance <= Mean
  <2> DEFINE S == {l \in D : l[1] = s}
             lives == [k \in {l \in DOMAIN life : l[1] = s} |-> life[k]]
             M == [k \in S |-> KeyOf(k)]
             most == Max({wear[k] : k \in S})
  <2>1. IsFiniteSet(S) /\ S # {} /\ S \in SUBSET D
    BY <1>1, FS_Subset
  <2>2. DOMAIN lives = {M[x] : x \in S} /\ \A x \in S : M[x] \in DOMAIN lives /\ lives[M[x]] = life[KeyOf(x)]
    <3>1. \A x \in S : M[x] = KeyOf(x) /\ KeyOf(x)[1] = s
      BY DEF KeyOf
    <3>2. \A x \in S : M[x] \in DOMAIN life /\ M[x][1] = s
      BY <1>4, <3>1
    <3>3. \A x \in S : M[x] \in DOMAIN lives /\ lives[M[x]] = life[KeyOf(x)]
      <4> HIDE DEF M, S
      <4>1. QED
        BY <3>1, <3>2
    <3>4. ASSUME NEW l \in DOMAIN lives
          PROVE  \E x \in S : M[x] = l
      <4>1. l \in DOMAIN life /\ l[1] = s
        OBVIOUS
      <4>2. PICK x \in D : l = KeyOf(x)
        BY <1>4, <4>1
      <4>3. x[1] = s
        BY <4>1, <4>2 DEF KeyOf
      <4>4. x \in S
        BY <4>3
      <4>5. QED
        BY <3>1, <4>2, <4>4
    <3> HIDE DEF M, S, lives
    <3>5. QED
      BY <3>3, <3>4
  <2>3. \A l \in DOMAIN lives : lives[l] \in Nat /\ lives[l] <= Mean
    <3>1. \A k \in D : life[KeyOf(k)] \in Nat /\ life[KeyOf(k)] <= Mean
      <4> SUFFICES ASSUME NEW k \in D PROVE life[KeyOf(k)] \in Nat /\ life[KeyOf(k)] <= Mean
        OBVIOUS
      <4> DEFINE n == SumOf(wear, Sharing(KeyOf(k)))
      <4>1. n \in Nat \ {0}
        <5> DEFINE T == Sharing(KeyOf(k))
        <5>1. k \in T /\ T \in SUBSET D
          OBVIOUS
        <5> HIDE DEF T, Sharing, D
        <5>2. IsFiniteSet(T) /\ IsFiniteSet(T \ {k}) /\ \A x \in T : wear[x] \in Nat
          BY <1>1, <1>7, <5>1, FS_Subset
        <5>3. \A x \in T \ {k} : wear[x] \in Nat
          BY <5>2
        <5>4. SumOf(wear, T) = wear[k] + SumOf(wear, T \ {k})
          BY <5>1, <5>2, SumWithout
        <5>5. SumOf(wear, T \ {k}) \in Nat
          BY <5>2, <5>3, SumTyped
        <5>6. wear[k] \in Nat \ {0}
          BY <1>7
        <5>7. SumOf(wear, T) \in Nat \ {0}
          BY <5>4, <5>5, <5>6
        <5>8. QED
          BY <5>7 DEF T
      <4>2. life[KeyOf(k)] = LeftAfter(n)
        BY <1>6
      <4> HIDE DEF n
      <4>3. QED
        BY <4>1, <4>2, LifeLeft
    <3>2. QED
      BY <2>2, <3>1
  <2>4. IsFiniteSet(DOMAIN lives) /\ DOMAIN lives # {}
    <3> HIDE DEF M, S, lives
    <3>1. QED
      BY <2>1, <2>2, ImagesAreFinite
  <2>5. CalculateStats(s).worstCaseEndurance = GetWorstLife(lives)
        /\ CalculateStats(s).averageEndurance = GetAverageLife(lives)
    BY DEF CalculateStats
  <2>6. GetWorstLife(lives) <= GetAverageLife(lives) /\ GetAverageLife(lives) <= Mean
    <3> HIDE DEF lives
    <3>1. QED
      BY <2>3, <2>4, AverageLife
  <2>7. ASSUME p.model # "ByteModel"
        PROVE  GetWorstLife(lives) = LeftAfter(most)
    <3>1. ToldApart(S, M)
      <4> SUFFICES ASSUME NEW x \in S, NEW y \in S, M[x] = M[y] PROVE x = y
        BY DEF ToldApart
      <4>1. x \in D /\ y \in D /\ KeyOf(x) = KeyOf(y)
        OBVIOUS
      <4>2. x \in Sharing(KeyOf(y)) /\ Sharing(KeyOf(y)) = {y}
        BY <1>8, <2>7, <4>1
      <4>3. QED
        BY <4>2
    <3>2. \A x \in S : lives[M[x]] = LeftAfter(wear[x])
      BY <1>6, <1>8, <2>2, <2>7
    <3>3. Positive(wear, S)
      BY <1>7 DEF Positive
    <3> HIDE DEF S, M, lives
    <3>4. QED
      BY <2>1, <2>2, <3>1, <3>2, <3>3, WorstLife
  <2>8. QED
    BY <2>5, <2>6, <2>7 DEF LeftAfter
<1>11. QED
  BY <1>4, <1>9, <1>10 DEF LifeCountsTheWear, KeyOf

\* For any number of writes and each of the four models: the life of every key is
\* what the cells' own changes leave of it, and the worst and average life that
\* SubArray::CalculateStats reports are bounds of it.
THEOREM LivesAreWhatIsLeft == Spec => []LifeCountsTheWear
<1>1. Init => WearInvariant
  BY WearAtFirst
<1>2. WearInvariant /\ [Next]_vars => WearInvariant'
  BY WearGoesOn
<1>3. WearInvariant => LifeCountsTheWear
  BY WearIsCounted
<1>4. QED
  BY <1>1, <1>2, <1>3, PTL DEF Spec
=============================================================================
