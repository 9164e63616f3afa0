------------------------------ MODULE DataLemmas -------------------------------
(***************************************************************************)
(* What the components' proofs need of numbers, folds and ordered lists.   *)
(*                                                                         *)
(* A fold is a function on the subsets of 1 .. n, so that what it computes *)
(* is reached by induction over a set of numbers.                          *)
(***************************************************************************)
EXTENDS SequencesExt, FiniteSetTheorems, WellFoundedInduction, TLAPS

-------------------------------------------------------------------------------
(* Numbers *)

Below == OpToRel(<, Nat)

\* Every set of numbers that is not empty has a least element.
LEMMA LeastNumber ==
    ASSUME NEW S, S \subseteq Nat, S # {}
    PROVE  \E t \in S : \A u \in S : t <= u
<1>1. IsWellFoundedOn(Below, Nat)
  BY NatLessThanWellFounded, PTL DEF Below
<1>2. Below = {ss \in Nat \X Nat : ss[1] < ss[2]}
  BY DEF Below, OpToRel
<1>3. PICK x \in S : \A y \in S : ~ (<<y, x>> \in Below)
  BY <1>1, WFMin
<1>4. \A y \in S : ~ (y < x)
  BY <1>2, <1>3
<1> QED
  BY <1>4

\* Induction up to n, over the set of the numbers for which something holds.
LEMMA Reaches ==
    ASSUME NEW n \in Nat, NEW P,
           0 \in P, \A k \in 0 .. n - 1 : k \in P => k + 1 \in P
    PROVE  0 .. n \subseteq P
<1> DEFINE Bad == {k \in 0 .. n : k \notin P}
<1> SUFFICES ASSUME Bad # {} PROVE FALSE
  OBVIOUS
<1>1. PICK b \in Bad : \A c \in Bad : b <= c
  <2>1. Bad \subseteq Nat
    OBVIOUS
  <2> HIDE DEF Bad
  <2> QED
    BY <2>1, LeastNumber
<1>2. b # 0
  OBVIOUS
<1>3. b - 1 \in 0 .. n - 1 /\ b - 1 \notin Bad
  BY <1>1, <1>2
<1> QED
  BY <1>3

\* A set of numbers up to n that is not empty has a greatest element.
LEMMA GreatestNumber ==
    ASSUME NEW n \in Nat, NEW S, S \subseteq 0 .. n, S # {}
    PROVE  Max(S) \in S /\ \A x \in S : x <= Max(S)
<1> DEFINE Left == {n - x : x \in S}
<1>1. Left \subseteq Nat /\ Left # {}
  <2>1. \A x \in S : n - x \in Nat
    OBVIOUS
  <2> QED
    BY <2>1
<1>2. PICK m \in Left : \A l \in Left : m <= l
  <2> HIDE DEF Left
  <2> QED
    BY <1>1, LeastNumber
<1>3. PICK k \in S : m = n - k
  OBVIOUS
<1>4. ASSUME NEW x \in S PROVE k >= x
  <2>1. n - k <= n - x
    BY <1>2, <1>3
  <2> QED
    BY <2>1
<1>5. \E y \in S : \A x \in S : y >= x
  BY <1>4
<1>6. Max(S) \in S /\ \A x \in S : Max(S) >= x
  BY <1>5, Zenon DEF Max
<1> QED
  BY <1>6

\* A number divided by a greater one is no greater, and less where it is a large one.
LEMMA Quotients ==
    ASSUME NEW u \in Nat
    PROVE  /\ \A a \in Nat : u \div (60 + a) \in Nat
           /\ \A a, b \in Nat : a <= b => u \div (60 + a) >= u \div (60 + b)
           /\ u >= 600 * 600 =>
                 \A a, b \in 1 .. 500 : a < b => u \div (60 + a) > u \div (60 + b)
<1>1. ASSUME NEW m \in Nat, m > 0
      PROVE  u \div m \in Nat /\ m * (u \div m) <= u /\ u < m * ((u \div m) + 1)
  BY <1>1, SMT
<1>2. ASSUME NEW m \in Nat, NEW n \in Nat, m > 0, m <= n PROVE u \div m >= u \div n
  <2> DEFINE v == u \div m
             w == u \div n
  <2>1. v \in Nat /\ w \in Nat /\ u < m * (v + 1) /\ n * w <= u
    BY <1>1, <1>2
  <2> HIDE DEF v, w
  <2>2. CASE v < w
    <3>1. m * (v + 1) <= m * w
      BY <1>2, <2>1, <2>2, SMT
    <3>2. m * w <= n * w
      BY <1>2, <2>1, SMT
    <3>3. m * (v + 1) \in Nat /\ m * w \in Nat /\ n * w \in Nat
      BY <2>1, SMT
    <3> QED
      BY <2>1, <3>1, <3>2, <3>3, SMT
  <2> QED
    BY <2>1, <2>2 DEF v, w
<1>3. ASSUME u >= 600 * 600, NEW a \in 1 .. 500, NEW b \in 1 .. 500, a < b
      PROVE  u \div (60 + a) > u \div (60 + b)
  <2> DEFINE m == 60 + a
             n == 60 + b
             v == u \div m
             w == u \div n
  <2>1. m \in Nat /\ n \in Nat /\ m > 0 /\ m + 1 <= n /\ n <= 560
    BY <1>3
  <2>2. /\ v \in Nat /\ w \in Nat /\ m * v <= u /\ u < m * (v + 1)
        /\ n * w <= u /\ u < n * (w + 1)
    <3> HIDE DEF m, n
    <3> QED
      BY <1>1, <2>1
  <2> HIDE DEF m, n, v, w
  <2>3. ASSUME v <= w PROVE FALSE
    <3>1. m * (v + 1) <= m * (w + 1)
      BY <2>1, <2>2, <2>3, SMT
    <3>2. m * (w + 1) + (w + 1) <= n * (w + 1)
      BY <2>1, <2>2, SMT
    <3>3. n * (w + 1) = n * w + n
      BY <2>1, <2>2, SMT
    <3>4. w + 1 < n
      BY <2>1, <2>2, <3>1, <3>2, <3>3, SMT
    <3>5. n * (w + 1) <= 560 * 560
      BY <2>1, <2>2, <3>4, SMT
    <3> QED
      BY <1>3, <2>1, <2>2, <3>5, SMT
  <2> QED
    BY <2>2, <2>3 DEF v, w, m, n
<1> QED
  <2>1. \A a \in Nat : 60 + a \in Nat /\ 60 + a > 0
    OBVIOUS
  <2>2. \A a \in Nat : u \div (60 + a) \in Nat
    BY <1>1, <2>1
  <2>3. \A a, b \in Nat : a <= b => u \div (60 + a) >= u \div (60 + b)
    <3> SUFFICES ASSUME NEW a \in Nat, NEW b \in Nat, a <= b
                 PROVE  u \div (60 + a) >= u \div (60 + b)
      OBVIOUS
    <3>1. 60 + a <= 60 + b
      OBVIOUS
    <3> QED
      BY <1>2, <2>1, <3>1
  <2> QED
    BY <1>3, <2>2, <2>3

-------------------------------------------------------------------------------
(* Folds *)

\* What a fold over 1 .. n takes last, and what is left then.
LEMMA Segments ==
    ASSUME NEW k \in Nat
    PROVE  /\ 1 .. 0 = {} /\ 1 .. (k + 1) # {}
           /\ Max(1 .. (k + 1)) = k + 1
           /\ 1 .. (k + 1) \ {k + 1} = 1 .. k
<1>1. Max(1 .. (k + 1)) \in 1 .. (k + 1) /\ \A x \in 1 .. (k + 1) : x <= Max(1 .. (k + 1))
  BY GreatestNumber, k + 1 \in Nat, 1 .. (k + 1) \subseteq 0 .. (k + 1), 1 .. (k + 1) # {}
<1> QED
  BY <1>1

\* it folds the numbers up to n, the greatest last, with step g[i] for the number i; RunsBy
\* says the same of its values for 1 .. k.
FoldsBy(it, n, T, base, g) ==
    /\ it[{}] = base
    /\ \A s \in SUBSET (1 .. n) :
          s # {} /\ it[s \ {Max(s)}] \in T => it[s] = g[Max(s)][it[s \ {Max(s)}]]

RunsBy(p, n, T, base, g) ==
    /\ p \in [0 .. n -> T] /\ p[0] = base
    /\ \A k \in 0 .. n - 1 : p[k + 1] = g[k + 1][p[k]]

\* There is a function that folds: MapThenFoldSet chooses one.
LEMMA FoldExists ==
    ASSUME NEW n \in Nat, NEW T, NEW base \in T, NEW g \in [1 .. n -> [T -> T]]
    PROVE  \E it \in [SUBSET (1 .. n) -> T] : FoldsBy(it, n, T, base, g)
<1> DEFINE P == {k \in 0 .. n : \E it \in [SUBSET (1 .. k) -> T] : FoldsBy(it, k, T, base, g)}
<1>1. 0 \in P
  <2> DEFINE it == [s \in SUBSET (1 .. 0) |-> base]
  <2>1. it \in [SUBSET (1 .. 0) -> T]
    OBVIOUS
  <2>2. FoldsBy(it, 0, T, base, g)
    BY 1 .. 0 = {} DEF FoldsBy
  <2>3. 0 \in 0 .. n
    OBVIOUS
  <2> HIDE DEF it
  <2> QED
    BY <2>1, <2>2, <2>3
<1>2. ASSUME NEW k \in 0 .. n - 1, k \in P PROVE k + 1 \in P
  <2>1. PICK it \in [SUBSET (1 .. k) -> T] : FoldsBy(it, k, T, base, g)
    BY <1>2
  <2> DEFINE next == [s \in SUBSET (1 .. (k + 1)) |->
                        IF k + 1 \in s THEN g[k + 1][it[s \ {k + 1}]] ELSE it[s]]
  <2>2. ASSUME NEW s \in SUBSET (1 .. (k + 1))
        PROVE  /\ next[s] \in T
               /\ s # {} => next[s] = g[Max(s)][next[s \ {Max(s)}]]
    <3>1. CASE k + 1 \in s
      <4>1. Max(s) \in s /\ \A x \in s : x <= Max(s)
        BY <3>1, GreatestNumber, k + 1 \in Nat, s \subseteq 0 .. (k + 1)
      <4>2. Max(s) = k + 1
        <5>1. k + 1 <= Max(s) /\ Max(s) \in 1 .. (k + 1)
          BY <3>1, <4>1
        <5> QED
          BY <5>1
      <4>3. s \ {k + 1} \in SUBSET (1 .. k) /\ s \ {k + 1} \in SUBSET (1 .. (k + 1))
        OBVIOUS
      <4>4. next[s \ {k + 1}] = it[s \ {k + 1}]
        BY <4>3
      <4>5. next[s] = g[k + 1][it[s \ {k + 1}]]
        BY <3>1
      <4>6. g[k + 1] \in [T -> T] /\ it[s \ {k + 1}] \in T
        BY <4>3
      <4> QED
        BY <3>1, <4>2, <4>4, <4>5, <4>6
    <3>2. CASE k + 1 \notin s
      <4>1. s \in SUBSET (1 .. k)
        BY <3>2
      <4>2. next[s] = it[s]
        BY <3>2
      <4>3. CASE s = {}
        BY <2>1, <4>1, <4>2, <4>3 DEF FoldsBy
      <4>4. CASE s # {}
        <5>1. Max(s) \in s
          BY <4>1, <4>4, GreatestNumber, k \in Nat, s \subseteq 0 .. k
        <5>2. s \ {Max(s)} \in SUBSET (1 .. k) /\ s \ {Max(s)} \in SUBSET (1 .. (k + 1))
              /\ k + 1 \notin s \ {Max(s)}
          BY <3>2, <4>1
        <5>3. next[s \ {Max(s)}] = it[s \ {Max(s)}]
          BY <5>2
        <5> QED
          BY <2>1, <4>1, <4>2, <4>4, <5>2, <5>3 DEF FoldsBy
      <4> QED
        BY <4>3, <4>4
    <3> QED
      BY <3>1, <3>2
  <2>3. next \in [SUBSET (1 .. (k + 1)) -> T]
    BY <2>2
  <2>4. FoldsBy(next, k + 1, T, base, g)
    <3>1. next[{}] = base
      BY <2>1 DEF FoldsBy
    <3> HIDE DEF next
    <3> QED
      BY <2>2, <3>1 DEF FoldsBy
  <2> HIDE DEF next
  <2>5. k + 1 \in 0 .. n
    OBVIOUS
  <2> QED
    BY <2>3, <2>4, <2>5
<1>3. n \in P
  <2> HIDE DEF P
  <2>1. 0 .. n \subseteq P
    BY <1>1, <1>2, Reaches
  <2> QED
    BY <2>1
<1> QED
  BY <1>3

\* Such a function runs through the elements one by one.
LEMMA FoldRuns ==
    ASSUME NEW n \in Nat, NEW T, NEW base \in T, NEW g \in [1 .. n -> [T -> T]], NEW it,
           FoldsBy(it, n, T, base, g)
    PROVE  \E p : RunsBy(p, n, T, base, g) /\ p[n] = it[1 .. n]
<1> DEFINE P == {k \in 0 .. n : it[1 .. k] \in T}
           p == [k \in 0 .. n |-> it[1 .. k]]
<1>1. it[1 .. 0] = base /\ 0 \in P
  <2>1. 1 .. 0 = {} /\ 0 \in 0 .. n
    OBVIOUS
  <2> QED
    BY <2>1 DEF FoldsBy
<1>2. ASSUME NEW k \in 0 .. n - 1, it[1 .. k] \in T
      PROVE  it[1 .. (k + 1)] = g[k + 1][it[1 .. k]] /\ it[1 .. (k + 1)] \in T
  <2>1. 1 .. (k + 1) # {} /\ Max(1 .. (k + 1)) = k + 1 /\ 1 .. (k + 1) \ {k + 1} = 1 .. k
    BY Segments, k \in Nat
  <2>2. 1 .. (k + 1) \in SUBSET (1 .. n) /\ k + 1 \in 1 .. n
    OBVIOUS
  <2>3. it[1 .. (k + 1)] = g[k + 1][it[1 .. k]]
    BY <1>2, <2>1, <2>2 DEF FoldsBy
  <2> QED
    BY <1>2, <2>2, <2>3
<1>3. \A k \in 0 .. n : it[1 .. k] \in T
  <2>1. \A k \in 0 .. n - 1 : k \in P => k + 1 \in P
    BY <1>2
  <2>2. 0 .. n \subseteq P
    <3> HIDE DEF P
    <3> QED
      BY <1>1, <2>1, Reaches
  <2> QED
    BY <2>2
<1>4. p \in [0 .. n -> T]
  BY <1>3
<1>5. p[0] = base /\ p[n] = it[1 .. n]
  BY <1>1
<1>6. \A k \in 0 .. n - 1 : p[k + 1] = g[k + 1][p[k]]
  <2> SUFFICES ASSUME NEW k \in 0 .. n - 1 PROVE p[k + 1] = g[k + 1][p[k]]
    OBVIOUS
  <2>1. k \in 0 .. n /\ k + 1 \in 0 .. n
    OBVIOUS
  <2> QED
    BY <1>2, <1>3, <2>1
<1> HIDE DEF p
<1> QED
  BY <1>4, <1>5, <1>6 DEF RunsBy

-------------------------------------------------------------------------------
(* Ordered lists *)

StrictOrder(R, S) ==
    /\ \A x \in S : <<x, x>> \notin R
    /\ \A x, y, z \in S : <<x, y>> \in R /\ <<y, z>> \in R => <<x, z>> \in R
    /\ \A x, y \in S : x # y => <<x, y>> \in R \/ <<y, x>> \in R

Preceding(R, S, x) == {y \in S : <<y, x>> \in R}

\* What comes later has more before it.
LEMMA PrecedingGrows ==
    ASSUME NEW S, IsFiniteSet(S), NEW R, StrictOrder(R, S), NEW x \in S, NEW y \in S,
           <<x, y>> \in R
    PROVE  Cardinality(Preceding(R, S, x)) < Cardinality(Preceding(R, S, y))
<1> DEFINE P == Preceding(R, S, x)
           Q == Preceding(R, S, y)
<1>1. P \subseteq S /\ Q \subseteq S /\ x \notin P /\ P \cup {x} \subseteq Q
  BY DEF Preceding, StrictOrder
<1>2. IsFiniteSet(P) /\ IsFiniteSet(Q)
  BY <1>1, FS_Subset
<1>3. Cardinality(P \cup {x}) = Cardinality(P) + 1
  BY <1>1, <1>2, FS_AddElement
<1>4. Cardinality(P \cup {x}) <= Cardinality(Q)
  BY <1>1, <1>2, FS_Subset
<1>5. Cardinality(P) \in Nat /\ Cardinality(Q) \in Nat
  BY <1>2, FS_CardinalityType
<1> QED
  BY <1>3, <1>4, <1>5

\* Everything has its place, which is less than the number of all.
LEMMA PrecedingType ==
    ASSUME NEW S, IsFiniteSet(S), NEW R, StrictOrder(R, S), NEW x \in S
    PROVE  Cardinality(Preceding(R, S, x)) \in 0 .. Cardinality(S) - 1
<1> DEFINE P == Preceding(R, S, x)
<1>1. P \subseteq S \ {x}
  BY DEF Preceding, StrictOrder
<1>2. IsFiniteSet(S \ {x}) /\ Cardinality(S \ {x}) = Cardinality(S) - 1
  BY FS_RemoveElement
<1>3. IsFiniteSet(P) /\ Cardinality(P) <= Cardinality(S \ {x})
  BY <1>1, <1>2, FS_Subset
<1>4. Cardinality(P) \in Nat /\ Cardinality(S) \in Nat
  BY <1>3, FS_CardinalityType
<1> QED
  BY <1>2, <1>3, <1>4

\* And every place is filled.
LEMMA PlacesFilled ==
    ASSUME NEW S, IsFiniteSet(S), NEW R, StrictOrder(R, S), NEW k \in 1 .. Cardinality(S)
    PROVE  \E x \in S : Cardinality(Preceding(R, S, x)) = k - 1
<1> DEFINE f == [x \in S |-> Cardinality(Preceding(R, S, x)) + 1]
           T == 1 .. Cardinality(S)
<1>1. Cardinality(S) \in Nat
  BY FS_CardinalityType
<1>2. IsFiniteSet(T) /\ Cardinality(T) = Cardinality(S)
  BY <1>1, FS_Interval
<1>3. \A x \in S : Cardinality(Preceding(R, S, x)) \in 0 .. Cardinality(S) - 1
  BY PrecedingType
<1>4. f \in [S -> T]
  BY <1>1, <1>3
<1>5. ASSUME NEW x \in S, NEW y \in S, x # y PROVE f[x] # f[y]
  <2>1. CASE <<x, y>> \in R
    BY <1>3, <2>1, PrecedingGrows
  <2>2. CASE <<y, x>> \in R
    BY <1>3, <2>2, PrecedingGrows
  <2> QED
    BY <1>5, <2>1, <2>2 DEF StrictOrder
<1>6. f \in Injection(S, T)
  <2> HIDE DEF f, T
  <2> QED
    BY <1>4, <1>5 DEF Injection, IsInjective
<1>7. f \in Surjection(S, T)
  <2> HIDE DEF f, T
  <2> QED
    BY <1>2, <1>6, FS_Injection
<1>8. PICK x \in S : f[x] = k
  <2>1. k \in T
    OBVIOUS
  <2> HIDE DEF f, T
  <2> QED
    BY <1>7, <2>1 DEF Surjection
<1> QED
  BY <1>3, <1>8

\* A list with everything at its place is ordered.
LEMMA OrderedList ==
    ASSUME NEW S, IsFiniteSet(S), NEW R, StrictOrder(R, S), NEW o,
           o = [k \in 1 .. Cardinality(S) |-> o[k]],
           \A k \in 1 .. Cardinality(S) :
              o[k] \in S /\ Cardinality(Preceding(R, S, o[k])) = k - 1
    PROVE  /\ o \in Seq(S) /\ Len(o) = Cardinality(S)
           /\ \A x \in S : \E k \in 1 .. Cardinality(S) : o[k] = x
           /\ \A i, j \in 1 .. Cardinality(S) : i < j <=> <<o[i], o[j]>> \in R
<1>1. Cardinality(S) \in Nat
  BY FS_CardinalityType
<1>2. o \in Seq(S) /\ Len(o) = Cardinality(S)
  BY <1>1
<1>3. ASSUME NEW x \in S PROVE \E k \in 1 .. Cardinality(S) : o[k] = x
  <2> DEFINE k == Cardinality(Preceding(R, S, x)) + 1
  <2>1. k \in 1 .. Cardinality(S) /\ Cardinality(Preceding(R, S, x)) = k - 1
    BY <1>1, PrecedingType
  <2>2. Cardinality(Preceding(R, S, o[k])) = Cardinality(Preceding(R, S, x))
    BY <2>1
  <2>3. Cardinality(Preceding(R, S, x)) \in Nat
    BY PrecedingType
  <2>4. ~ (<<x, o[k]>> \in R) /\ ~ (<<o[k], x>> \in R)
    BY <2>1, <2>2, <2>3, PrecedingGrows
  <2> QED
    BY <2>1, <2>4 DEF StrictOrder
<1>4. ASSUME NEW i \in 1 .. Cardinality(S), NEW j \in 1 .. Cardinality(S)
      PROVE  i < j <=> <<o[i], o[j]>> \in R
  <2>1. <<o[i], o[j]>> \in R => i - 1 < j - 1
    BY PrecedingGrows
  <2>2. <<o[j], o[i]>> \in R => j - 1 < i - 1
    BY PrecedingGrows
  <2>3. i # j => o[i] # o[j]
    BY <1>1
  <2> QED
    BY <1>1, <2>1, <2>2, <2>3 DEF StrictOrder
<1> QED
  BY <1>2, <1>3, <1>4

\* o lists the elements of S, each after those that R puts before it.
ListedBy(o, S, R) ==
    /\ o \in Seq(S) /\ Len(o) = Cardinality(S)
    /\ \A x \in S : \E k \in 1 .. Len(o) : o[k] = x
    /\ \A i, j \in 1 .. Len(o) : i < j <=> <<o[i], o[j]>> \in R

\* Whatever tells the elements of S apart lists them all.
LEMMA ListedInOrder ==
    ASSUME NEW S, IsFiniteSet(S), NEW R, StrictOrder(R, S), NEW o,
           o = [k \in 1 .. Cardinality(S) |-> o[k]],
           \A k \in 1 .. Cardinality(S) :
              (\E x \in S : Cardinality(Preceding(R, S, x)) = k - 1) =>
                 o[k] \in S /\ Cardinality(Preceding(R, S, o[k])) = k - 1
    PROVE  ListedBy(o, S, R)
<1>1. \A k \in 1 .. Cardinality(S) :
         o[k] \in S /\ Cardinality(Preceding(R, S, o[k])) = k - 1
  BY PlacesFilled
<1>2. /\ o \in Seq(S) /\ Len(o) = Cardinality(S)
      /\ \A x \in S : \E k \in 1 .. Cardinality(S) : o[k] = x
      /\ \A i, j \in 1 .. Cardinality(S) : i < j <=> <<o[i], o[j]>> \in R
  BY <1>1, OrderedList
<1> QED
  BY <1>2 DEF ListedBy

\* Nothing is listed twice.
LEMMA ListedOnce ==
    ASSUME NEW S, IsFiniteSet(S), NEW R, StrictOrder(R, S), NEW o, ListedBy(o, S, R)
    PROVE  \A i, j \in 1 .. Len(o) : o[i] = o[j] => i = j
<1> SUFFICES ASSUME NEW i \in 1 .. Len(o), NEW j \in 1 .. Len(o), o[i] = o[j] PROVE i = j
  OBVIOUS
<1>1. o[i] \in S /\ <<o[i], o[i]>> \notin R
  BY DEF ListedBy, StrictOrder
<1>2. ~ (i < j) /\ ~ (j < i)
  BY <1>1 DEF ListedBy
<1> QED
  BY <1>2

-------------------------------------------------------------------------------
(* The first of many *)

\* The members of A up to k, and those before which there are fewer than cap.
Upto(A, k) == {j \in A : j <= k}
FirstOf(A, cap) == {j \in A : Cardinality({k \in A : k < j}) < cap}

\* One more number adds one or none.
LEMMA UptoNext ==
    ASSUME NEW n \in Nat, NEW A \in SUBSET (1 .. n), NEW k \in 0 .. n - 1
    PROVE  /\ Upto(A, 0) = {} /\ IsFiniteSet(Upto(A, k)) /\ Cardinality(Upto(A, k)) \in Nat
           /\ k + 1 \in A => /\ Upto(A, k + 1) = Upto(A, k) \cup {k + 1}
                             /\ Cardinality(Upto(A, k + 1)) = Cardinality(Upto(A, k)) + 1
           /\ k + 1 \notin A => Upto(A, k + 1) = Upto(A, k)
           /\ {j \in A : j < k + 1} = Upto(A, k)
<1>0. \A j \in A : j \in Nat /\ j >= 1
  OBVIOUS
<1>1. Upto(A, 0) = {}
  <2>1. \A j \in A : ~ (j <= 0)
    BY <1>0
  <2> QED
    BY <2>1 DEF Upto
<1>2. Upto(A, k) \subseteq 1 .. n
  BY DEF Upto
<1>3. IsFiniteSet(1 .. n)
  BY FS_Interval
<1>4. IsFiniteSet(Upto(A, k)) /\ Cardinality(Upto(A, k)) \in Nat
  BY <1>2, <1>3, FS_Subset, FS_CardinalityType
<1>5. ASSUME k + 1 \in A
      PROVE  /\ Upto(A, k + 1) = Upto(A, k) \cup {k + 1}
             /\ Cardinality(Upto(A, k + 1)) = Cardinality(Upto(A, k)) + 1
  <2>1. Upto(A, k + 1) = Upto(A, k) \cup {k + 1} /\ k + 1 \notin Upto(A, k)
    <3>1. \A j \in A : j <= k + 1 <=> j <= k \/ j = k + 1
      BY <1>0
    <3>2. ~ (k + 1 <= k)
      OBVIOUS
    <3>3. \A j : j \in Upto(A, k + 1) <=> j \in Upto(A, k) \cup {k + 1}
      BY <1>5, <3>1 DEF Upto
    <3>4. k + 1 \notin Upto(A, k)
      BY <3>2 DEF Upto
    <3> QED
      BY <3>3, <3>4
  <2> QED
    BY <1>4, <2>1, FS_AddElement
<1>6. ASSUME k + 1 \notin A PROVE Upto(A, k + 1) = Upto(A, k)
  <2>1. \A j \in A : j <= k + 1 <=> j <= k
    BY <1>0, <1>6
  <2> QED
    BY <2>1 DEF Upto
<1>7. {j \in A : j < k + 1} = Upto(A, k)
  <2>1. \A j \in A : j < k + 1 <=> j <= k
    BY <1>0
  <2> QED
    BY <2>1 DEF Upto
<1> QED
  BY <1>1, <1>4, <1>5, <1>6, <1>7

\* Of the first cap members there are, up to anywhere, as many as of all, but no more than cap.
LEMMA FirstOnes ==
    ASSUME NEW n \in Nat, NEW A \in SUBSET (1 .. n), NEW cap \in Nat, NEW m \in 0 .. n
    PROVE  LET F == FirstOf(A, cap)
               all == Cardinality(Upto(A, m))
               first == Cardinality(Upto(F, m))
           IN  /\ all \in Nat /\ first \in Nat
               /\ all < cap => Upto(F, m) = Upto(A, m)
               /\ first < cap <=> all < cap
<1> DEFINE F == FirstOf(A, cap)
           a(k) == Cardinality(Upto(A, k))
           f(k) == Cardinality(Upto(F, k))
           P == {k \in 0 .. n : /\ a(k) \in Nat /\ f(k) \in Nat
                                /\ a(k) <= cap => Upto(F, k) = Upto(A, k)
                                /\ a(k) > cap => f(k) = cap}
<1>1. F \in SUBSET (1 .. n)
  BY DEF FirstOf
<1>2. \A k \in 0 .. n - 1 : k + 1 \in F <=> k + 1 \in A /\ a(k) < cap
  <2> SUFFICES ASSUME NEW k \in 0 .. n - 1 PROVE k + 1 \in F <=> k + 1 \in A /\ a(k) < cap
    OBVIOUS
  <2>1. {j \in A : j < k + 1} = Upto(A, k)
    BY UptoNext
  <2> QED
    BY <2>1 DEF FirstOf
<1> HIDE DEF F
<1>3. 0 \in P
  <2>1. Upto(A, 0) = {} /\ Upto(F, 0) = {}
    <3>1. \A j \in A : ~ (j <= 0)
      OBVIOUS
    <3>2. \A j \in F : ~ (j <= 0)
      BY <1>1
    <3> QED
      BY <3>1, <3>2 DEF Upto
  <2>2. a(0) = 0 /\ f(0) = 0
    BY <2>1, FS_EmptySet
  <2> QED
    BY <2>1, <2>2
<1>4. ASSUME NEW k \in 0 .. n - 1, k \in P PROVE k + 1 \in P
  <2>1. /\ a(k) \in Nat /\ f(k) \in Nat
        /\ a(k) <= cap => Upto(F, k) = Upto(A, k)
        /\ a(k) > cap => f(k) = cap
    BY <1>4
  <2>2. /\ k + 1 \in A => Upto(A, k + 1) = Upto(A, k) \cup {k + 1} /\ a(k + 1) = a(k) + 1
        /\ k + 1 \notin A => Upto(A, k + 1) = Upto(A, k) /\ a(k + 1) = a(k)
    BY UptoNext
  <2>3. /\ k + 1 \in F => Upto(F, k + 1) = Upto(F, k) \cup {k + 1} /\ f(k + 1) = f(k) + 1
        /\ k + 1 \notin F => Upto(F, k + 1) = Upto(F, k) /\ f(k + 1) = f(k)
    BY <1>1, UptoNext, SMTT(30)
  <2>4. a(k) <= cap => f(k) = a(k)
    BY <2>1
  <2> DEFINE ak == a(k)
             fk == f(k)
             an == a(k + 1)
             fn == f(k + 1)
  <2>5. k + 1 \in F <=> k + 1 \in A /\ ak < cap
    BY <1>2
  <2>6. /\ ak \in Nat /\ fk \in Nat /\ (ak <= cap => fk = ak) /\ (ak > cap => fk = cap)
        /\ an = IF k + 1 \in A THEN ak + 1 ELSE ak
        /\ fn = IF k + 1 \in F THEN fk + 1 ELSE fk
    BY <2>1, <2>2, <2>3, <2>4
  <2> HIDE DEF a, f, ak, fk, an, fn
  <2>7. an \in Nat /\ fn \in Nat /\ (an > cap => fn = cap)
    BY <2>5, <2>6
  <2>8. ASSUME an <= cap PROVE Upto(F, k + 1) = Upto(A, k + 1)
    <3>1. ak <= cap /\ (k + 1 \in A => ak < cap)
      BY <2>6, <2>8
    <3>2. Upto(F, k) = Upto(A, k)
      BY <2>1, <3>1 DEF ak
    <3> QED
      BY <2>2, <2>3, <2>5, <3>1, <3>2
  <2>9. k + 1 \in 0 .. n
    OBVIOUS
  <2> QED
    BY <2>7, <2>8, <2>9 DEF an, fn
<1>5. 0 .. n \subseteq P
  <2> HIDE DEF P
  <2> QED
    BY <1>3, <1>4, Reaches
<1>6. /\ a(m) \in Nat /\ f(m) \in Nat
      /\ a(m) <= cap => Upto(F, m) = Upto(A, m)
      /\ a(m) > cap => f(m) = cap
  BY <1>5
<1>7. a(m) < cap => f(m) = a(m)
  BY <1>6
<1>8. f(m) < cap <=> a(m) < cap
  <2>1. a(m) <= cap => f(m) = a(m)
    BY <1>6
  <2> HIDE DEF a, f
  <2> QED
    BY <1>6, <2>1
<1> QED
  BY <1>6, <1>8 DEF F

-------------------------------------------------------------------------------
(* Lists *)

\* What is where when two lists are joined.
LEMMA Joined ==
    ASSUME NEW S, NEW s \in Seq(S), NEW t \in Seq(S)
    PROVE  /\ s \o t \in Seq(S) /\ Len(s \o t) = Len(s) + Len(t)
           /\ \A i \in 1 .. Len(s) : (s \o t)[i] = s[i]
           /\ \A i \in 1 .. Len(t) : (s \o t)[Len(s) + i] = t[i]
  OBVIOUS

\* A piece of a list.
LEMMA Piece ==
    ASSUME NEW S, NEW s \in Seq(S), NEW m \in 1 .. Len(s) + 1, NEW n \in m - 1 .. Len(s)
    PROVE  /\ SubSeq(s, m, n) \in Seq(S) /\ Len(SubSeq(s, m, n)) = n - m + 1
           /\ \A i \in 1 .. n - m + 1 : SubSeq(s, m, n)[i] = s[m - 1 + i]
  OBVIOUS

\* A second element after the first.
LEMMA PairAppended ==
    ASSUME NEW S, NEW a \in S, NEW b \in S
    PROVE  Append(<<a>>, b) = <<a, b>>
<1> DEFINE grown == Append(<<a>>, b)
           pair == <<a, b>>
<1>1. <<a>> \in Seq(S) /\ <<a, b>> \in Seq(S)
  OBVIOUS
<1>2. grown \in Seq(S) /\ Len(grown) = 2 /\ grown[1] = a /\ grown[2] = b
  BY <1>1
<1>3. pair \in Seq(S) /\ Len(pair) = 2 /\ pair[1] = a /\ pair[2] = b
  BY <1>1
<1>4. grown = [i \in 1 .. 2 |-> grown[i]] /\ pair = [i \in 1 .. 2 |-> pair[i]]
  <2> HIDE DEF grown, pair
  <2> QED
    BY <1>2, <1>3
<1> HIDE DEF grown, pair
<1>5. \A i \in 1 .. 2 : grown[i] = pair[i]
  BY <1>2, <1>3
<1>6. grown = pair
  BY <1>4, <1>5
<1> QED
  BY <1>6 DEF grown, pair

\* Two lists with the same elements.
LEMMA SameList ==
    ASSUME NEW C, NEW s \in Seq(C), NEW D, NEW t \in Seq(D), Len(s) = Len(t),
           \A k \in 1 .. Len(t) : s[k] = t[k]
    PROVE  s = t
<1>1. s = [k \in 1 .. Len(t) |-> s[k]]
  OBVIOUS
<1>2. t = [k \in 1 .. Len(t) |-> t[k]]
  OBVIOUS
<1> QED
  BY <1>1, <1>2, Zenon

\* Two lists in a row, cut in the second.
LEMMA JoinedCut ==
    ASSUME NEW C, NEW a \in Seq(C), NEW b \in Seq(C), NEW n \in 1 .. Len(b) + 1
    PROVE  /\ SubSeq(a \o b, 1, Len(a) + n - 1) = a \o SubSeq(b, 1, n - 1)
           /\ SubSeq(a \o b, Len(a) + n, Len(a) + Len(b)) = SubSeq(b, n, Len(b))
<1> DEFINE u == a \o b
           A == Len(a)
           B == Len(b)
           first == SubSeq(b, 1, n - 1)
           last == SubSeq(b, n, B)
           x == SubSeq(u, 1, A + n - 1)
           y == SubSeq(u, A + n, A + B)
           z == a \o first
<1>1. /\ u \in Seq(C) /\ Len(u) = A + B /\ A \in Nat /\ B \in Nat
      /\ \A k \in 1 .. A : u[k] = a[k]
      /\ \A k \in 1 .. B : u[A + k] = b[k]
  BY Joined
<1> HIDE DEF u
<1>2. first \in Seq(C) /\ Len(first) = n - 1 /\ \A k \in 1 .. n - 1 : first[k] = b[k]
  BY <1>1
<1>3. last \in Seq(C) /\ Len(last) = B - n + 1 /\ \A k \in 1 .. B - n + 1 : last[k] = b[n + k - 1]
  BY <1>1
<1>4. x \in Seq(C) /\ Len(x) = A + n - 1 /\ \A k \in 1 .. A + n - 1 : x[k] = u[k]
  BY <1>1
<1>5. y \in Seq(C) /\ Len(y) = B - n + 1 /\ \A k \in 1 .. B - n + 1 : y[k] = u[A + n + k - 1]
  BY <1>1
<1> HIDE DEF A, B, first, last
<1>6. /\ z \in Seq(C) /\ Len(z) = A + (n - 1)
      /\ \A k \in 1 .. A : z[k] = a[k]
      /\ \A k \in 1 .. n - 1 : z[A + k] = first[k]
  <2>1. a \in Seq(C) /\ first \in Seq(C)
    BY <1>2
  <2>2. /\ z \in Seq(C) /\ Len(z) = Len(a) + Len(first)
        /\ \A k \in 1 .. Len(a) : z[k] = a[k]
        /\ \A k \in 1 .. Len(first) : z[Len(a) + k] = first[k]
    BY <2>1, Joined
  <2>3. Len(first) = n - 1
    BY <1>2
  <2> HIDE DEF z
  <2> QED
    BY <2>2, <2>3 DEF A
<1> HIDE DEF x, y, z
<1>7. n \in Nat /\ n <= B + 1 /\ n >= 1
  BY <1>1 DEF B
<1>8. ASSUME NEW k \in 1 .. A + n - 1 PROVE x[k] = z[k]
  <2>1. CASE k <= A
    BY <1>1, <1>4, <1>6, <2>1
  <2>2. CASE k > A
    <3>1. k - A \in 1 .. n - 1 /\ k - A \in 1 .. B /\ A + (k - A) = k
      BY <1>1, <1>7, <2>2
    <3>2. x[k] = b[k - A]
      BY <1>1, <1>4, <3>1
    <3>3. z[k] = b[k - A]
      BY <1>2, <1>6, <3>1
    <3> QED
      BY <3>2, <3>3
  <2> QED
    BY <1>1, <2>1, <2>2
<1>9. x = z
  <2>1. Len(x) = Len(z)
    BY <1>1, <1>4, <1>6, <1>7
  <2> QED
    BY <1>1, <1>4, <1>6, <1>7, <1>8, <2>1
<1>10. ASSUME NEW k \in 1 .. B - n + 1 PROVE y[k] = last[k]
  <2>1. n + k - 1 \in 1 .. B /\ A + (n + k - 1) = A + n + k - 1
    BY <1>1, <1>7
  <2> QED
    BY <1>1, <1>3, <1>5, <2>1
<1>11. y = last
  BY <1>3, <1>5, <1>10
<1> QED
  BY <1>9, <1>11 DEF x, y, z, u, A, B, first, last

-------------------------------------------------------------------------------
(* Numbers in their order *)

\* e lists the numbers of S in their order.
Enumerates(e, n, S) ==
    /\ n \in Nat /\ e \in [1 .. n -> S]
    /\ \A x \in S : \E k \in 1 .. n : e[k] = x
    /\ \A i, j \in 1 .. n : i < j => e[i] < e[j]

\* There is only one such list.
LEMMA OneEnumeration ==
    ASSUME NEW S \in SUBSET Nat, NEW d, NEW m, NEW e, NEW n,
           Enumerates(d, m, S), Enumerates(e, n, S)
    PROVE  m = n /\ \A k \in 1 .. n : d[k] = e[k]
<1>1. /\ m \in Nat /\ n \in Nat
      /\ \A k \in 1 .. m : d[k] \in S /\ d[k] \in Nat
      /\ \A k \in 1 .. n : e[k] \in S /\ e[k] \in Nat
  BY DEF Enumerates
<1>2. /\ \A x \in S : \E k \in 1 .. m : d[k] = x
      /\ \A x \in S : \E k \in 1 .. n : e[k] = x
  BY DEF Enumerates
<1>3. /\ \A i, j \in 1 .. m : i < j => d[i] < d[j]
      /\ \A i, j \in 1 .. n : i < j => e[i] < e[j]
  BY DEF Enumerates
<1> DEFINE Bad == {k \in 1 .. m : k > n \/ d[k] # e[k]}
<1>4. ASSUME Bad # {} PROVE FALSE
  <2>1. PICK b \in Bad : \A k \in Bad : b <= k
    <3>1. Bad \subseteq Nat
      BY <1>1
    <3> HIDE DEF Bad
    <3> QED
      BY <1>4, <3>1, LeastNumber
  <2>2. b \in 1 .. m /\ (b > n \/ d[b] # e[b])
    OBVIOUS
  <2>3. \A k \in 1 .. b - 1 : k <= n /\ d[k] = e[k]
    BY <1>1, <2>1
  <2>4. PICK j \in 1 .. n : e[j] = d[b]
    BY <1>1, <1>2, <2>2
  <2> HIDE DEF Bad
  <2>5. ASSUME j < b PROVE FALSE
    <3>1. d[j] = d[b] /\ j \in 1 .. m
      BY <1>1, <2>2, <2>3, <2>4, <2>5
    <3>2. d[j] < d[b]
      BY <1>3, <2>2, <2>5, <3>1
    <3> QED
      BY <1>1, <2>2, <3>1, <3>2
  <2>6. b < j /\ b \in 1 .. n
    BY <1>1, <2>2, <2>4, <2>5
  <2>7. e[b] < d[b]
    BY <1>3, <2>4, <2>6
  <2>8. PICK i \in 1 .. m : d[i] = e[b]
    BY <1>1, <1>2, <2>6
  <2>9. ASSUME b <= i PROVE FALSE
    <3>1. d[b] <= d[i]
      BY <1>1, <1>3, <2>2, <2>8, <2>9
    <3> QED
      BY <1>1, <2>2, <2>6, <2>7, <2>8, <3>1
  <2>10. i < b /\ i \in 1 .. n /\ e[i] = e[b]
    BY <1>1, <2>2, <2>3, <2>6, <2>8, <2>9
  <2>11. e[i] < e[b]
    BY <1>3, <2>6, <2>10
  <2> QED
    BY <1>1, <2>6, <2>10, <2>11
<1>5. \A k \in 1 .. m : k <= n /\ d[k] = e[k]
  BY <1>1, <1>4
<1> HIDE DEF Bad
<1>6. m <= n
  BY <1>1, <1>5
<1>7. ASSUME m < n PROVE FALSE
  <2>1. m + 1 \in 1 .. n
    BY <1>1, <1>7
  <2>2. PICK i \in 1 .. m : d[i] = e[m + 1]
    BY <1>1, <1>2, <2>1
  <2>3. e[i] = e[m + 1] /\ i \in 1 .. n /\ i < m + 1
    BY <1>1, <1>5, <2>2
  <2>4. e[i] < e[m + 1]
    BY <1>3, <2>1, <2>3
  <2> QED
    BY <1>1, <2>1, <2>3, <2>4
<1> QED
  BY <1>1, <1>5, <1>6, <1>7

\* Where e has a number and the next one is also listed, e goes on with it.
LEMMA NextListed ==
    ASSUME NEW S \in SUBSET Nat, NEW n, NEW e, Enumerates(e, n, S), NEW g \in 1 .. n,
           e[g] + 1 \in S
    PROVE  g + 1 <= n /\ e[g + 1] = e[g] + 1
<1>1. n \in Nat /\ \A k \in 1 .. n : e[k] \in Nat
  BY DEF Enumerates
<1>2. \A i, j \in 1 .. n : i < j => e[i] < e[j]
  BY DEF Enumerates
<1>3. PICK r \in 1 .. n : e[r] = e[g] + 1
  BY DEF Enumerates
<1>4. g < r
  <2>1. ASSUME r < g PROVE FALSE
    BY <1>1, <1>2, <1>3, <2>1
  <2>2. ASSUME r = g PROVE FALSE
    BY <1>1, <1>3, <2>2
  <2> QED
    BY <1>1, <2>1, <2>2
<1>5. ASSUME g + 1 < r PROVE FALSE
  <2>1. g + 1 \in 1 .. n
    BY <1>1, <1>5
  <2>2. e[g] < e[g + 1] /\ e[g + 1] < e[r]
    BY <1>1, <1>2, <1>5, <2>1
  <2> QED
    BY <1>1, <1>3, <2>1, <2>2
<1> QED
  BY <1>1, <1>3, <1>4, <1>5

\* From e[p] on, m times the next number is listed if those before it follow one another.
GoesOn(S, n, e, p, m) ==
    \A k \in 0 .. m - 1 : p + k <= n /\ e[p + k] = e[p] + k => e[p] + k + 1 \in S

\* The numbers from e[p] on follow one another m times.
RunsOn(n, e, p, m) == \A k \in 0 .. m : p + k \in 1 .. n /\ e[p + k] = e[p] + k

LEMMA RunListed ==
    ASSUME NEW S \in SUBSET Nat, NEW n, NEW e, Enumerates(e, n, S), NEW p \in 1 .. n,
           NEW m \in Nat, GoesOn(S, n, e, p, m)
    PROVE  RunsOn(n, e, p, m)
<1>1. n \in Nat /\ \A k \in 1 .. n : e[k] \in Nat
  BY DEF Enumerates
<1> DEFINE P == {k \in 0 .. m : p + k <= n /\ e[p + k] = e[p] + k}
<1>2. 0 \in P
  <2>1. p + 0 = p
    BY <1>1
  <2>2. e[p + 0] = e[p] /\ e[p] + 0 = e[p] /\ p + 0 <= n
    BY <1>1, <2>1
  <2> QED
    BY <2>2
<1>3. ASSUME NEW k \in 0 .. m - 1, k \in P PROVE k + 1 \in P
  <2>1. p + k <= n /\ e[p + k] = e[p] + k /\ p + k \in 1 .. n
    BY <1>1, <1>3
  <2>2. e[p] + k + 1 \in S /\ e[p + k] + 1 = e[p] + k + 1
    BY <2>1 DEF GoesOn
  <2>3. (p + k) + 1 <= n /\ e[(p + k) + 1] = e[p + k] + 1
    BY <2>1, <2>2, NextListed
  <2>4. p + (k + 1) = (p + k) + 1 /\ e[p] + (k + 1) = e[p] + k + 1
    BY <1>1
  <2>5. p + (k + 1) <= n /\ e[p + (k + 1)] = e[p] + (k + 1)
    BY <2>1, <2>2, <2>3, <2>4
  <2>6. k + 1 \in 0 .. m
    OBVIOUS
  <2> QED
    BY <2>5, <2>6
<1>4. 0 .. m \subseteq P
  <2> HIDE DEF P
  <2> QED
    BY <1>2, <1>3, Reaches
<1>5. \A k \in 0 .. m : p + k \in 1 .. n /\ e[p + k] = e[p] + k
  BY <1>1, <1>4
<1> QED
  BY <1>5 DEF RunsOn
================================================================================
