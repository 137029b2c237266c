--------------------------- MODULE OrderedProofs ---------------------------
(***************************************************************************)
(* InOrder enumerates a finite set of integers, each once, in rising       *)
(* order; from this a set that is not empty has a least and a greatest     *)
(* element.  From the least element follow induction over the numbers, and *)
(* that a function defined by recursion over them exists.                  *)
(***************************************************************************)
EXTENDS Ordered, FiniteSetTheorems, TLAPS

\* A larger number has more numbers below it.
LEMMA BelowRises ==
  ASSUME NEW S \in SUBSET Int, IsFiniteSet(S), NEW x \in S, NEW y \in S, x < y
  PROVE  Cardinality(Below(x, S)) < Cardinality(Below(y, S))
<1>1. /\ IsFiniteSet(Below(x, S)) /\ IsFiniteSet(Below(y, S))
      /\ Below(x, S) \cup {x} \subseteq Below(y, S) /\ x \notin Below(x, S)
  <2>1. Below(x, S) \subseteq S /\ Below(y, S) \subseteq S
    BY DEF Below
  <2>2. IsFiniteSet(Below(x, S)) /\ IsFiniteSet(Below(y, S))
    BY <2>1, FS_Subset
  <2>3. x \in Int /\ y \in Int /\ \A z \in S : z \in Int
    OBVIOUS
  <2>4. \A z \in S : z < x => z < y
    BY <2>3
  <2>5. Below(x, S) \subseteq Below(y, S)
    BY <2>4, Zenon DEF Below
  <2>6. x \in Below(y, S)
    BY Zenon DEF Below
  <2>7. x \notin Below(x, S)
    BY <2>3 DEF Below
  <2> QED BY <2>2, <2>5, <2>6, <2>7
<1>2. Cardinality(Below(x, S) \cup {x}) = Cardinality(Below(x, S)) + 1 /\ IsFiniteSet(Below(x, S) \cup {x})
  BY <1>1, FS_AddElement
<1>3. Cardinality(Below(x, S) \cup {x}) <= Cardinality(Below(y, S))
  BY <1>1, FS_Subset
<1>4. Cardinality(Below(x, S)) \in Nat /\ Cardinality(Below(y, S)) \in Nat
  BY <1>1, FS_CardinalityType
<1> QED BY <1>2, <1>3, <1>4

\* Each count below the size of the set is that of one of its numbers.
LEMMA EveryPlaceTaken ==
  ASSUME NEW S \in SUBSET Int, IsFiniteSet(S), NEW i \in 1 .. Cardinality(S)
  PROVE  \E x \in S : Cardinality(Below(x, S)) = i - 1
<1> DEFINE n == Cardinality(S)
           T == 0 .. n - 1
           f == [x \in S |-> Cardinality(Below(x, S))]
<1>1. n \in Nat
  BY FS_CardinalityType
<1>2. IsFiniteSet(T) /\ Cardinality(T) = n
  <2>1. IsFiniteSet(T) /\ Cardinality(T) = IF 0 > n - 1 THEN 0 ELSE n - 1 - 0 + 1
    <3> HIDE DEF n
    <3> QED BY <1>1, FS_Interval
  <2> HIDE DEF n
  <2> QED BY <1>1, <2>1
<1>3. f \in [S -> T]
  <2> SUFFICES ASSUME NEW x \in S PROVE Cardinality(Below(x, S)) \in T
    OBVIOUS
  <2>1. Below(x, S) \subseteq S /\ Below(x, S) # S
    BY DEF Below
  <2>2. IsFiniteSet(Below(x, S)) /\ Cardinality(Below(x, S)) <= n
        /\ (Cardinality(Below(x, S)) = n => Below(x, S) = S)
    BY <2>1, FS_Subset
  <2>3. Cardinality(Below(x, S)) \in Nat
    BY <2>2, FS_CardinalityType
  <2> HIDE DEF n
  <2> QED BY <2>1, <2>2, <2>3, <1>1
<1>4. \A x, y \in S : f[x] = f[y] => x = y
  <2> SUFFICES ASSUME NEW x \in S, NEW y \in S, x # y PROVE f[x] # f[y]
    OBVIOUS
  <2>1. x < y \/ y < x
    OBVIOUS
  <2>2. \A z \in S : Cardinality(Below(z, S)) \in Nat
    BY <1>3
  <2>3. CASE x < y
    BY <2>3, <2>2, BelowRises
  <2>4. CASE y < x
    BY <2>4, <2>2, BelowRises
  <2> QED BY <2>1, <2>3, <2>4
<1>5. f \in Injection(S, T)
  BY <1>3, <1>4 DEF Injection, IsInjective
<1>6. f \in Surjection(S, T)
  BY <1>2, <1>5, FS_Injection
<1>7. i - 1 \in T
  <2> HIDE DEF n
  <2>1. i \in 1 .. n
    BY DEF n
  <2> QED BY <1>1, <2>1
<1>8. PICK x \in S : f[x] = i - 1
  BY <1>6, <1>7 DEF Surjection
<1> QED BY <1>8

\* InOrder names every number of the set once, the smallest first: what sorted() returns.
THEOREM InOrderSorts ==
  ASSUME NEW S \in SUBSET Int, IsFiniteSet(S)
  PROVE  /\ InOrder(S) \in [1 .. Cardinality(S) -> S]
         /\ \A i, j \in 1 .. Cardinality(S) : i < j => InOrder(S)[i] < InOrder(S)[j]
         /\ \A x \in S : \E i \in 1 .. Cardinality(S) : InOrder(S)[i] = x
<1>0. Cardinality(S) \in Nat
  BY FS_CardinalityType
<1>1. \A i \in 1 .. Cardinality(S) :
        InOrder(S)[i] \in S /\ Cardinality(Below(InOrder(S)[i], S)) = i - 1
  BY EveryPlaceTaken DEF InOrder
<1>2. InOrder(S) \in [1 .. Cardinality(S) -> S]
  <2>1. InOrder(S) = [i \in 1 .. Cardinality(S) |-> InOrder(S)[i]]
    BY DEF InOrder
  <2> QED BY <1>1, <2>1
<1>3. ASSUME NEW i \in 1 .. Cardinality(S), NEW j \in 1 .. Cardinality(S), i < j
      PROVE  InOrder(S)[i] < InOrder(S)[j]
  <2> DEFINE x == InOrder(S)[i]
             y == InOrder(S)[j]
  <2>1. x \in S /\ y \in S /\ Cardinality(Below(x, S)) = i - 1 /\ Cardinality(Below(y, S)) = j - 1
    BY <1>1
  <2>2. x # y
    BY <2>1, <1>3
  <2>3. ~ (y < x)
    <3>1. y < x => Cardinality(Below(y, S)) < Cardinality(Below(x, S))
      BY <2>1, BelowRises
    <3> HIDE DEF x, y
    <3> QED BY <2>1, <3>1, <1>3, <1>0
  <2>4. x \in Int /\ y \in Int
    BY <2>1
  <2> HIDE DEF x, y
  <2>5. x < y
    BY <2>2, <2>3, <2>4
  <2> QED BY <2>5 DEF x, y
<1>4. ASSUME NEW x \in S
      PROVE  \E i \in 1 .. Cardinality(S) : InOrder(S)[i] = x
  <2> DEFINE b == Cardinality(Below(x, S))
  <2>1. Below(x, S) \subseteq S /\ Below(x, S) # S
    BY DEF Below
  <2>2. b \in Nat /\ b < Cardinality(S)
    <3>1. IsFiniteSet(Below(x, S)) /\ b <= Cardinality(S) /\ (b = Cardinality(S) => Below(x, S) = S)
      BY <2>1, FS_Subset
    <3>2. b \in Nat
      BY <3>1, FS_CardinalityType
    <3> HIDE DEF b
    <3> QED BY <2>1, <3>1, <3>2, <1>0
  <2>3. b + 1 \in 1 .. Cardinality(S)
    <3> HIDE DEF b
    <3> QED BY <2>2, <1>0
  <2> DEFINE y == InOrder(S)[b + 1]
  <2>4. y \in S /\ Cardinality(Below(y, S)) = b
    <3>1. y \in S /\ Cardinality(Below(y, S)) = (b + 1) - 1
      BY <1>1, <2>3
    <3> HIDE DEF b, y
    <3> QED BY <2>2, <3>1
  <2>5. x = y
    <3>1. (x < y => b < Cardinality(Below(y, S))) /\ (y < x => Cardinality(Below(y, S)) < b)
      BY <2>4, BelowRises
    <3>2. x \in Int /\ y \in Int
      BY <2>4
    <3> HIDE DEF b, y
    <3> QED BY <3>1, <3>2, <2>2, <2>4
  <2> QED BY <2>3, <2>5
<1> QED BY <1>2, <1>3, <1>4

\* A set of numbers that is finite and not empty has a least one (min()).
THEOREM HasLeast ==
  ASSUME NEW S \in SUBSET Int, IsFiniteSet(S), S # {}
  PROVE  \E x \in S : \A y \in S : x <= y
<1>1. Cardinality(S) \in Nat /\ Cardinality(S) # 0
  BY FS_CardinalityType, FS_EmptySet
<1>2. 1 \in 1 .. Cardinality(S)
  BY <1>1
<1>3. InOrder(S)[1] \in S
  BY <1>2, InOrderSorts
<1>4. ASSUME NEW y \in S PROVE InOrder(S)[1] <= y
  <2>1. PICK i \in 1 .. Cardinality(S) : InOrder(S)[i] = y
    BY InOrderSorts
  <2>2. 1 < i => InOrder(S)[1] < y
    BY <1>2, <2>1, InOrderSorts
  <2>3. InOrder(S)[1] \in Int /\ y \in Int
    BY <1>3
  <2>4. i = 1 \/ 1 < i
    BY <1>1
  <2> QED BY <2>1, <2>2, <2>3, <2>4
<1> QED BY <1>3, <1>4

\* And a greatest one (max()).
THEOREM HasGreatest ==
  ASSUME NEW S \in SUBSET Int, IsFiniteSet(S), S # {}
  PROVE  \E x \in S : \A y \in S : x >= y
<1> DEFINE n == Cardinality(S)
<1>1. n \in Nat /\ n # 0
  BY FS_CardinalityType, FS_EmptySet
<1>2. n \in 1 .. n
  <2> HIDE DEF n
  <2> QED BY <1>1
<1>3. InOrder(S)[n] \in S
  BY <1>2, InOrderSorts
<1>4. ASSUME NEW y \in S PROVE InOrder(S)[n] >= y
  <2>1. PICK i \in 1 .. n : InOrder(S)[i] = y
    BY InOrderSorts
  <2>2. i < n => y < InOrder(S)[n]
    BY <1>2, <2>1, InOrderSorts
  <2>3. i = n \/ i < n
    <3> HIDE DEF n
    <3> QED BY <1>1
  <2>4. InOrder(S)[n] \in Int /\ y \in Int
    BY <1>3
  <2> HIDE DEF n
  <2> QED BY <2>1, <2>2, <2>3, <2>4
<1> QED BY <1>3, <1>4

-----------------------------------------------------------------------------
(* Recursion over the numbers.                                             *)

\* A set of numbers that has the first and with each the next has all.
THEOREM Induction ==
  ASSUME NEW T, 0 \in T, \A n \in Nat : n \in T => n + 1 \in T
  PROVE  \A n \in Nat : n \in T
<1> SUFFICES ASSUME NEW n \in Nat, n \notin T PROVE FALSE
  OBVIOUS
<1> DEFINE out == {m \in 0 .. n : m \notin T}
<1>1. out \in SUBSET (0 .. n) /\ n \in out
  OBVIOUS
<1>2. out \in SUBSET Int /\ IsFiniteSet(out)
  <2>1. IsFiniteSet(0 .. n)
    BY FS_Interval
  <2>2. \A m \in out : m \in Int
    OBVIOUS
  <2> HIDE DEF out
  <2> QED BY <1>1, <2>1, <2>2, FS_Subset
<1>3. PICK m \in out : \A y \in out : m <= y
  <2> HIDE DEF out
  <2> QED BY <1>1, <1>2, HasLeast
<1>4. m \in 0 .. n /\ m \notin T /\ m # 0
  BY <1>3
<1>5. m - 1 \in 0 .. n /\ m - 1 \in Nat
  BY <1>4
<1>6. m - 1 \in T
  <2> SUFFICES ASSUME m - 1 \notin T PROVE FALSE
    OBVIOUS
  <2>1. m <= m - 1
    BY <1>3, <1>5
  <2> QED BY <1>4, <2>1
<1>7. (m - 1) + 1 = m
  BY <1>4
<1> QED BY <1>4, <1>5, <1>6, <1>7

\* The functions that have a first value, and each further one from the value before it.
Recursive(S, first, step) ==
  {g \in [Nat -> S] : g[0] = first /\ \A n \in Nat \ {0} : g[n] = step[n][g[n - 1]]}

\* There is such a function.
LEMMA Recursion ==
  ASSUME NEW S, NEW first \in S, NEW step \in [Nat -> [S -> S]]
  PROVE  \E g : g \in Recursive(S, first, step)
<1> DEFINE Begun(n) == {h \in [0 .. n -> S] : h[0] = first /\ \A i \in 1 .. n : h[i] = step[i][h[i - 1]]}
           T == {n \in Nat : Begun(n) # {}}
<1>1. \A n \in Nat : n \in T
  <2>1. 0 \in T
    <3> DEFINE h == [i \in 0 .. 0 |-> first]
    <3>1. h \in [0 .. 0 -> S] /\ h[0] = first
      OBVIOUS
    <3>2. \A i \in 1 .. 0 : h[i] = step[i][h[i - 1]]
      OBVIOUS
    <3> HIDE DEF h
    <3>3. h \in Begun(0)
      BY <3>1, <3>2
    <3> QED BY <3>3
  <2>2. ASSUME NEW n \in Nat, n \in T PROVE n + 1 \in T
    <3>1. PICK h : h \in Begun(n)
      BY <2>2
    <3>2. h \in [0 .. n -> S] /\ h[0] = first /\ \A i \in 1 .. n : h[i] = step[i][h[i - 1]]
      BY <3>1
    <3> DEFINE k == [i \in 0 .. n + 1 |-> IF i = n + 1 THEN step[n + 1][h[n]] ELSE h[i]]
    <3>3. h[n] \in S /\ step[n + 1][h[n]] \in S
      <4>1. n \in 0 .. n
        OBVIOUS
      <4>2. h[n] \in S
        BY <3>2, <4>1
      <4>3. n + 1 \in Nat
        OBVIOUS
      <4> QED BY <4>2, <4>3
    <3>4. \A i \in 0 .. n : i # n + 1 /\ i \in 0 .. n + 1 /\ k[i] = h[i]
      OBVIOUS
    <3>5. k[n + 1] = step[n + 1][h[n]]
      OBVIOUS
    <3>6. k \in [0 .. n + 1 -> S]
      <4>1. \A i \in 0 .. n + 1 : i = n + 1 \/ i \in 0 .. n
        OBVIOUS
      <4> QED BY <3>2, <3>3, <4>1
    <3> HIDE DEF k
    <3>7. k[0] = first
      BY <3>2, <3>4
    <3>8. ASSUME NEW i \in 1 .. n + 1 PROVE k[i] = step[i][k[i - 1]]
      <4>1. i - 1 \in 0 .. n /\ k[i - 1] = h[i - 1]
        BY <3>4
      <4>2. CASE i = n + 1
        <5>1. i - 1 = n
          BY <4>2
        <5> QED BY <3>5, <4>1, <4>2, <5>1
      <4>3. CASE i # n + 1
        <5>1. i \in 1 .. n /\ i \in 0 .. n
          BY <4>3
        <5> QED BY <3>2, <3>4, <4>1, <5>1
      <4> QED BY <4>2, <4>3
    <3>9. k \in Begun(n + 1)
      BY <3>6, <3>7, <3>8
    <3> QED BY <3>9
  <2> HIDE DEF T
  <2> QED BY <2>1, <2>2, Induction
<1> DEFINE pick == [n \in Nat |-> CHOOSE h : h \in Begun(n)]
           g == [n \in Nat |-> pick[n][n]]
<1>2. ASSUME NEW n \in Nat PROVE pick[n] \in Begun(n)
  BY <1>1
<1>3. ASSUME NEW n \in Nat
      PROVE  /\ pick[n] \in [0 .. n -> S] /\ pick[n][0] = first
             /\ \A i \in 1 .. n : pick[n][i] = step[i][pick[n][i - 1]]
  BY <1>2
<1> HIDE DEF pick, Begun, T
\* Two beginnings are the same as far as they go.
<1>4. ASSUME NEW n \in Nat, NEW m \in Nat, n <= m PROVE \A i \in 0 .. n : pick[m][i] = pick[n][i]
  <2> DEFINE U == {i \in Nat : i <= n => pick[m][i] = pick[n][i]}
  <2>1. 0 \in U
    BY <1>3
  <2>2. ASSUME NEW i \in Nat, i \in U PROVE i + 1 \in U
    <3> SUFFICES ASSUME i + 1 <= n PROVE pick[m][i + 1] = pick[n][i + 1]
      OBVIOUS
    <3>1. pick[m][i] = pick[n][i]
      BY <2>2
    <3>2. i + 1 \in 1 .. n /\ i + 1 \in 1 .. m /\ (i + 1) - 1 = i
      BY <1>4
    <3>3. pick[m][i + 1] = step[i + 1][pick[m][(i + 1) - 1]]
      BY <1>3, <3>2
    <3>4. pick[n][i + 1] = step[i + 1][pick[n][(i + 1) - 1]]
      BY <1>3, <3>2
    <3> QED BY <3>1, <3>2, <3>3, <3>4
  <2>3. \A i \in Nat : i \in U
    <3> HIDE DEF U
    <3> QED BY <2>1, <2>2, Induction
  <2> QED BY <2>3
<1>5. \A n \in Nat : g[n] = pick[n][n]
  OBVIOUS
<1>6. g \in [Nat -> S]
  <2>1. \A n \in Nat : pick[n][n] \in S
    BY <1>3
  <2> QED BY <2>1
<1>7. g[0] = first
  BY <1>3, <1>5
<1>8. ASSUME NEW n \in Nat \ {0} PROVE g[n] = step[n][g[n - 1]]
  <2> HIDE DEF g
  <2>1. n - 1 \in Nat /\ n - 1 <= n /\ n - 1 \in 0 .. n - 1 /\ n \in 1 .. n
    OBVIOUS
  <2>2. pick[n][n - 1] = pick[n - 1][n - 1]
    BY <1>4, <2>1
  <2> QED BY <1>3, <1>5, <2>1, <2>2
<1> QED BY <1>6, <1>7, <1>8 DEF Recursive
=============================================================================
