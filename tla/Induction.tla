----------------------------- MODULE Induction ------------------------------
(***************************************************************************)
(* Induction over the natural numbers and over finite sets, stated with    *)
(* sets instead of predicates; the functions defined by recursion over     *)
(* 0..n, or over the subsets of a finite set, that the replays, totals and *)
(* folds of the other modules are; and the increasing enumeration of a     *)
(* finite set.                                                             *)
(***************************************************************************)
EXTENDS Integers, FiniteSetTheorems, WellFoundedInduction, TLAPS

\* A set of naturals has a least element.
LEMMA LeastNat ==
  ASSUME NEW T, T \subseteq Nat, T # {}
  PROVE  \E m \in T : \A n \in T : m <= n
<1> DEFINE R == OpToRel(<, Nat)
<1>1. IsWellFoundedOn(R, Nat)
  BY NatLessThanWellFounded
<1>2. \A x, y \in Nat : <<x, y>> \in R <=> x < y
  BY DEF OpToRel
<1> HIDE DEF R
<1>3. PICK m \in T : \A n \in T : ~(<<n, m>> \in R)
  BY <1>1, WFMin
<1>4. m \in Nat /\ \A n \in T : n \in Nat /\ ~(n < m)
  BY <1>2, <1>3
<1>5. \A n \in T : m <= n
  BY <1>4
<1> QED
  BY <1>5

\* A set that has 0, and n + 1 with n, has every natural.
LEMMA NatInd ==
  ASSUME NEW S, 0 \in S, \A n \in Nat : n \in S => n + 1 \in S
  PROVE  Nat \subseteq S
<1> SUFFICES ASSUME Nat \ S # {} PROVE FALSE
  OBVIOUS
<1>1. PICK m \in Nat \ S : \A n \in Nat \ S : m <= n
  BY LeastNat
<1>2. m # 0 /\ m - 1 \in Nat /\ m - 1 \in S
  BY <1>1
<1> QED BY <1>1, <1>2

\* f starts with v and goes on with step.
Follows(f, n, v, step) == f[0] = v /\ \A i \in 1..n : f[i] = step[<<i, f[i - 1]>>]

\* Every step function is followed by some function on 0..n.
LEMMA RecursionExists ==
  ASSUME NEW n \in Nat, NEW V, NEW v \in V, NEW step \in [(1..n) \X V -> V]
  PROVE  \E f \in [0..n -> V] : Follows(f, n, v, step)
<1> DEFINE Upto(m) == \E f \in [0..m -> V] : Follows(f, m, v, step)
           S == {m \in Nat : m <= n => Upto(m)}
<1>1. 0 \in S
  <2>1. [i \in 0..0 |-> v] \in [0..0 -> V] /\ [i \in 0..0 |-> v][0] = v
    OBVIOUS
  <2>2. \A i \in 1..0 : FALSE
    OBVIOUS
  <2>3. Upto(0)
    BY <2>1, <2>2 DEF Follows
  <2> QED BY <2>3
<1>2. ASSUME NEW m \in Nat, m \in S, m + 1 <= n
      PROVE  Upto(m + 1)
  <2>1. m <= n
    BY <1>2
  <2>2. PICK f \in [0..m -> V] : Follows(f, m, v, step)
    BY <1>2, <2>1
  <2> DEFINE g == [i \in 0..m + 1 |-> IF i = m + 1 THEN step[<<i, f[m]>>] ELSE f[i]]
  <2>3. step[<<m + 1, f[m]>>] \in V
    BY <1>2
  <2>4. g \in [0..m + 1 -> V]
    BY <2>3
  <2>5. g[0] = v
    BY <2>2 DEF Follows
  <2>6. ASSUME NEW i \in 1..m + 1 PROVE g[i] = step[<<i, g[i - 1]>>]
    <3>1. i - 1 \in 0..m /\ i - 1 # m + 1 /\ i - 1 \in 0..m + 1
      OBVIOUS
    <3>2. g[i - 1] = f[i - 1]
      BY <3>1
    <3>3. CASE i = m + 1
      BY <3>2, <3>3
    <3>4. CASE i \in 1..m
      BY <3>2, <3>4, <2>2 DEF Follows
    <3> QED BY <3>3, <3>4
  <2> QED BY <2>4, <2>5, <2>6 DEF Follows
<1>3. \A m \in Nat : m \in S => m + 1 \in S
  BY <1>2
<1> HIDE DEF S
<1>4. n \in S
  BY <1>1, <1>3, NatInd
<1> QED BY <1>4 DEF S

\* f and g start alike and step alike.
Alike(f, g, n) == f[0] = g[0] /\ \A i \in 1..n : f[i - 1] = g[i - 1] => f[i] = g[i]

\* Two functions that start alike and step alike are alike.
LEMMA RecursionUnique ==
  ASSUME NEW n \in Nat, NEW f, NEW g, Alike(f, g, n)
  PROVE  \A i \in 0..n : f[i] = g[i]
<1> DEFINE S == {m \in Nat : m <= n => f[m] = g[m]}
<1>1. 0 \in S
  BY DEF Alike
<1>2. ASSUME NEW m \in Nat, m \in S PROVE m + 1 \in S
  <2> SUFFICES ASSUME m + 1 <= n PROVE f[m + 1] = g[m + 1]
    OBVIOUS
  <2>1. m + 1 \in 1..n /\ (m + 1) - 1 = m /\ f[m] = g[m]
    BY <1>2
  <2> QED BY <2>1 DEF Alike
<1> HIDE DEF S
<1>3. Nat \subseteq S
  BY <1>1, <1>2, NatInd
<1> QED BY <1>3 DEF S

-----------------------------------------------------------------------------
(* Folds: a function on the subsets of D, which takes from a set the element *)
(* that ch chooses, and goes on with the rest.                               *)

Chooser(ch, D) == \A s \in SUBSET D : s # {} => ch[s] \in s

FoldStep(it, s, v, ch, step) ==
  it[s] = IF s = {} THEN v ELSE step[<<ch[s], it[s \ {ch[s]}]>>]

\* The rest of a set is smaller.
LEMMA RestSmaller ==
  ASSUME NEW D, IsFiniteSet(D), NEW ch, Chooser(ch, D), NEW s \in SUBSET D, s # {}
  PROVE  /\ s \ {ch[s]} \in SUBSET D /\ ch[s] \in D
         /\ Cardinality(s) \in Nat /\ Cardinality(s \ {ch[s]}) \in Nat
         /\ Cardinality(s \ {ch[s]}) + 1 = Cardinality(s)
<1>1. ch[s] \in s
  BY DEF Chooser
<1>2. IsFiniteSet(s)
  BY FS_Subset
<1>3. Cardinality(s) \in Nat /\ Cardinality(s \ {ch[s]}) = Cardinality(s) - 1 /\ IsFiniteSet(s \ {ch[s]})
  BY <1>1, <1>2, FS_RemoveElement, FS_CardinalityType
<1>4. Cardinality(s \ {ch[s]}) \in Nat
  BY <1>3, FS_CardinalityType
<1> QED BY <1>1, <1>3, <1>4

LEMMA NothingSmaller ==
  ASSUME NEW D, IsFiniteSet(D), NEW s \in SUBSET D, Cardinality(s) <= 0
  PROVE  s = {}
<1>1. IsFiniteSet(s)
  BY FS_Subset
<1>2. Cardinality(s) \in Nat
  BY <1>1, FS_CardinalityType
<1> QED BY <1>1, <1>2, FS_EmptySet

LEMMA FoldExists ==
  ASSUME NEW D, IsFiniteSet(D), NEW V, NEW v \in V, NEW ch, Chooser(ch, D),
         NEW step \in [D \X V -> V]
  PROVE  \E it \in [SUBSET D -> V] : \A s \in SUBSET D : FoldStep(it, s, v, ch, step)
<1> DEFINE Upto(it, m) == \A s \in SUBSET D : Cardinality(s) <= m => FoldStep(it, s, v, ch, step)
           S == {m \in Nat : \E it \in [SUBSET D -> V] : Upto(it, m)}
           Next(it) == [s \in SUBSET D |-> IF s = {} THEN v ELSE step[<<ch[s], it[s \ {ch[s]}]>>]]
<1>1. ASSUME NEW it \in [SUBSET D -> V]
      PROVE  Next(it) \in [SUBSET D -> V]
  <2>1. ASSUME NEW s \in SUBSET D, s # {} PROVE step[<<ch[s], it[s \ {ch[s]}]>>] \in V
    <3>1. s \ {ch[s]} \in SUBSET D /\ ch[s] \in D
      BY <2>1, RestSmaller
    <3>2. it[s \ {ch[s]}] \in V
      BY <3>1
    <3>3. <<ch[s], it[s \ {ch[s]}]>> \in D \X V
      BY <3>1, <3>2
    <3> QED BY <3>3
  <2> QED BY <2>1
<1>2. 0 \in S
  <2> DEFINE it == [s \in SUBSET D |-> v]
  <2>1. ASSUME NEW s \in SUBSET D, Cardinality(s) <= 0 PROVE FoldStep(it, s, v, ch, step)
    <3>1. s = {}
      BY <2>1, NothingSmaller
    <3> QED BY <3>1 DEF FoldStep
  <2> QED BY <2>1
<1>3. ASSUME NEW m \in Nat, m \in S PROVE m + 1 \in S
  <2>1. PICK it \in [SUBSET D -> V] : Upto(it, m)
    BY <1>3
  <2>2. ASSUME NEW s \in SUBSET D, Cardinality(s) <= m + 1
        PROVE  FoldStep(Next(it), s, v, ch, step)
    <3>1. CASE s = {}
      BY <3>1 DEF FoldStep
    <3>2. CASE s # {}
      <4> DEFINE r == s \ {ch[s]}
      <4>1. r \in SUBSET D /\ Cardinality(r) <= m
        BY <2>2, <3>2, RestSmaller
      <4>2. FoldStep(it, r, v, ch, step)
        BY <2>1, <4>1
      <4>3. it[r] = Next(it)[r]
        BY <4>1, <4>2 DEF FoldStep
      <4>4. Next(it)[s] = step[<<ch[s], it[r]>>]
        BY <3>2
      <4> HIDE DEF Next
      <4> QED BY <3>2, <4>3, <4>4 DEF FoldStep
    <3> QED BY <3>1, <3>2
  <2>3. Upto(Next(it), m + 1)
    BY <2>2
  <2> HIDE DEF Next, Upto
  <2>4. Next(it) \in [SUBSET D -> V]
    BY <1>1
  <2> QED BY <2>3, <2>4
<1> HIDE DEF S
<1>4. Cardinality(D) \in S
  BY <1>2, <1>3, NatInd, FS_CardinalityType
<1>5. PICK it \in [SUBSET D -> V] : Upto(it, Cardinality(D))
  BY <1>4 DEF S
<1>6. ASSUME NEW s \in SUBSET D PROVE Cardinality(s) <= Cardinality(D)
  BY FS_Subset
<1> QED BY <1>5, <1>6

\* f takes the steps wherever it has a value of V to take them from.
Folds(f, D, V, v, ch, step) ==
  \A s \in SUBSET D :
    (s = {} \/ f[s \ {ch[s]}] \in V) => FoldStep(f, s, v, ch, step)

\* Then it has one everywhere.
LEMMA FoldTotal ==
  ASSUME NEW D, IsFiniteSet(D), NEW V, NEW v \in V, NEW ch, Chooser(ch, D),
         NEW step \in [D \X V -> V], NEW f, Folds(f, D, V, v, ch, step)
  PROVE  \A s \in SUBSET D : f[s] \in V /\ FoldStep(f, s, v, ch, step)
<1> DEFINE T(s) == f[s] \in V /\ FoldStep(f, s, v, ch, step)
           S == {m \in Nat : \A s \in SUBSET D : Cardinality(s) <= m => T(s)}
<1>1. T({})
  BY DEF Folds, FoldStep
<1>2. ASSUME NEW s \in SUBSET D, s # {}, f[s \ {ch[s]}] \in V PROVE T(s)
  <2>1. FoldStep(f, s, v, ch, step) /\ ch[s] \in D
    BY <1>2, RestSmaller DEF Folds
  <2>2. f[s] = step[<<ch[s], f[s \ {ch[s]}]>>]
    BY <1>2, <2>1 DEF FoldStep
  <2> QED BY <1>2, <2>1, <2>2
<1>3. 0 \in S
  <2>1. \A s \in SUBSET D : Cardinality(s) <= 0 => s = {}
    BY NothingSmaller
  <2> QED BY <1>1, <2>1
<1>4. ASSUME NEW m \in Nat, m \in S PROVE m + 1 \in S
  <2>1. ASSUME NEW s \in SUBSET D, Cardinality(s) <= m + 1, s # {} PROVE T(s)
    <3>1. s \ {ch[s]} \in SUBSET D /\ Cardinality(s \ {ch[s]}) <= m
      BY <2>1, RestSmaller
    <3>2. f[s \ {ch[s]}] \in V
      BY <1>4, <3>1
    <3> QED BY <1>2, <2>1, <3>2
  <2>2. \A s \in SUBSET D : Cardinality(s) <= m + 1 => T(s)
    <3> HIDE DEF T
    <3> QED BY <1>1, <2>1
  <2> QED BY <2>2
<1> HIDE DEF S
<1>5. Cardinality(D) \in S
  BY <1>3, <1>4, NatInd, FS_CardinalityType
<1>6. ASSUME NEW s \in SUBSET D PROVE Cardinality(s) <= Cardinality(D)
  BY FS_Subset
<1> QED BY <1>5, <1>6 DEF S

-----------------------------------------------------------------------------
(* The increasing enumeration of a finite set under an order R of its elements *)

Orders(R, S) ==
  /\ \A x \in S : <<x, x>> \notin R
  /\ \A x, y \in S : x # y => <<x, y>> \in R \/ <<y, x>> \in R
  /\ \A x, y, z \in S : <<x, y>> \in R /\ <<y, z>> \in R => <<x, z>> \in R

Above(x, T, R) == \A y \in T : y # x => <<y, x>> \in R

LEMMA GreatestExists ==
  ASSUME NEW S, IsFiniteSet(S), NEW R, Orders(R, S), S # {}
  PROVE  \E x \in S : Above(x, S, R)
<1> DEFINE Has(T) == T # {} => \E x \in T : Above(x, T, R)
           Q == {m \in Nat : \A T \in SUBSET S : Cardinality(T) <= m => Has(T)}
<1>1. 0 \in Q
  <2>1. \A T \in SUBSET S : Cardinality(T) <= 0 => T = {}
    BY NothingSmaller
  <2> QED BY <2>1
<1>2. ASSUME NEW m \in Nat, m \in Q PROVE m + 1 \in Q
  <2>1. ASSUME NEW T \in SUBSET S, Cardinality(T) <= m + 1, T # {}
        PROVE  \E x \in T : Above(x, T, R)
    <3>1. PICK x \in T : TRUE
      BY <2>1
    <3>2. IsFiniteSet(T) /\ Cardinality(T) \in Nat
      BY FS_Subset, FS_CardinalityType
    <3>3. IsFiniteSet(T \ {x}) /\ Cardinality(T \ {x}) = Cardinality(T) - 1
      BY <3>1, <3>2, FS_RemoveElement
    <3>4. Cardinality(T \ {x}) <= m
      BY <2>1, <3>2, <3>3
    <3>5. Has(T \ {x})
      BY <1>2, <3>4
    <3>6. CASE T \ {x} = {}
      BY <3>1, <3>6 DEF Above
    <3>7. CASE T \ {x} # {}
      <4>1. PICK g \in T \ {x} : Above(g, T \ {x}, R)
        BY <3>5, <3>7
      <4>2. CASE <<g, x>> \in R
        <5>1. Above(x, T, R)
          BY <3>1, <4>1, <4>2 DEF Above, Orders
        <5> QED BY <3>1, <5>1
      <4>3. CASE <<g, x>> \notin R
        <5>1. <<x, g>> \in R
          BY <3>1, <4>1, <4>3 DEF Orders
        <5>2. Above(g, T, R)
          BY <3>1, <4>1, <5>1 DEF Above
        <5> QED BY <4>1, <5>2
      <4> QED BY <4>2, <4>3
    <3> QED BY <3>6, <3>7
  <2>2. \A T \in SUBSET S : Cardinality(T) <= m + 1 => Has(T)
    BY <2>1
  <2> HIDE DEF Has
  <2> QED BY <2>2
<1> HIDE DEF Q
<1>3. Cardinality(S) \in Q
  BY <1>1, <1>2, NatInd, FS_CardinalityType
<1>4. Has(S)
  <2>1. Cardinality(S) \in Nat
    BY FS_CardinalityType
  <2> HIDE DEF Has
  <2> QED BY <1>3, <2>1 DEF Q
<1> QED BY <1>4

Increasing(s, n, R) == \A i, j \in 1..n : i < j => <<s[i], s[j]>> \in R

LEMMA IncreasingExists ==
  ASSUME NEW S, IsFiniteSet(S), NEW R, Orders(R, S)
  PROVE  \E s \in [1..Cardinality(S) -> S] : Increasing(s, Cardinality(S), R)
<1> DEFINE Has(T) == \E s \in [1..Cardinality(T) -> T] : Increasing(s, Cardinality(T), R)
           Q == {m \in Nat : \A T \in SUBSET S : Cardinality(T) <= m => Has(T)}
<1>1. ASSUME NEW T, Cardinality(T) = 0 PROVE Has(T)
  <2> DEFINE s == [i \in 1..0 |-> i]
  <2>1. s \in [1..0 -> T] /\ Increasing(s, 0, R)
    BY DEF Increasing
  <2> QED BY <1>1, <2>1
<1>2. 0 \in Q
  <2>1. \A T \in SUBSET S : Cardinality(T) <= 0 => Cardinality(T) = 0
    BY NothingSmaller, FS_EmptySet
  <2>2. \A T \in SUBSET S : Cardinality(T) <= 0 => Has(T)
    <3> HIDE DEF Has
    <3> QED BY <1>1, <2>1
  <2> HIDE DEF Has
  <2> QED BY <2>2
<1>3. ASSUME NEW m \in Nat, m \in Q PROVE m + 1 \in Q
  <2>1. ASSUME NEW T \in SUBSET S, Cardinality(T) <= m + 1
        PROVE  Has(T)
    <3>1. CASE T = {}
      BY <1>1, <3>1, FS_EmptySet
    <3>2. CASE T # {}
      <4>1. IsFiniteSet(T) /\ Orders(R, T)
        BY FS_Subset DEF Orders
      <4>2. PICK g \in T : Above(g, T, R)
        BY <3>2, <4>1, GreatestExists
      <4> DEFINE U == T \ {g}
                 n == Cardinality(T)
      <4>3. n \in Nat /\ n # 0 /\ Cardinality(U) = n - 1
        BY <3>2, <4>1, <4>2, FS_CardinalityType, FS_RemoveElement, FS_EmptySet
      <4>4. Has(U)
        <5>1. U \in SUBSET S /\ Cardinality(U) <= m
          BY <2>1, <4>3
        <5> HIDE DEF Has, U
        <5> QED BY <1>3, <5>1
      <4>5. PICK s \in [1..(n - 1) -> U] : Increasing(s, n - 1, R)
        <5> HIDE DEF U, n
        <5> QED BY <4>3, <4>4
      <4> DEFINE t == [i \in 1..n |-> IF i = n THEN g ELSE s[i]]
      <4>6. \A i \in 1..n : i = n \/ (i \in 1..(n - 1) /\ s[i] \in U)
        BY <4>3, <4>5
      <4>7. t \in [1..n -> T]
        BY <4>2, <4>6
      <4>8. ASSUME NEW i \in 1..n, NEW j \in 1..n, i < j
            PROVE  <<t[i], t[j]>> \in R
        <5>1. i \in 1..(n - 1)
          BY <4>3, <4>8
        <5>2. t[i] = s[i] /\ s[i] \in U
          BY <4>5, <4>3, <4>8
        <5>3. CASE j = n
          <6>1. t[j] = g
            BY <5>3
          <6> QED BY <4>2, <5>2, <6>1 DEF Above
        <5>4. CASE j # n
          <6>1. j \in 1..(n - 1) /\ t[j] = s[j]
            BY <4>3, <5>4
          <6> QED BY <4>5, <4>8, <5>1, <5>2, <6>1 DEF Increasing
        <5> QED BY <5>3, <5>4
      <4>9. Increasing(t, n, R)
        <5> HIDE DEF t, n
        <5> QED BY <4>8 DEF Increasing
      <4> HIDE DEF t
      <4> QED BY <4>7, <4>9
    <3> QED BY <3>1, <3>2
  <2>2. \A T \in SUBSET S : Cardinality(T) <= m + 1 => Has(T)
    BY <2>1
  <2> HIDE DEF Has
  <2> QED BY <2>2
<1> HIDE DEF Q
<1>4. Cardinality(S) \in Nat /\ Cardinality(S) \in Q
  BY <1>2, <1>3, NatInd, FS_CardinalityType
<1>5. Has(S)
  <2> HIDE DEF Has
  <2> QED BY <1>4 DEF Q
<1> QED BY <1>5

\* s takes every element of S once.
Enumerates(s, n, S) ==
  /\ \A i, j \in 1..n : s[i] = s[j] => i = j
  /\ \A x \in S : \E i \in 1..n : s[i] = x

LEMMA IncreasingOnto ==
  ASSUME NEW S, IsFiniteSet(S), NEW R, Orders(R, S),
         NEW s \in [1..Cardinality(S) -> S], Increasing(s, Cardinality(S), R)
  PROVE  Enumerates(s, Cardinality(S), S)
<1> DEFINE n == Cardinality(S)
<1>1. n \in Nat
  BY FS_CardinalityType
<1>2. ASSUME NEW i \in 1..n, NEW j \in 1..n, s[i] = s[j] PROVE i = j
  <2>1. ~(i < j) /\ ~(j < i)
    BY <1>2 DEF Increasing, Orders
  <2> QED BY <1>1, <2>1
<1>3. s \in Injection(1..n, S)
  BY <1>2 DEF Injection, IsInjective
<1>4. IsFiniteSet(1..n) /\ Cardinality(1..n) = n
  BY <1>1, FS_Interval
<1>5. s \in Surjection(1..n, S)
  BY <1>3, <1>4, FS_Injection
<1>6. \A x \in S : \E i \in 1..n : s[i] = x
  BY <1>5 DEF Surjection
<1> QED BY <1>2, <1>6 DEF Enumerates

Lower(x, S, R) == {y \in S : <<y, x>> \in R}

\* As many elements are below s[i] as there are positions before it.
LEMMA IncreasingRank ==
  ASSUME NEW S, IsFiniteSet(S), NEW R, Orders(R, S),
         NEW s \in [1..Cardinality(S) -> S], Increasing(s, Cardinality(S), R),
         NEW i \in 1..Cardinality(S)
  PROVE  Cardinality(Lower(s[i], S, R)) = i - 1
<1> DEFINE n == Cardinality(S)
           B == Lower(s[i], S, R)
           t == [j \in 1..(i - 1) |-> s[j]]
<1>1. n \in Nat
  BY FS_CardinalityType
<1>2. Enumerates(s, n, S)
  BY IncreasingOnto
<1>3. \A j \in 1..n : <<s[j], s[i]>> \in R <=> j < i
  <2>1. ASSUME NEW j \in 1..n, j < i PROVE <<s[j], s[i]>> \in R
    BY <2>1 DEF Increasing
  <2>2. ASSUME NEW j \in 1..n, ~(j < i) PROVE <<s[j], s[i]>> \notin R
    <3>1. j = i \/ i < j
      BY <1>1, <2>2
    <3>2. CASE j = i
      BY <3>2 DEF Orders
    <3>3. CASE i < j
      <4>1. <<s[i], s[j]>> \in R /\ s[i] \in S /\ s[j] \in S
        BY <3>3 DEF Increasing
      <4> QED BY <4>1 DEF Orders
    <3> QED BY <3>1, <3>2, <3>3
  <2> QED BY <2>1, <2>2
<1> \A y : y \in B <=> y \in S /\ <<y, s[i]>> \in R
  BY DEF Lower
<1>4. \A j \in 1..(i - 1) : j \in 1..n /\ j < i
  BY <1>1
<1>5. t \in Bijection(1..(i - 1), B)
  <2>1. t \in [1..(i - 1) -> B]
    BY <1>3, <1>4
  <2>2. \A a, b \in 1..(i - 1) : t[a] = t[b] => a = b
    <3> HIDE DEF n
    <3> QED BY <1>2, <1>4 DEF Enumerates
  <2>3. ASSUME NEW y \in B PROVE \E j \in 1..(i - 1) : t[j] = y
    <3>1. PICK j \in 1..n : s[j] = y
      BY <1>2 DEF Enumerates
    <3>2. j < i
      BY <1>3, <3>1
    <3>3. j \in 1..(i - 1)
      BY <1>1, <3>2
    <3> QED BY <3>1, <3>3
  <2> HIDE DEF t, B
  <2> QED BY <2>1, <2>2, <2>3 DEF Bijection, Injection, Surjection, IsInjective
<1>6. IsFiniteSet(1..(i - 1)) /\ Cardinality(1..(i - 1)) = i - 1
  <2>1. i - 1 \in Nat /\ 1 \in Int
    BY <1>1
  <2> DEFINE j == i - 1
  <2> HIDE DEF j
  <2>2. j \in Nat
    BY <2>1 DEF j
  <2>3. IsFiniteSet(1..j) /\ Cardinality(1..j) = j
    BY <2>2, FS_Interval
  <2> QED BY <2>3 DEF j
<1>7. Cardinality(B) = i - 1
  <2> HIDE DEF t, B
  <2>1. ExistsBijection(1..(i - 1), B)
    BY <1>5 DEF ExistsBijection
  <2> QED BY <1>6, <2>1, FS_Bijection
<1> QED BY <1>7

\* The order of the integers.
IntOrder == {p \in Int \X Int : p[1] < p[2]}

LEMMA IntOrdered ==
  ASSUME NEW S \in SUBSET Int
  PROVE  Orders(IntOrder, S)
BY DEF Orders, IntOrder

-----------------------------------------------------------------------------
(* What holds of the empty set, and of a set when it holds of the rest of    *)
(* it, holds of every finite set.                                            *)

LEMMA SubsetInd ==
  ASSUME NEW D, IsFiniteSet(D), NEW ch, Chooser(ch, D), NEW T, {} \in T,
         \A s \in SUBSET D : s # {} /\ s \ {ch[s]} \in T => s \in T
  PROVE  SUBSET D \subseteq T
<1> DEFINE S == {m \in Nat : \A s \in SUBSET D : Cardinality(s) <= m => s \in T}
<1>1. 0 \in S
  <2>1. \A s \in SUBSET D : Cardinality(s) <= 0 => s = {}
    BY NothingSmaller
  <2> QED BY <2>1
<1>2. ASSUME NEW m \in Nat, m \in S PROVE m + 1 \in S
  <2>1. ASSUME NEW s \in SUBSET D, Cardinality(s) <= m + 1, s # {} PROVE s \in T
    <3>1. s \ {ch[s]} \in SUBSET D /\ Cardinality(s \ {ch[s]}) <= m
      BY <2>1, RestSmaller
    <3>2. s \ {ch[s]} \in T
      BY <1>2, <3>1
    <3> QED BY <2>1, <3>2
  <2> QED BY <2>1
<1> HIDE DEF S
<1>3. Cardinality(D) \in S
  BY <1>1, <1>2, NatInd, FS_CardinalityType
<1>4. ASSUME NEW s \in SUBSET D PROVE Cardinality(s) <= Cardinality(D)
  BY FS_Subset
<1> QED BY <1>3, <1>4 DEF S

=============================================================================
