--------------------------- MODULE OrderedProofs ---------------------------
(***************************************************************************)
(* What the other proofs use about natural numbers: induction, stated with *)
(* a set instead of an operator so that every prover can instantiate it,   *)
(* the greatest member of a bounded set, and InOrder.                      *)
(***************************************************************************)
EXTENDS Ordered, FiniteSetsExt, FiniteSetTheorems, FunctionTheorems,
        WellFoundedInduction, TLAPS

LessThan == {ss \in Nat \X Nat : ss[1] < ss[2]}

(* Every set of naturals that is not empty has a least member.             *)
LEMMA LeastMember ==
    ASSUME NEW T \in SUBSET Nat, T # {}
    PROVE  \E x \in T : \A y \in T : x <= y
  <1>1. OpToRel(<, Nat) = LessThan
    BY Zenon DEF OpToRel, LessThan
  <1>2. IsWellFoundedOn(LessThan, Nat)
    BY <1>1, NatLessThanWellFounded, Zenon
  <1>3. \E x \in T : \A y \in T : ~(<<y, x>> \in LessThan)
    BY <1>2, WFMin
  <1>4. ASSUME NEW x \in Nat, NEW y \in Nat, <<y, x>> \notin LessThan
        PROVE  x <= y
    <2>1. <<y, x>> \in Nat \X Nat /\ <<y, x>>[1] = y /\ <<y, x>>[2] = x
      OBVIOUS
    <2>2. ~(y < x)
      BY <2>1, <1>4 DEF LessThan
    <2>3. QED
      BY <2>2
  <1>5. QED
    BY <1>3, <1>4

(* Induction over the naturals, for the set of those it holds for.         *)
LEMMA SetInduction ==
    ASSUME NEW S, 0 \in S, \A n \in Nat : n \in S => n + 1 \in S
    PROVE  Nat \subseteq S
  <1> SUFFICES ASSUME Nat \ S # {} PROVE FALSE
    OBVIOUS
  <1>1. PICK x \in Nat \ S : \A y \in Nat \ S : x <= y
    BY LeastMember
  <1>2. x # 0 /\ x - 1 \in Nat /\ x - 1 \in S
    BY <1>1
  <1>3. QED
    BY <1>1, <1>2

(* Max picks the greatest member of a set of naturals that is bounded.     *)
LEMMA MaxFacts ==
    ASSUME NEW S \in SUBSET Nat, S # {}, NEW b \in Nat, \A x \in S : x <= b
    PROVE  Max(S) \in S /\ \A x \in S : x <= Max(S)
  <1> DEFINE T == {b - x : x \in S}
  <1>1. T \in SUBSET Nat /\ T # {}
    <2>1. \A x \in S : b - x \in Nat
      OBVIOUS
    <2>2. QED
      BY <2>1
  <1>2. PICK t \in T : \A u \in T : t <= u
    BY <1>1, LeastMember
  <1>3. PICK m \in S : t = b - m
    BY <1>2
  <1>4. \A x \in S : b - x \in T /\ t <= b - x
    BY <1>2
  <1>5. \A x \in S : m >= x
    BY <1>3, <1>4
  <1>6. QED
    BY <1>5 DEF Max

LEMMA MaxOfTwo ==
    ASSUME NEW a \in Nat, NEW b \in Nat
    PROVE  Max({a, b}) = IF a >= b THEN a ELSE b
  BY DEF Max

(* A finite set of naturals can be put in order.                           *)
Ordering(f, n) == \A i, j \in 1..n : i < j => f[i] < f[j]
Orderable(n) == \A S \in SUBSET Nat :
                    IsFiniteSet(S) /\ Cardinality(S) = n =>
                        \E f \in [1..n -> S] : Ordering(f, n)

LEMMA OrderableStep ==
    ASSUME NEW n \in Nat, Orderable(n)
    PROVE  Orderable(n + 1)
  <1> SUFFICES ASSUME NEW S \in SUBSET Nat, IsFiniteSet(S), Cardinality(S) = n + 1
               PROVE  \E g \in [1..(n + 1) -> S] : Ordering(g, n + 1)
    BY DEF Orderable
  <1>1. S # {}
    BY FS_EmptySet
  <1>2. PICK x \in S : \A y \in S : x <= y
    BY <1>1, LeastMember
  <1>3. IsFiniteSet(S \ {x}) /\ Cardinality(S \ {x}) = n
    BY FS_RemoveElement
  <1>4. PICK f \in [1..n -> S \ {x}] : Ordering(f, n)
    BY <1>3 DEF Orderable
  <1> DEFINE g == [i \in 1..(n + 1) |-> IF i = 1 THEN x ELSE f[i - 1]]
  <1>5. ASSUME NEW i \in 1..(n + 1), i # 1
        PROVE  i - 1 \in 1..n /\ g[i] = f[i - 1] /\ g[i] \in S /\ g[i] # x /\ g[i] > x
    <2>1. i - 1 \in 1..n /\ g[i] = f[i - 1]
      BY <1>5
    <2>2. f[i - 1] \in S /\ f[i - 1] # x /\ x \in Nat /\ f[i - 1] \in Nat
      BY <2>1
    <2>3. QED
      BY <2>1, <2>2, <1>2
  <1>6. g[1] = x
    OBVIOUS
  <1>7. g \in [1..(n + 1) -> S]
    BY <1>5, <1>6
  <1>8. Ordering(g, n + 1)
    <2> SUFFICES ASSUME NEW i \in 1..(n + 1), NEW j \in 1..(n + 1), i < j
                 PROVE  g[i] < g[j]
      BY DEF Ordering
    <2> j # 1
      OBVIOUS
    <2>1. CASE i = 1
      BY <2>1, <1>5, <1>6
    <2>2. CASE i # 1
      <3>1. i - 1 \in 1..n /\ j - 1 \in 1..n /\ i - 1 < j - 1
        BY <2>2
      <3>2. f[i - 1] < f[j - 1]
        BY <3>1, <1>4 DEF Ordering
      <3>3. QED
        BY <3>2, <2>2, <1>5
    <2>3. QED
      BY <2>1, <2>2
  <1>9. QED
    BY <1>7, <1>8

LEMMA EveryFiniteSetIsOrderable ==
    ASSUME NEW n \in Nat PROVE Orderable(n)
  <1> DEFINE P == {k \in Nat : Orderable(k)}
  <1>1. 0 \in P
    <2> SUFFICES ASSUME NEW S \in SUBSET Nat, IsFiniteSet(S), Cardinality(S) = 0
                 PROVE  \E f \in [1..0 -> S] : Ordering(f, 0)
      BY DEF Orderable
    <2>1. [i \in 1..0 |-> 0] \in [1..0 -> S] /\ Ordering([i \in 1..0 |-> 0], 0)
      BY DEF Ordering
    <2>2. QED
      BY <2>1
  <1>2. \A k \in Nat : k \in P => k + 1 \in P
    BY OrderableStep
  <1>3. Nat \subseteq P
    <2> HIDE DEF P
    <2> QED
      BY <1>1, <1>2, SetInduction
  <1>4. QED
    BY <1>3

(***************************************************************************)
(* InOrder lists every member once, smallest first.                        *)
(***************************************************************************)
LEMMA InOrderFacts ==
    ASSUME NEW S \in SUBSET Nat, IsFiniteSet(S)
    PROVE  /\ Cardinality(S) \in Nat
           /\ InOrder(S) \in [1..Cardinality(S) -> S]
           /\ \A i, j \in 1..Cardinality(S) : i < j => InOrder(S)[i] < InOrder(S)[j]
           /\ \A x \in S : \E i \in 1..Cardinality(S) : InOrder(S)[i] = x
  <1> DEFINE n == Cardinality(S)
             g == InOrder(S)
  <1>1. n \in Nat
    BY FS_CardinalityType
  <1>2. \E f \in [1..n -> S] : \A i, j \in 1..n : i < j => f[i] < f[j]
    BY <1>1, EveryFiniteSetIsOrderable DEF Orderable, Ordering
  <1>3. g \in [1..n -> S] /\ \A i, j \in 1..n : i < j => g[i] < g[j]
    BY <1>2 DEF InOrder
  <1> HIDE DEF g, n
  <1>4. g \in Injection(1..n, S)
    <2>1. \A i, j \in 1..n : g[i] = g[j] => i = j
      <3> SUFFICES ASSUME NEW i \in 1..n, NEW j \in 1..n, i # j PROVE g[i] # g[j]
        OBVIOUS
      <3>1. i \in Nat /\ j \in Nat /\ g[i] \in S /\ g[j] \in S
        BY <1>1, <1>3
      <3> g[i] \in Nat /\ g[j] \in Nat
        BY <3>1
      <3>2. i < j \/ j < i
        BY <3>1
      <3>3. g[i] < g[j] \/ g[j] < g[i]
        BY <3>2, <1>3
      <3>4. QED
        BY <3>1, <3>3
    <2>2. QED
      BY <2>1, <1>3, Fun_IsInj
  <1>5. Cardinality(1..n) = n
    BY <1>1, FS_Interval
  <1>6. g \in Surjection(1..n, S)
    BY <1>4, <1>5, FS_Injection DEF n
  <1>7. \A x \in S : \E i \in 1..n : g[i] = x
    BY <1>6 DEF Surjection
  <1>8. QED
    BY <1>1, <1>3, <1>7 DEF n, g

(* The k-th member has k members up to and with it.                        *)
LEMMA InOrderCounts ==
    ASSUME NEW S \in SUBSET Nat, IsFiniteSet(S), NEW k \in 1..Cardinality(S)
    PROVE  Cardinality({x \in S : x <= InOrder(S)[k]}) = k
  <1> DEFINE n == Cardinality(S)
             f == InOrder(S)
             g == [i \in 1..k |-> f[i]]
             T == {x \in S : x <= f[k]}
  <1>1. /\ n \in Nat /\ f \in [1..n -> S]
        /\ \A i, j \in 1..n : i < j => f[i] < f[j]
        /\ \A x \in S : \E i \in 1..n : f[i] = x
    BY InOrderFacts
  <1>2. k \in 1..n
    OBVIOUS
  <1> HIDE DEF n, f
  <1>3. ASSUME NEW i \in 1..k PROVE i \in 1..n /\ f[i] \in Nat /\ f[i] \in S
    <2>1. i \in 1..n
      BY <1>1, <1>2
    <2>2. f[i] \in S
      BY <1>1, <2>1
    <2>3. QED
      BY <2>1, <2>2
  <1>4. ASSUME NEW i \in 1..k PROVE f[i] \in T
    <2>1. i < k \/ i = k
      BY <1>1, <1>2
    <2>2. f[i] <= f[k]
      BY <1>1, <1>2, <1>3, <2>1
    <2>3. QED
      BY <1>1, <1>3, <2>2
  <1>5. ASSUME NEW i \in 1..k, NEW j \in 1..k, f[i] = f[j] PROVE i = j
    <2>1. i < j \/ i = j \/ j < i
      BY <1>1, <1>2
    <2>2. QED
      BY <1>1, <1>3, <1>5, <2>1
  <1>6. ASSUME NEW x \in T PROVE \E i \in 1..k : f[i] = x
    <2>1. PICK i \in 1..n : f[i] = x
      BY <1>1
    <2>2. ~(k < i)
      <3>1. f[i] <= f[k] /\ f[i] \in Nat /\ f[k] \in Nat
        BY <1>1, <1>2, <2>1
      <3>2. k < i => f[k] < f[i]
        BY <1>1, <1>2
      <3>3. QED
        BY <3>1, <3>2
    <2>3. i \in 1..k
      BY <1>1, <1>2, <2>2
    <2>4. QED
      BY <2>1, <2>3
  <1>7. g \in Bijection(1..k, T)
    <2>1. g \in [1..k -> T] /\ \A i \in 1..k : g[i] = f[i]
      BY <1>4
    <2> HIDE DEF g, T
    <2>2. g \in Injection(1..k, T)
      BY <1>5, <2>1 DEF Injection, IsInjective
    <2>3. g \in Surjection(1..k, T)
      BY <1>6, <2>1 DEF Surjection
    <2>4. QED
      BY <2>2, <2>3 DEF Bijection
  <1>8. IsFiniteSet(1..k) /\ Cardinality(1..k) = k
    BY <1>1, <1>2, FS_Interval
  <1>9. Cardinality(T) = Cardinality(1..k)
    <2>1. ExistsBijection(1..k, T)
      BY <1>7 DEF ExistsBijection
    <2> HIDE DEF T
    <2>2. QED
      BY <1>8, <2>1, FS_Bijection
  <1>10. QED
    BY <1>8, <1>9 DEF f
=============================================================================
