-------------------------- MODULE FiniteInduction ---------------------------
(***************************************************************************)
(* Induction over natural numbers and finite sets, the existence of what   *)
(* is defined by recursion over subsets or an interval, finite sets of     *)
(* numbers put in order, numbers in binary, and sums over finite sets.     *)
(*                                                                         *)
(* The induction theorems of the library take an operator.  These take a   *)
(* set: that of the numbers, or sets, of which a statement holds.          *)
(***************************************************************************)
EXTENDS Totals, FiniteSets, FiniteSetTheorems, WellFoundedInduction, TLAPS

\* Every set of natural numbers has a least one.
LEMMA LeastNatural ==
  ASSUME NEW T, T \subseteq Nat, T # {}
  PROVE  \E n \in T : \A m \in T : n <= m
<1> DEFINE R == OpToRel(<, Nat)
<1>1. IsWellFoundedOn(R, Nat)
  BY NatLessThanWellFounded
<1>2. \A m, n \in Nat : m < n => <<m, n>> \in R
  BY DEF OpToRel
<1> HIDE DEF R
<1>3. PICK n \in T : \A m \in T : <<m, n>> \notin R
  BY <1>1, WFMin
<1>4. ASSUME NEW m \in T
      PROVE  n <= m
  <2>1. m \in Nat /\ n \in Nat /\ ~(m < n)
    BY <1>2, <1>3
  <2>2. QED
    BY <2>1
<1>5. QED
  BY <1>4

LEMMA NaturalsReached ==
  ASSUME NEW S, 0 \in S, \A n \in Nat : n \in S => n + 1 \in S
  PROVE  Nat \subseteq S
<1> SUFFICES ASSUME Nat \ S # {} PROVE FALSE
  OBVIOUS
<1>1. PICK n \in Nat \ S : \A m \in Nat \ S : n <= m
  BY LeastNatural
<1>2. n # 0 /\ n - 1 \in Nat /\ n - 1 \in S
  BY <1>1
<1>3. QED
  BY <1>1, <1>2

\* A set of sets that contains the empty one, and with a set the ones that
\* have one element more, contains every finite set.
LEMMA FiniteReached ==
  ASSUME NEW S, IsFiniteSet(S), NEW Q, {} \in Q,
         \A T \in SUBSET S : \A x \in S \ T : T \in Q => T \cup {x} \in Q
  PROVE  S \in Q
<1> DEFINE R == {n \in Nat : \A T \in SUBSET S : Cardinality(T) = n => T \in Q}
<1>1. \A T \in SUBSET S : IsFiniteSet(T) /\ Cardinality(T) \in Nat
  BY FS_Subset, FS_CardinalityType
<1>2. 0 \in R
  BY <1>1, FS_EmptySet
<1>3. ASSUME NEW n \in Nat, n \in R
      PROVE  n + 1 \in R
  <2>1. ASSUME NEW T \in SUBSET S, Cardinality(T) = n + 1
        PROVE  T \in Q
    <3>1. PICK x \in T : TRUE
      BY <1>1, <2>1, FS_EmptySet
    <3>2. Cardinality(T \ {x}) = Cardinality(T) - 1
      BY <1>1, <3>1, FS_RemoveElement
    <3>3. T \ {x} \in Q /\ T = (T \ {x}) \cup {x}
      BY <1>1, <1>3, <2>1, <3>1, <3>2
    <3>4. QED
      BY <3>1, <3>3
  <2>2. QED
    BY <2>1
<1> HIDE DEF R
<1>4. Nat \subseteq R
  BY <1>2, <1>3, NaturalsReached
<1>5. QED
  BY <1>1, <1>4 DEF R

-----------------------------------------------------------------------------
(***************************************************************************)
(* Recursion over the subsets of a finite set.  pick takes an element out  *)
(* of a set, F what the recursion does with the rest.                      *)
(***************************************************************************)
Recursion(S, V, base, pick, F) ==
  {g \in [S -> V] : \A s \in S : g[s] = IF s = {} THEN base ELSE F[s][g[s \ {pick[s]}]]}

LEMMA RecursionExists ==
  ASSUME NEW S, IsFiniteSet(S), NEW V, NEW base \in V,
         NEW pick, \A s \in SUBSET S : s # {} => pick[s] \in s,
         NEW F, \A s \in SUBSET S : \A v \in V : s # {} => F[s][v] \in V
  PROVE  Recursion(SUBSET S, V, base, pick, F) # {}
<1> DEFINE D(n) == {s \in SUBSET S : Cardinality(s) <= n}
           R == {n \in Nat : Recursion(D(n), V, base, pick, F) # {}}
<1>1. \A s \in SUBSET S : IsFiniteSet(s) /\ Cardinality(s) \in Nat
  BY FS_Subset, FS_CardinalityType
<1>2. 0 \in R
  <2>1. D(0) = {{}}
    BY <1>1, FS_EmptySet
  <2>2. [s \in D(0) |-> base] \in Recursion(D(0), V, base, pick, F)
    BY <2>1 DEF Recursion
  <2>3. QED
    BY <2>2
<1>3. ASSUME NEW n \in Nat, n \in R
      PROVE  n + 1 \in R
  <2>1. PICK g : g \in Recursion(D(n), V, base, pick, F)
    BY <1>3
  <2> DEFINE h == [s \in D(n + 1) |-> IF s = {} THEN base ELSE F[s][g[s \ {pick[s]}]]]
  <2>2. ASSUME NEW s \in D(n + 1), s # {}
        PROVE  s \ {pick[s]} \in D(n)
    <3>1. pick[s] \in s
      BY <2>2
    <3>2. Cardinality(s \ {pick[s]}) = Cardinality(s) - 1
      BY <1>1, <3>1, FS_RemoveElement
    <3>3. QED
      BY <1>1, <3>1, <3>2
  <2>3. h \in [D(n + 1) -> V]
    <3>1. ASSUME NEW s \in D(n + 1)
          PROVE  (IF s = {} THEN base ELSE F[s][g[s \ {pick[s]}]]) \in V
      <4>1. CASE s = {}
        BY <4>1
      <4>2. CASE s # {}
        <5>1. g \in [D(n) -> V] /\ s \ {pick[s]} \in D(n)
          BY <2>1, <2>2, <4>2 DEF Recursion
        <5>2. g[s \ {pick[s]}] \in V
          BY <5>1
        <5>3. QED
          BY <4>2, <5>2
      <4>3. QED
        BY <4>1, <4>2
    <3>2. QED
      BY <3>1
  <2>4. D(n) \subseteq D(n + 1)
    BY <1>1
  <2>5. ASSUME NEW s \in D(n)
        PROVE  h[s] = g[s]
    BY <2>1, <2>4, <2>5 DEF Recursion
  <2>6. h \in Recursion(D(n + 1), V, base, pick, F)
    BY <2>2, <2>3, <2>5 DEF Recursion
  <2> HIDE DEF h, D
  <2>7. QED
    BY <2>6
<1> HIDE DEF R
<1>4. Cardinality(S) \in R
  BY <1>1, <1>2, <1>3, NaturalsReached
<1>5. D(Cardinality(S)) = SUBSET S
  BY <1>1, FS_Subset
<1>6. QED
  BY <1>4, <1>5 DEF R

\* h satisfies the equation of the recursion g, where it stays in V.
Recurs(h, g, S, V, base, pick, F) ==
  /\ IsFiniteSet(S) /\ g \in Recursion(SUBSET S, V, base, pick, F)
  /\ h[{}] = base
  /\ \A s \in SUBSET S : s # {} => pick[s] \in s
  /\ \A s \in SUBSET S : s # {} /\ h[s \ {pick[s]}] \in V =>
       h[s] = F[s][h[s \ {pick[s]}]]

\* Then it is the function that the recursion defines.
LEMMA RecursionUnique ==
  ASSUME NEW S, NEW V, NEW base, NEW pick, NEW F, NEW g, NEW h,
         Recurs(h, g, S, V, base, pick, F)
  PROVE  \A s \in SUBSET S : h[s] = g[s]
<1> DEFINE R == {n \in Nat : \A s \in SUBSET S : Cardinality(s) = n => h[s] = g[s]}
<1>1. \A s \in SUBSET S : IsFiniteSet(s) /\ Cardinality(s) \in Nat
  BY FS_Subset, FS_CardinalityType DEF Recurs
<1>2. 0 \in R
  BY <1>1, FS_EmptySet DEF Recursion, Recurs
<1>3. ASSUME NEW n \in Nat, n \in R
      PROVE  n + 1 \in R
  <2>1. ASSUME NEW s \in SUBSET S, Cardinality(s) = n + 1
        PROVE  h[s] = g[s]
    <3>1. s # {} /\ pick[s] \in s
      BY <1>1, <2>1, FS_EmptySet DEF Recurs
    <3> DEFINE u == s \ {pick[s]}
    <3>2. Cardinality(u) = Cardinality(s) - 1
      BY <1>1, <3>1, FS_RemoveElement
    <3>3. u \in SUBSET S /\ h[u] = g[u]
      BY <1>1, <1>3, <2>1, <3>2
    <3>4. g[u] \in V
      BY <3>3 DEF Recursion, Recurs
    <3>5. h[s] = F[s][h[u]]
      BY <3>1, <3>3, <3>4 DEF Recurs
    <3>6. g[s] = F[s][g[u]]
      BY <3>1 DEF Recursion, Recurs
    <3>7. QED
      BY <3>3, <3>5, <3>6
  <2>2. QED
    BY <2>1
<1> HIDE DEF R
<1>4. Nat \subseteq R
  BY <1>2, <1>3, NaturalsReached
<1>5. QED
  BY <1>1, <1>4 DEF R

-----------------------------------------------------------------------------
(***************************************************************************)
(* Recursion over an interval.                                             *)
(***************************************************************************)
\* f is n steps of recursion from base.
Steps(f, n, base, step) ==
  f = [i \in 0..n |-> IF i = 0 THEN base ELSE step[i][f[i - 1]]]

\* It exists where each step stays in the sets S[i].
LEMMA StepsExist ==
  ASSUME NEW n \in Nat, NEW S, NEW base \in S[0],
         NEW step, \A i \in 1..n : \A x \in S[i - 1] : step[i][x] \in S[i]
  PROVE  \E f : Steps(f, n, base, step) /\ \A i \in 0..n : f[i] \in S[i]
<1> DEFINE Good(f, m) == Steps(f, m, base, step) /\ \A i \in 0..m : f[i] \in S[i]
           R == {m \in Nat : m <= n => \E f : Good(f, m)}
<1>1. 0 \in R
  <2>1. Good([i \in 0..0 |-> base], 0)
    BY DEF Steps
  <2>2. QED
    BY <2>1
<1>2. ASSUME NEW m \in Nat, m \in R
      PROVE  m + 1 \in R
  <2> SUFFICES ASSUME m + 1 <= n PROVE \E g : Good(g, m + 1)
    OBVIOUS
  <2>1. PICK f : Good(f, m)
    BY <1>2
  <2> DEFINE g == [i \in 0..m + 1 |-> IF i = m + 1 THEN step[m + 1][f[m]] ELSE f[i]]
  <2>2. /\ \A i \in 0..m : g[i] = f[i] /\ f[i] \in S[i]
        /\ \A i \in 0..m : f[i] = IF i = 0 THEN base ELSE step[i][f[i - 1]]
        /\ g[m + 1] = step[m + 1][f[m]]
    BY <2>1 DEF Steps
  <2>3. \A i \in 0..m + 1 : g[i] = IF i = 0 THEN base ELSE step[i][g[i - 1]]
    <3>1. ASSUME NEW i \in 0..m + 1, i # 0
          PROVE  i - 1 \in 0..m /\ g[i - 1] = f[i - 1] /\ (i = m + 1 \/ i \in 0..m)
      BY <2>2, <3>1
    <3>2. 0 \in 0..m /\ g[0] = base
      BY <2>2
    <3>3. ASSUME NEW i \in 0..m + 1, i # 0
          PROVE  g[i] = step[i][g[i - 1]]
      <4>1. CASE i = m + 1
        BY <2>2, <3>1, <4>1
      <4>2. CASE i \in 0..m
        <5>1. f[i] = step[i][f[i - 1]]
          BY <2>2, <3>3, <4>2
        <5>2. QED
          BY <2>2, <3>1, <3>3, <4>2, <5>1
      <4>3. QED
        BY <3>1, <3>3, <4>1, <4>2
    <3>4. QED
      BY <3>2, <3>3
  <2>4. g[m + 1] \in S[m + 1]
    <3>1. m + 1 \in 1..n /\ (m + 1) - 1 = m /\ m \in 0..m
      OBVIOUS
    <3>2. QED
      BY <2>2, <3>1
  <2>5. DOMAIN g = 0..m + 1 /\ g = [i \in 0..m + 1 |-> g[i]]
    OBVIOUS
  <2> HIDE DEF g
  <2>6. Steps(g, m + 1, base, step)
    BY <2>3, <2>5 DEF Steps
  <2>7. \A i \in 0..m + 1 : g[i] \in S[i]
    <3>1. \A i \in 0..m + 1 : i = m + 1 \/ i \in 0..m
      OBVIOUS
    <3>2. QED
      BY <2>2, <2>4, <3>1
  <2>8. QED
    BY <2>6, <2>7
<1>3. n \in R
  <2> HIDE DEF R
  <2>1. QED
    BY <1>1, <1>2, NaturalsReached
<1>4. QED
  BY <1>3

\* What every step keeps holds after all of them.
LEMMA StepsKeep ==
  ASSUME NEW n \in Nat, NEW S, NEW f, f[0] \in S[0],
         \A i \in 1..n : f[i - 1] \in S[i - 1] => f[i] \in S[i]
  PROVE  \A i \in 0..n : f[i] \in S[i]
<1> DEFINE R == {m \in Nat : m <= n => f[m] \in S[m]}
<1>1. 0 \in R
  OBVIOUS
<1>2. ASSUME NEW m \in Nat, m \in R
      PROVE  m + 1 \in R
  <2> SUFFICES ASSUME m + 1 <= n PROVE f[m + 1] \in S[m + 1]
    OBVIOUS
  <2>1. m + 1 \in 1..n /\ (m + 1) - 1 = m /\ f[m] \in S[m]
    BY <1>2
  <2>2. QED
    BY <2>1
<1>3. Nat \subseteq R
  <2> HIDE DEF R
  <2>1. QED
    BY <1>1, <1>2, NaturalsReached
<1>4. QED
  BY <1>3

-----------------------------------------------------------------------------
(***************************************************************************)
(* Finite sets of numbers in order.                                        *)
(***************************************************************************)
Increasing(n, S) == {s \in [1..n -> S] : \A j, k \in 1..n : j < k => s[j] < s[k]}

LEMMA Greatest ==
  ASSUME NEW m \in Nat, NEW S \in SUBSET (1..m), S # {}
  PROVE  \E z \in S : \A x \in S : x <= z
<1> DEFINE T == {m - x : x \in S}
<1>1. T \subseteq Nat /\ T # {}
  <2>1. \A x \in S : x \in 1..m
    OBVIOUS
  <2>2. \A x \in 1..m : m - x \in Nat
    OBVIOUS
  <2>3. QED
    BY <2>1, <2>2
<1>2. PICK d \in T : \A e \in T : d <= e
  <2> HIDE DEF T
  <2>1. QED
    BY <1>1, LeastNatural
<1>3. PICK z \in S : d = m - z
  BY <1>2
<1>4. ASSUME NEW x \in S
      PROVE  x <= z
  <2>1. m - x \in T
    OBVIOUS
  <2>2. d <= m - x
    BY <1>2, <2>1
  <2>3. m - z <= m - x /\ x \in Int /\ z \in Int
    BY <1>3, <2>2
  <2>4. QED
    BY <2>3
<1>5. QED
  BY <1>4

LEMMA Enumerated ==
  ASSUME NEW m \in Nat, NEW S \in SUBSET (1..m)
  PROVE  Increasing(Cardinality(S), S) # {}
<1> DEFINE R == {n \in Nat : \A T \in SUBSET S : Cardinality(T) = n => Increasing(n, T) # {}}
<1>1. IsFiniteSet(S) /\ \A T \in SUBSET S : IsFiniteSet(T) /\ Cardinality(T) \in Nat
  <2>1. IsFiniteSet(1..m)
    BY FS_Interval
  <2>2. IsFiniteSet(S)
    BY <2>1, FS_Subset
  <2>3. QED
    BY <2>2, FS_Subset, FS_CardinalityType
<1>2. 0 \in R
  <2>1. [k \in {} |-> 0] \in Increasing(0, {})
    BY DEF Increasing
  <2>2. QED
    BY <1>1, <2>1, FS_EmptySet
<1>3. ASSUME NEW n \in Nat, n \in R
      PROVE  n + 1 \in R
  <2>1. ASSUME NEW T \in SUBSET S, Cardinality(T) = n + 1
        PROVE  Increasing(n + 1, T) # {}
    <3>1. T # {}
      BY <1>1, <2>1, FS_EmptySet
    <3>2. PICK z \in T : \A x \in T : x <= z
      BY <3>1, Greatest
    <3> DEFINE U == T \ {z}
    <3>3. Cardinality(U) = Cardinality(T) - 1
      BY <1>1, FS_RemoveElement
    <3>4. Cardinality(U) = n /\ U \in SUBSET S
      BY <2>1, <3>3
    <3>5. PICK u : u \in Increasing(n, U)
      BY <1>3, <3>4
    <3> DEFINE v == [k \in 1..n + 1 |-> IF k = n + 1 THEN z ELSE u[k]]
    <3>6. \A k \in 1..n : u[k] \in T /\ u[k] < z
      <4>1. ASSUME NEW k \in 1..n
            PROVE  u[k] \in T /\ u[k] < z
        <5>1. u[k] \in T /\ u[k] # z
          BY <3>5 DEF Increasing
        <5>2. u[k] <= z /\ u[k] \in Int /\ z \in Int
          <6>1. u[k] \in 1..m /\ z \in 1..m
            BY <5>1
          <6>2. QED
            BY <3>2, <5>1, <6>1
        <5>3. QED
          BY <5>1, <5>2
      <4>2. QED
        BY <4>1
    <3>7. v \in [1..n + 1 -> T]
      BY <3>6
    <3>8. ASSUME NEW j \in 1..n + 1, NEW k \in 1..n + 1, j < k
          PROVE  v[j] < v[k]
      <4>1. j \in 1..n /\ v[j] = u[j]
        BY <3>8
      <4>2. CASE k = n + 1
        BY <3>6, <4>1, <4>2
      <4>3. CASE k # n + 1
        <5>1. k \in 1..n /\ v[k] = u[k]
          BY <4>3
        <5>2. QED
          BY <3>5, <3>8, <4>1, <5>1 DEF Increasing
      <4>4. QED
        BY <4>2, <4>3
    <3> HIDE DEF v
    <3>9. v \in Increasing(n + 1, T)
      BY <3>7, <3>8 DEF Increasing
    <3>10. QED
      BY <3>9
  <2>2. QED
    BY <2>1
<1> HIDE DEF R
<1>4. S \in SUBSET S /\ Cardinality(S) \in R
  BY <1>1, <1>2, <1>3, NaturalsReached
<1>5. QED
  BY <1>4 DEF R

-----------------------------------------------------------------------------
(***************************************************************************)
(* Powers of two, and the digits of a number in binary.                    *)
(***************************************************************************)

\* The library knows powers of two as the numbers of subsets.
LEMMA PowersOfTwo ==
  ASSUME NEW n \in Nat
  PROVE  2^n \in Nat \ {0} /\ 2^(n + 1) = 2 * 2^n
<1> DEFINE A == SUBSET (1..n)
           B == {s \cup {n + 1} : s \in A}
           C == SUBSET (1..n + 1)
<1>1. /\ IsFiniteSet(1..n) /\ Cardinality(1..n) = n
      /\ IsFiniteSet(1..n + 1) /\ Cardinality(1..n + 1) = n + 1
  BY FS_Interval
<1>2. /\ IsFiniteSet(A) /\ Cardinality(A) = 2^n
      /\ IsFiniteSet(C) /\ Cardinality(C) = 2^(n + 1)
  BY <1>1, FS_SUBSET
<1>3. C = A \cup B
  <2>1. ASSUME NEW s \in C, n + 1 \in s
        PROVE  s \in B
    <3>1. s = (s \ {n + 1}) \cup {n + 1} /\ s \ {n + 1} \in A
      BY <2>1
    <3>2. QED
      BY <3>1
  <2>2. ASSUME NEW s \in C, n + 1 \notin s
        PROVE  s \in A
    BY <2>2
  <2>3. A \subseteq C /\ B \subseteq C
    <3>1. 1..n \subseteq 1..n + 1 /\ n + 1 \in 1..n + 1
      OBVIOUS
    <3>2. QED
      BY <3>1
  <2>4. QED
    BY <2>1, <2>2, <2>3
<1>4. A \cap B = {}
  <2>1. n + 1 \notin 1..n
    OBVIOUS
  <2>2. QED
    BY <2>1
<1>5. IsFiniteSet(B) /\ Cardinality(B) = Cardinality(A)
  <2> DEFINE f == [s \in A |-> s \cup {n + 1}]
  <2>1. f \in Bijection(A, B)
    <3>1. \A s, t \in A : f[s] = f[t] => s = t
      <4>1. n + 1 \notin 1..n
        OBVIOUS
      <4>2. QED
        BY <4>1
    <3>2. f \in [A -> B] /\ \A b \in B : \E a \in A : f[a] = b
      OBVIOUS
    <3> HIDE DEF f
    <3>3. QED
      BY <3>1, <3>2 DEF Bijection, Injection, Surjection, IsInjective
  <2>2. ExistsBijection(A, B)
    BY <2>1 DEF ExistsBijection
  <2>3. QED
    BY <1>2, <2>2, FS_Bijection
<1>6. Cardinality(A) \in Nat /\ Cardinality(A) # 0
  <2>1. {} \in A
    OBVIOUS
  <2>2. QED
    BY <1>2, <2>1, FS_EmptySet, FS_CardinalityType
<1>7. Cardinality(C) = Cardinality(A) + Cardinality(B)
  <2> HIDE DEF A, B, C
  <2>1. Cardinality(A \cup B) = Cardinality(A) + Cardinality(B) - Cardinality(A \cap B)
    BY <1>2, <1>5, FS_Union
  <2>2. Cardinality(A \cap B) = 0
    BY <1>4, FS_EmptySet
  <2>3. QED
    BY <1>3, <1>5, <1>6, <2>1, <2>2
<1> HIDE DEF A, B, C
<1>8. QED
  BY <1>2, <1>5, <1>6, <1>7

\* Digit i of a number and what is below it.
LEMMA Divided ==
  ASSUME NEW v \in Nat, NEW d \in Nat \ {0}
  PROVE  /\ v \div d \in Nat /\ v % d \in 0..d - 1 /\ v = (v \div d) * d + (v % d)
         /\ \A q, r \in Nat : v = q * d + r /\ r < d => q = v \div d /\ r = v % d
<1>1. v \div d \in Nat /\ v % d \in 0..d - 1 /\ v = (v \div d) * d + (v % d)
  BY SMT
<1>2. ASSUME NEW q \in Nat, NEW r \in Nat, v = q * d + r, r < d
      PROVE  q = v \div d /\ r = v % d
  BY <1>2, SMT
<1>3. QED
  BY <1>1, <1>2

LEMMA Digits ==
  ASSUME NEW v \in Nat, NEW i \in Nat
  PROVE  /\ (v \div 2^i) % 2 \in {0, 1}
         /\ v % 2^i \in 0..2^i - 1
         /\ v % 2^(i + 1) = (v % 2^i) + ((v \div 2^i) % 2) * 2^i
<1> DEFINE p == 2^i
           q == v \div p
           b == q % 2
           h == q \div 2
           r == v % p
<1>1. p \in Nat \ {0} /\ 2^(i + 1) = 2 * p
  BY PowersOfTwo
<1>2. q \in Nat /\ r \in 0..p - 1 /\ v = q * p + r
  BY <1>1, Divided
<1>3. h \in Nat /\ b \in 0..1 /\ q = h * 2 + b
  BY <1>2, Divided
<1> HIDE DEF p, q, b, h, r
<1>4. v = h * (2 * p) + (r + b * p)
  <2>1. q * p = h * (2 * p) + b * p
    BY <1>1, <1>2, <1>3
  <2>2. r \in Nat /\ b * p \in Nat /\ h * (2 * p) \in Nat
    BY <1>1, <1>2, <1>3
  <2>3. QED
    BY <1>2, <2>1, <2>2
<1>5. r + b * p \in Nat /\ r + b * p < 2 * p /\ 2 * p \in Nat \ {0}
  BY <1>1, <1>2, <1>3
<1>6. r + b * p = v % (2 * p)
  <2> DEFINE d == 2 * p
             m == r + b * p
  <2>1. d \in Nat \ {0} /\ m \in Nat /\ h \in Nat /\ v = h * d + m /\ m < d
    BY <1>3, <1>4, <1>5
  <2> HIDE DEF d, m
  <2>2. m = v % d
    BY <2>1, Divided
  <2>3. QED
    BY <2>2 DEF d, m
<1>7. b \in {0, 1} /\ r \in 0..p - 1 /\ v % 2^(i + 1) = r + b * p
  BY <1>1, <1>2, <1>3, <1>6
<1>8. QED
  BY <1>7 DEF p, q, b, r

LEMMA AllDigits ==
  ASSUME NEW n \in Nat, NEW v \in 0..2^n - 1
  PROVE  v % 2^n = v
<1>1. 2^n \in Nat \ {0} /\ v \in Nat /\ 0 \in Nat
  BY PowersOfTwo
<1>2. v = 0 * 2^n + v /\ v < 2^n
  BY <1>1
<1>3. QED
  BY <1>1, <1>2, Divided

\* The highest digits that differ decide.
LEMMA DigitsDecide ==
  ASSUME NEW u \in Nat, NEW v \in Nat, NEW i \in Nat
  PROVE  LET a == (u \div 2^i) % 2
             b == (v \div 2^i) % 2
         IN  /\ a < b => u % 2^(i + 1) < v % 2^(i + 1)
             /\ b < a => v % 2^(i + 1) < u % 2^(i + 1)
             /\ a = b => /\ u % 2^(i + 1) < v % 2^(i + 1) <=> u % 2^i < v % 2^i
                         /\ v % 2^(i + 1) < u % 2^(i + 1) <=> v % 2^i < u % 2^i
<1> DEFINE p == 2^i
           a == (u \div p) % 2
           b == (v \div p) % 2
           x == u % p
           y == v % p
<1>1. /\ a \in {0, 1} /\ x \in 0..p - 1 /\ u % 2^(i + 1) = x + a * p
      /\ b \in {0, 1} /\ y \in 0..p - 1 /\ v % 2^(i + 1) = y + b * p
  BY Digits
<1>2. p \in Nat \ {0}
  BY PowersOfTwo
<1> HIDE DEF p, a, b, x, y
<1>3. a * p = (IF a = 0 THEN 0 ELSE p) /\ b * p = (IF b = 0 THEN 0 ELSE p)
  BY <1>1, <1>2
<1>4. /\ a < b => x + a * p < y + b * p
      /\ b < a => y + b * p < x + a * p
      /\ a = b => /\ x + a * p < y + b * p <=> x < y
                  /\ y + b * p < x + a * p <=> y < x
  BY <1>1, <1>2, <1>3
<1>5. QED
  BY <1>1, <1>4 DEF p, a, b, x, y

\* What a number that ends in k equal digits ends in.
LEMMA EqualDigits ==
  ASSUME NEW v \in Nat, NEW b \in {0, 1}, NEW k \in Nat,
         \A i \in 0..k - 1 : (v \div 2^i) % 2 = b
  PROVE  v % 2^k = IF b = 1 THEN 2^k - 1 ELSE 0
<1> DEFINE R == {n \in Nat : n <= k => v % 2^n = IF b = 1 THEN 2^n - 1 ELSE 0}
<1>1. 0 \in R
  <2>1. v % 2^0 = 0
    <3>1. 2^0 = 1
      OBVIOUS
    <3>2. v % 2^0 \in 0..2^0 - 1
      BY Digits
    <3>3. QED
      BY <3>1, <3>2
  <2>2. QED
    BY <2>1
<1>2. ASSUME NEW n \in Nat, n \in R
      PROVE  n + 1 \in R
  <2> SUFFICES ASSUME n + 1 <= k
               PROVE  v % 2^(n + 1) = IF b = 1 THEN 2^(n + 1) - 1 ELSE 0
    OBVIOUS
  <2>1. n \in 0..k - 1
    OBVIOUS
  <2>2. v % 2^(n + 1) = (v % 2^n) + b * 2^n
    BY <2>1, Digits
  <2>3. v % 2^n = IF b = 1 THEN 2^n - 1 ELSE 0
    BY <1>2
  <2>4. 2^n \in Nat \ {0} /\ 2^(n + 1) = 2 * 2^n
    BY PowersOfTwo
  <2>5. CASE b = 0
    BY <2>2, <2>3, <2>4, <2>5
  <2>6. CASE b = 1
    BY <2>2, <2>3, <2>4, <2>6
  <2>7. QED
    BY <2>5, <2>6
<1> HIDE DEF R
<1>3. k \in R
  BY <1>1, <1>2, NaturalsReached
<1>4. QED
  BY <1>3 DEF R

\* And the other way round.
LEMMA DigitsOfExtremes ==
  ASSUME NEW v \in Nat, NEW b \in {0, 1}, NEW k \in Nat,
         v % 2^k = IF b = 1 THEN 2^k - 1 ELSE 0
  PROVE  \A i \in 0..k - 1 : (v \div 2^i) % 2 = b
<1> DEFINE R == {n \in Nat : v % 2^n = (IF b = 1 THEN 2^n - 1 ELSE 0) =>
                               \A i \in 0..n - 1 : (v \div 2^i) % 2 = b}
<1>1. 0 \in R
  OBVIOUS
<1>2. ASSUME NEW n \in Nat, n \in R
      PROVE  n + 1 \in R
  <2> SUFFICES ASSUME v % 2^(n + 1) = IF b = 1 THEN 2^(n + 1) - 1 ELSE 0
               PROVE  \A i \in 0..n : (v \div 2^i) % 2 = b
    OBVIOUS
  <2> DEFINE p == 2^n
             a == (v \div p) % 2
             x == v % p
  <2>1. a \in {0, 1} /\ x \in 0..p - 1 /\ v % 2^(n + 1) = x + a * p
    BY Digits
  <2>2. p \in Nat \ {0} /\ 2^(n + 1) = 2 * p
    BY PowersOfTwo
  <2> HIDE DEF p, a, x
  <2>3. a = b /\ x = IF b = 1 THEN p - 1 ELSE 0
    <3>1. a * p = IF a = 1 THEN p ELSE 0
      BY <2>1, <2>2
    <3>2. x + (IF a = 1 THEN p ELSE 0) = IF b = 1 THEN 2 * p - 1 ELSE 0
      BY <2>1, <2>2, <3>1
    <3>3. QED
      BY <2>1, <2>2, <3>2
  <2>4. \A i \in 0..n - 1 : (v \div 2^i) % 2 = b
    BY <1>2, <2>3 DEF p, x
  <2>5. \A i \in 0..n : i = n \/ i \in 0..n - 1
    OBVIOUS
  <2>6. QED
    BY <2>3, <2>4, <2>5 DEF p, a
<1> HIDE DEF R
<1>3. k \in R
  BY <1>1, <1>2, NaturalsReached
<1>4. QED
  BY <1>3 DEF R

\* The digit above a run of equal ones decides against what the run is.
LEMMA RunDecides ==
  ASSUME NEW u \in Nat, NEW v \in Nat, NEW k \in Nat, NEW b \in {0, 1},
         \A i \in 0..k - 1 : (v \div 2^i) % 2 = b, (v \div 2^k) % 2 # b
  PROVE  IF (u \div 2^k) % 2 = 1
         THEN IF b = 1 THEN v % 2^(k + 1) < u % 2^(k + 1) ELSE v % 2^(k + 1) <= u % 2^(k + 1)
         ELSE IF b = 1 THEN u % 2^(k + 1) <= v % 2^(k + 1) ELSE u % 2^(k + 1) < v % 2^(k + 1)
<1> DEFINE p == 2^k
           c == (u \div p) % 2
           d == (v \div p) % 2
           s == u % p
           t == v % p
<1>1. /\ c \in {0, 1} /\ s \in 0..p - 1 /\ u % 2^(k + 1) = s + c * p
      /\ d \in {0, 1} /\ t \in 0..p - 1 /\ v % 2^(k + 1) = t + d * p
  BY Digits
<1>2. p \in Nat \ {0} /\ d # b
  BY PowersOfTwo
<1>3. t = IF b = 1 THEN p - 1 ELSE 0
  BY EqualDigits
<1> HIDE DEF p, c, d, s, t
<1>4. c * p = (IF c = 0 THEN 0 ELSE p) /\ d * p = (IF d = 0 THEN 0 ELSE p)
  BY <1>1, <1>2
<1>5. IF c = 1 THEN IF b = 1 THEN t + d * p < s + c * p ELSE t + d * p <= s + c * p
               ELSE IF b = 1 THEN s + c * p <= t + d * p ELSE s + c * p < t + d * p
  BY <1>1, <1>2, <1>3, <1>4
<1>6. QED
  BY <1>1, <1>5 DEF p, c, d, s, t

\* A number none of whose higher digits is above the other's stays below it.
LEMMA DigitsDominate ==
  ASSUME NEW u \in Nat, NEW v \in Nat, NEW k \in Nat, NEW n \in Nat, k <= n,
         \A i \in k..n - 1 : (u \div 2^i) % 2 <= (v \div 2^i) % 2
  PROVE  /\ u % 2^k < v % 2^k => u % 2^n < v % 2^n
         /\ u % 2^k <= v % 2^k => u % 2^n <= v % 2^n
<1> DEFINE Below(m) == /\ u % 2^k < v % 2^k => u % 2^m < v % 2^m
                       /\ u % 2^k <= v % 2^k => u % 2^m <= v % 2^m
           R == {m \in Nat : k + m <= n => Below(k + m)}
<1>1. 0 \in R
  OBVIOUS
<1>2. ASSUME NEW m \in Nat, m \in R
      PROVE  m + 1 \in R
  <2> SUFFICES ASSUME k + m + 1 <= n PROVE Below(k + m + 1)
    OBVIOUS
  <2> DEFINE i == k + m
             a == (u \div 2^i) % 2
             b == (v \div 2^i) % 2
             x == u % 2^i
             y == v % 2^i
             s == u % 2^(i + 1)
             t == v % 2^(i + 1)
  <2>1. i \in Nat /\ i \in k..n - 1 /\ a <= b /\ Below(i)
    BY <1>2
  <2>2. a \in {0, 1} /\ b \in {0, 1} /\ x \in Nat /\ y \in Nat /\ s \in Nat /\ t \in Nat
    <3>1. i + 1 \in Nat /\ 2^i \in Nat \ {0} /\ 2^(i + 1) \in Nat \ {0}
      BY <2>1, PowersOfTwo
    <3>2. x \in 0..2^i - 1 /\ y \in 0..2^i - 1 /\ s \in 0..2^(i + 1) - 1 /\ t \in 0..2^(i + 1) - 1
          /\ a \in {0, 1} /\ b \in {0, 1}
      BY <2>1, <3>1, Digits
    <3>3. QED
      BY <3>1, <3>2
  <2>3. /\ a < b => s < t
        /\ a = b => (s < t <=> x < y) /\ (t < s <=> y < x)
    BY <2>1, DigitsDecide
  <2>4. (x < y => s < t) /\ (x <= y => s <= t)
    <3> HIDE DEF i, a, b, x, y, s, t
    <3>1. QED
      BY <2>1, <2>2, <2>3
  <2>5. QED
    BY <2>1, <2>4
<1>3. n - k \in R
  <2> HIDE DEF R
  <2>1. n - k \in Nat
    OBVIOUS
  <2>2. QED
    BY <1>1, <1>2, <2>1, NaturalsReached
<1>4. k + (n - k) = n
  OBVIOUS
<1>5. QED
  BY <1>3, <1>4

-----------------------------------------------------------------------------
(***************************************************************************)
(* Sums over finite sets.                                                  *)
(***************************************************************************)
Chosen(s) == CHOOSE x \in s : TRUE

\* The sums of f over the sets of a family.
Sums(f, D) ==
  {g \in [D -> Int] : \A s \in D : g[s] = IF s = {} THEN 0 ELSE f[Chosen(s)] + g[s \ {Chosen(s)}]}

Picks(S) == [s \in SUBSET S |-> Chosen(s)]
Adds(S, f) == [s \in SUBSET S |-> [v \in Int |-> f[Chosen(s)] + v]]

\* They are a recursion over the subsets.
LEMMA SumsAreRecursion ==
  ASSUME NEW S, IsFiniteSet(S), NEW f, \A x \in S : f[x] \in Int
  PROVE  /\ Sums(f, SUBSET S) = Recursion(SUBSET S, Int, 0, Picks(S), Adds(S, f))
         /\ \A s \in SUBSET S : s # {} => Picks(S)[s] \in s
         /\ Sums(f, SUBSET S) # {}
<1>1. \A s \in SUBSET S : s # {} => Chosen(s) \in s /\ Picks(S)[s] = Chosen(s)
  BY DEF Chosen, Picks
<1>2. \A s \in SUBSET S : \A v \in Int : Adds(S, f)[s][v] = f[Chosen(s)] + v
  BY DEF Adds
<1>3. \A s \in SUBSET S : \A v \in Int : s # {} => Adds(S, f)[s][v] \in Int
  BY <1>1, <1>2
<1>4. Recursion(SUBSET S, Int, 0, Picks(S), Adds(S, f)) # {}
  BY <1>1, <1>3, RecursionExists
<1>5. ASSUME NEW g \in [SUBSET S -> Int], NEW s \in SUBSET S, s # {}
      PROVE  Adds(S, f)[s][g[s \ {Picks(S)[s]}]] = f[Chosen(s)] + g[s \ {Chosen(s)}]
  BY <1>1, <1>2, <1>5
<1>6. Sums(f, SUBSET S) = Recursion(SUBSET S, Int, 0, Picks(S), Adds(S, f))
  BY <1>5 DEF Sums, Recursion
<1>7. QED
  BY <1>1, <1>4, <1>6

LEMMA SumsUnique ==
  ASSUME NEW S, IsFiniteSet(S), NEW f, NEW g, NEW h, NEW D, NEW E,
         SUBSET S \subseteq D, SUBSET S \subseteq E, g \in Sums(f, D), h \in Sums(f, E)
  PROVE  g[S] = h[S]
<1> DEFINE R == {n \in Nat : \A s \in SUBSET S : Cardinality(s) = n => g[s] = h[s]}
<1>1. \A s \in SUBSET S : IsFiniteSet(s) /\ Cardinality(s) \in Nat
  BY FS_Subset, FS_CardinalityType
<1>2. 0 \in R
  BY <1>1, FS_EmptySet DEF Sums
<1>3. ASSUME NEW n \in Nat, n \in R
      PROVE  n + 1 \in R
  <2>1. ASSUME NEW s \in SUBSET S, Cardinality(s) = n + 1
        PROVE  g[s] = h[s]
    <3>1. s # {} /\ Chosen(s) \in s
      BY <1>1, <2>1, FS_EmptySet DEF Chosen
    <3>2. Cardinality(s \ {Chosen(s)}) = Cardinality(s) - 1
      BY <1>1, <3>1, FS_RemoveElement
    <3>3. g[s \ {Chosen(s)}] = h[s \ {Chosen(s)}]
      BY <1>1, <1>3, <2>1, <3>2
    <3>4. QED
      BY <3>1, <3>3 DEF Sums
  <2>2. QED
    BY <2>1
<1> HIDE DEF R
<1>4. QED
  BY <1>1, <1>2, <1>3, NaturalsReached DEF R

LEMMA TotalIsSum ==
  ASSUME NEW S, IsFiniteSet(S), NEW f, \A x \in S : f[x] \in Int
  PROVE  \E g \in Sums(f, SUBSET S) : Total(f, S) = g[S]
<1> DEFINE Is(g) == g = [s \in SUBSET S |->
                           IF s = {} THEN 0
                           ELSE f[CHOOSE x \in s : TRUE] + g[s \ {CHOOSE x \in s : TRUE}]]
<1>1. Total(f, S) = (CHOOSE g : Is(g))[S]
  BY DEF Total, MapThenSumSet, MapThenFoldSet
<1>2. PICK g \in Sums(f, SUBSET S) : TRUE
  BY SumsAreRecursion
<1>3. Is(g)
  BY <1>2 DEF Sums, Chosen
<1> DEFINE h == CHOOSE k : Is(k)
<1> HIDE DEF Is
<1>4. Is(h)
  BY <1>3
<1> HIDE DEF h
<1>5. h = [s \in SUBSET S |-> IF s = {} THEN 0 ELSE f[Chosen(s)] + h[s \ {Chosen(s)}]]
  BY <1>4 DEF Is, Chosen
<1>6. g \in Recursion(SUBSET S, Int, 0, Picks(S), Adds(S, f))
      /\ \A s \in SUBSET S : s # {} => Picks(S)[s] \in s
  BY <1>2, SumsAreRecursion
<1>7. ASSUME NEW s \in SUBSET S, s # {}, h[s \ {Picks(S)[s]}] \in Int
      PROVE  h[s] = Adds(S, f)[s][h[s \ {Picks(S)[s]}]]
  BY <1>5, <1>7 DEF Picks, Adds
<1>8. Recurs(h, g, S, Int, 0, Picks(S), Adds(S, f))
  BY <1>5, <1>6, <1>7 DEF Recurs
<1>9. \A s \in SUBSET S : h[s] = g[s]
  BY <1>8, RecursionUnique
<1>10. QED
  BY <1>1, <1>2, <1>9 DEF h

LEMMA TotalOfNone == ASSUME NEW f PROVE Total(f, {}) = 0
<1>1. PICK g \in Sums(f, SUBSET {}) : Total(f, {}) = g[{}]
  BY TotalIsSum, FS_EmptySet
<1>2. QED
  BY <1>1 DEF Sums

LEMMA TotalTyped ==
  ASSUME NEW S, IsFiniteSet(S), NEW f, \A x \in S : f[x] \in Int
  PROVE  Total(f, S) \in Int
<1>1. PICK g \in Sums(f, SUBSET S) : Total(f, S) = g[S]
  BY TotalIsSum
<1>2. S \in SUBSET S /\ g \in [SUBSET S -> Int]
  BY <1>1 DEF Sums
<1>3. QED
  BY <1>1, <1>2

LEMMA TotalOfChosen ==
  ASSUME NEW S, IsFiniteSet(S), S # {}, NEW f, \A x \in S : f[x] \in Int
  PROVE  Chosen(S) \in S /\ Total(f, S) = f[Chosen(S)] + Total(f, S \ {Chosen(S)})
<1> DEFINE x == Chosen(S)
           T == S \ {x}
<1>1. x \in S
  BY DEF Chosen
<1>2. PICK g \in Sums(f, SUBSET S) : Total(f, S) = g[S]
  BY TotalIsSum
<1>3. IsFiniteSet(T)
  BY FS_RemoveElement
<1>4. PICK h \in Sums(f, SUBSET T) : Total(f, T) = h[T]
  BY <1>3, TotalIsSum
<1>5. g[T] = h[T]
  <2>1. SUBSET T \subseteq SUBSET S
    OBVIOUS
  <2>2. QED
    BY <1>3, <2>1, SumsUnique
<1>6. QED
  BY <1>1, <1>2, <1>4, <1>5 DEF Sums

\* Any element can be taken out first.
LEMMA TotalOfAny ==
  ASSUME NEW S, IsFiniteSet(S), NEW f, \A x \in S : f[x] \in Int, NEW y \in S
  PROVE  Total(f, S) = f[y] + Total(f, S \ {y})
<1> DEFINE R == {n \in Nat : \A T \in SUBSET S : Cardinality(T) = n =>
                    \A z \in T : Total(f, T) = f[z] + Total(f, T \ {z})}
<1>1. \A T \in SUBSET S : IsFiniteSet(T) /\ Cardinality(T) \in Nat /\ Total(f, T) \in Int
  BY FS_Subset, FS_CardinalityType, TotalTyped
<1>2. 0 \in R
  BY <1>1, FS_EmptySet
<1>3. ASSUME NEW n \in Nat, n \in R
      PROVE  n + 1 \in R
  <2>1. ASSUME NEW T \in SUBSET S, Cardinality(T) = n + 1, NEW z \in T
        PROVE  Total(f, T) = f[z] + Total(f, T \ {z})
    <3> DEFINE x == Chosen(T)
               U == T \ {x}
               V == T \ {z}
    <3>1. x \in T /\ Total(f, T) = f[x] + Total(f, U)
      BY <1>1, <2>1, TotalOfChosen
    <3>2. CASE z = x
      BY <3>1, <3>2
    <3>3. CASE z # x
      <4> DEFINE W == U \ {z}
      <4>1. Cardinality(U) = n /\ Cardinality(V) = n
        <5>1. Cardinality(U) = Cardinality(T) - 1 /\ Cardinality(V) = Cardinality(T) - 1
          BY <1>1, <3>1, FS_RemoveElement
        <5>2. QED
          BY <2>1, <5>1
      <4>2. z \in U /\ x \in V /\ V \ {x} = W /\ U \in SUBSET S /\ V \in SUBSET S
        BY <3>1, <3>3
      <4>3. W \in SUBSET S
        BY <4>2
      <4> HIDE DEF U, V, x
      <4>4. Total(f, U) = f[z] + Total(f, W)
        BY <1>3, <4>1, <4>2
      <4> HIDE DEF W
      <4>5. Total(f, V) = f[x] + Total(f, W)
        BY <1>3, <4>1, <4>2
      <4>6. f[x] \in Int /\ f[z] \in Int /\ Total(f, W) \in Int
        BY <1>1, <3>1, <4>2, <4>3
      <4>7. Total(f, T) = f[x] + Total(f, U)
        BY <3>1
      <4>8. Total(f, T) = f[z] + Total(f, V)
        BY <4>4, <4>5, <4>6, <4>7
      <4>9. QED
        BY <4>8 DEF V
    <3>4. QED
      BY <3>2, <3>3
  <2>2. QED
    BY <2>1
<1> HIDE DEF R
<1>4. S \in SUBSET S /\ Cardinality(S) \in R
  BY <1>1, <1>2, <1>3, NaturalsReached
<1>5. QED
  BY <1>4 DEF R

LEMMA TotalWithOneMore ==
  ASSUME NEW S, IsFiniteSet(S), NEW f, \A z \in S : f[z] \in Int,
         NEW T \in SUBSET S, NEW x \in S \ T
  PROVE  Total(f, T \cup {x}) = f[x] + Total(f, T)
<1>1. IsFiniteSet(T \cup {x}) /\ (T \cup {x}) \ {x} = T
  BY FS_Subset
<1>2. QED
  BY <1>1, TotalOfAny

\* Sums of equal, added and multiplied terms.
LEMMA TotalsEqual ==
  ASSUME NEW S, IsFiniteSet(S), NEW f, NEW g, \A x \in S : f[x] \in Int /\ f[x] = g[x]
  PROVE  Total(f, S) = Total(g, S)
<1> DEFINE Q == {T \in SUBSET S : Total(f, T) = Total(g, T)}
<1>1. {} \in Q
  BY TotalOfNone
<1>2. ASSUME NEW T \in SUBSET S, NEW x \in S \ T, T \in Q
      PROVE  T \cup {x} \in Q
  BY <1>2, TotalWithOneMore
<1> HIDE DEF Q
<1>3. QED
  BY <1>1, <1>2, FiniteReached DEF Q

Added(S, f, g, h) ==
  /\ IsFiniteSet(S)
  /\ \A x \in S : f[x] \in Int /\ g[x] \in Int /\ h[x] = f[x] + g[x]

LEMMA TotalOfSum ==
  ASSUME NEW S, NEW f, NEW g, NEW h, Added(S, f, g, h)
  PROVE  Total(h, S) = Total(f, S) + Total(g, S)
<1>0. /\ IsFiniteSet(S)
      /\ \A x \in S : f[x] \in Int /\ g[x] \in Int /\ h[x] = f[x] + g[x]
  BY DEF Added
<1> DEFINE Q == {T \in SUBSET S : Total(h, T) = Total(f, T) + Total(g, T)}
<1>1. {} \in Q
  BY <1>0, TotalOfNone
<1>2. ASSUME NEW T \in SUBSET S, NEW x \in S \ T, T \in Q
      PROVE  T \cup {x} \in Q
  <2>1. Total(f, T) \in Int /\ Total(g, T) \in Int
    BY <1>0, FS_Subset, TotalTyped
  <2>2. /\ Total(f, T \cup {x}) = f[x] + Total(f, T)
        /\ Total(g, T \cup {x}) = g[x] + Total(g, T)
        /\ Total(h, T \cup {x}) = h[x] + Total(h, T)
    BY <1>0, TotalWithOneMore
  <2>3. QED
    BY <1>0, <1>2, <2>1, <2>2
<1> HIDE DEF Q
<1>3. QED
  BY <1>0, <1>1, <1>2, FiniteReached DEF Q

Multiplied(S, k, f, h) ==
  /\ IsFiniteSet(S) /\ k \in Int
  /\ \A x \in S : f[x] \in Int /\ h[x] = k * f[x]

LEMMA TotalOfMultiple ==
  ASSUME NEW S, NEW f, NEW h, NEW k, Multiplied(S, k, f, h)
  PROVE  Total(h, S) = k * Total(f, S)
<1>0. /\ IsFiniteSet(S) /\ k \in Int
      /\ \A x \in S : f[x] \in Int /\ h[x] = k * f[x]
  BY DEF Multiplied
<1> DEFINE Q == {T \in SUBSET S : Total(h, T) = k * Total(f, T)}
<1>1. {} \in Q
  BY <1>0, TotalOfNone
<1>2. ASSUME NEW T \in SUBSET S, NEW x \in S \ T, T \in Q
      PROVE  T \cup {x} \in Q
  <2>1. Total(f, T) \in Int /\ f[x] \in Int
    BY <1>0, FS_Subset, TotalTyped
  <2>2. /\ Total(f, T \cup {x}) = f[x] + Total(f, T)
        /\ Total(h, T \cup {x}) = h[x] + Total(h, T)
    BY <1>0, TotalWithOneMore
  <2>3. k * (f[x] + Total(f, T)) = k * f[x] + k * Total(f, T)
    BY <1>0, <2>1
  <2>4. QED
    BY <1>0, <1>2, <2>1, <2>2, <2>3
<1> HIDE DEF Q
<1>3. QED
  BY <1>0, <1>1, <1>2, FiniteReached DEF Q

LEMMA TotalOfZeros ==
  ASSUME NEW S, IsFiniteSet(S), NEW f, \A x \in S : f[x] = 0
  PROVE  Total(f, S) = 0
<1>1. Total(f, S) = 0 * Total(f, S)
  BY TotalOfMultiple DEF Multiplied
<1>2. Total(f, S) \in Int
  BY TotalTyped
<1>3. QED
  BY <1>1, <1>2

\* Terms that are 0 can be left out.
LEMMA TotalWithoutZeros ==
  ASSUME NEW S, IsFiniteSet(S), NEW f, NEW U \in SUBSET S,
         \A x \in S : f[x] \in Int, \A x \in S \ U : f[x] = 0
  PROVE  Total(f, U) = Total(f, S)
<1> DEFINE Q == {T \in SUBSET S : Total(f, T \cap U) = Total(f, T)}
<1>1. {} \in Q
  <2>1. {} \cap U = {}
    OBVIOUS
  <2>2. QED
    BY <2>1
<1>2. ASSUME NEW T \in SUBSET S, NEW x \in S \ T, T \in Q
      PROVE  T \cup {x} \in Q
  <2> DEFINE V == T \cap U
             W == (T \cup {x}) \cap U
  <2>1. V \in SUBSET S /\ x \in S \ V
    OBVIOUS
  <2>2. Total(f, T) \in Int
    BY FS_Subset, TotalTyped
  <2>3. Total(f, T \cup {x}) = f[x] + Total(f, T)
    BY TotalWithOneMore
  <2>4. Total(f, V) = Total(f, T)
    BY <1>2
  <2>5. CASE x \in U
    <3>1. W = V \cup {x}
      BY <2>5
    <3>2. Total(f, V \cup {x}) = f[x] + Total(f, V)
      BY <2>1, TotalWithOneMore
    <3> HIDE DEF V, W
    <3>3. Total(f, W) = Total(f, T \cup {x})
      BY <2>3, <2>4, <3>1, <3>2
    <3>4. QED
      BY <3>3 DEF W
  <2>6. CASE x \notin U
    <3>1. W = V
      BY <2>6
    <3>2. f[x] = 0
      BY <2>6
    <3> HIDE DEF V, W
    <3>3. Total(f, W) = Total(f, T \cup {x})
      BY <2>2, <2>3, <2>4, <3>1, <3>2
    <3>4. QED
      BY <3>3 DEF W
  <2>7. QED
    BY <2>5, <2>6
<1> HIDE DEF Q
<1>3. S \in Q
  BY <1>1, <1>2, FiniteReached
<1>4. S \cap U = U
  OBVIOUS
<1>5. QED
  BY <1>3, <1>4 DEF Q

\* Terms can be counted by other names.
LEMMA TotalRenamed ==
  ASSUME NEW S, IsFiniteSet(S), NEW T, NEW h \in Bijection(S, T), NEW f, NEW g,
         \A x \in S : f[x] \in Int, \A x \in S : g[h[x]] = f[x]
  PROVE  Total(f, S) = Total(g, T)
<1> DEFINE Image(U) == {h[x] : x \in U}
           Q == {U \in SUBSET S : Total(f, U) = Total(g, Image(U))}
<1>1. {} \in Q
  <2>1. Image({}) = {}
    OBVIOUS
  <2> HIDE DEF Image
  <2>2. QED
    BY <2>1, TotalOfNone
<1>2. IsFiniteSet(T) /\ Image(S) = T /\ \A y \in T : g[y] \in Int
  <2>1. IsFiniteSet(T)
    BY FS_Bijection DEF ExistsBijection
  <2>2. h \in [S -> T] /\ \A y \in T : \E x \in S : h[x] = y
    BY DEF Bijection, Surjection
  <2>3. QED
    BY <2>1, <2>2
<1>3. ASSUME NEW U \in SUBSET S, NEW x \in S \ U, U \in Q
      PROVE  U \cup {x} \in Q
  <2> DEFINE I == Image(U)
  <2>1. I \in SUBSET T /\ h[x] \in T \ I
    BY DEF Bijection, Injection, IsInjective
  <2>2. Image(U \cup {x}) = I \cup {h[x]}
    OBVIOUS
  <2>3. Total(f, U) = Total(g, I)
    BY <1>3
  <2> HIDE DEF Image, I
  <2>4. Total(f, U \cup {x}) = f[x] + Total(f, U)
    BY TotalWithOneMore
  <2>5. Total(g, I \cup {h[x]}) = g[h[x]] + Total(g, I)
    BY <1>2, <2>1, TotalWithOneMore
  <2>6. QED
    BY <2>2, <2>3, <2>4, <2>5
<1> HIDE DEF Image
<1>4. S \in Q
  <2> HIDE DEF Q
  <2>1. QED
    BY <1>1, <1>3, FiniteReached
<1>5. QED
  BY <1>2, <1>4

\* A table F, its transpose G, the totals A of its rows and B of its columns.
Table(S, T, F, G, A, B) ==
  /\ IsFiniteSet(S) /\ IsFiniteSet(T)
  /\ \A x \in S : \A y \in T : F[x][y] \in Int /\ G[y][x] = F[x][y]
  /\ \A x \in S : A[x] = Total(F[x], T)
  /\ \A y \in T : B[y] = Total(G[y], S)

\* A table can be summed by rows or by columns.
LEMMA TotalExchanged ==
  ASSUME NEW S, NEW T, NEW F, NEW G, NEW A, NEW B, Table(S, T, F, G, A, B)
  PROVE  Total(A, S) = Total(B, T)
<1>0. /\ IsFiniteSet(S) /\ IsFiniteSet(T)
      /\ \A x \in S : \A y \in T : F[x][y] \in Int /\ G[y][x] = F[x][y]
      /\ \A x \in S : A[x] = Total(F[x], T)
      /\ \A y \in T : B[y] = Total(G[y], S)
  BY DEF Table
<1> DEFINE C(U) == [y \in T |-> Total(G[y], U)]
           Q == {U \in SUBSET S : Total(A, U) = Total(C(U), T)}
<1>1. {} \in Q
  <2>1. \A y \in T : C({})[y] = 0
    BY TotalOfNone
  <2> HIDE DEF C
  <2>2. Total(C({}), T) = 0 /\ Total(A, {}) = 0
    BY <1>0, <2>1, TotalOfZeros, TotalOfNone
  <2>3. QED
    BY <2>2
<1>2. \A x \in S : A[x] \in Int
  BY <1>0, TotalTyped
<1>3. ASSUME NEW U \in SUBSET S, NEW x \in S \ U, U \in Q
      PROVE  U \cup {x} \in Q
  <2> DEFINE V == U \cup {x}
             c == C(U)
             d == C(V)
  <2>1. ASSUME NEW y \in T
        PROVE  F[x][y] \in Int /\ c[y] \in Int /\ d[y] = F[x][y] + c[y]
    <3>1. c[y] \in Int
      <4>1. Total(G[y], U) \in Int
        BY <1>0, FS_Subset, TotalTyped
      <4>2. QED
        BY <4>1
    <3>2. Total(G[y], V) = G[y][x] + Total(G[y], U)
      BY <1>0, TotalWithOneMore
    <3>3. QED
      BY <1>0, <3>1, <3>2
  <2>2. Total(A, V) = A[x] + Total(A, U)
    BY <1>0, <1>2, TotalWithOneMore
  <2>3. Total(A, U) = Total(c, T)
    BY <1>3
  <2> HIDE DEF c, d, C, V
  <2>4. Total(d, T) = Total(F[x], T) + Total(c, T)
    <3>1. Added(T, F[x], c, d)
      BY <1>0, <2>1 DEF Added
    <3>2. QED
      BY <3>1, TotalOfSum
  <2>5. Total(A, V) = Total(d, T)
    BY <1>0, <2>2, <2>3, <2>4
  <2>6. QED
    BY <2>5 DEF V, d
<1>4. S \in Q
  <2> HIDE DEF Q
  <2>1. QED
    BY <1>0, <1>1, <1>3, FiniteReached
<1> DEFINE c == C(S)
<1>5. \A y \in T : c[y] = B[y] /\ c[y] \in Int
  BY <1>0, TotalTyped
<1>6. Total(A, S) = Total(c, T)
  BY <1>4
<1> HIDE DEF c, C
<1>7. QED
  BY <1>0, <1>5, <1>6, TotalsEqual
=============================================================================
