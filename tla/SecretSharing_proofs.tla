------------------------ MODULE SecretSharing_proofs ------------------------
(***************************************************************************)
(* Whoever does not satisfy the tree does not get the secret.              *)
(*                                                                         *)
(* Linear algebra behind it: for attributes that do not open the tree      *)
(* there is a vector w of integers that starts with 1 and is orthogonal to *)
(* the vector of every node they open (Separated).  Labelling keeps one to *)
(* be found: at an OR the same w will do, at an AND its entry for the new  *)
(* column makes up for the left child where that is open.  Rows of the     *)
(* attributes combine to (1, 0, ..., 0) for no coefficients then: the      *)
(* product with w would be 1 and 0.                                        *)
(*                                                                         *)
(* The argument needs every vector to be as the labelling meant it, padded *)
(* up to the counter and not overwritten.  Lean trees, comparisons among   *)
(* them, leave nothing to pad and append within no array that another      *)
(* slice of the length reaches (Aligned).                                  *)
(*                                                                         *)
(* The order: memory and slices, padding, what a tree opens, products of   *)
(* vectors, the two methods that look for coefficients (that they yield    *)
(* integers is all that is needed of them), rows, the invariant.           *)
(***************************************************************************)
EXTENDS SecretSharing, FiniteInduction, SequenceTheorems

-----------------------------------------------------------------------------
(***************************************************************************)
(* Slices.                                                                 *)
(***************************************************************************)
Memory == Seq(Seq(Int))

Slice(m, s) ==
  /\ s = [arr |-> s.arr, len |-> s.len]
  /\ s.arr \in 1..Len(m) /\ s.len \in 1..Len(m[s.arr])

\* n is a memory after m: no array is gone or shorter.
Grown(m, n) == Len(m) <= Len(n) /\ \A i \in 1..Len(m) : Len(m[i]) <= Len(n[i])

\* ... and slices of at most k entries still read the same.
Kept(m, n, k) ==
  /\ Grown(m, n)
  /\ \A i \in 1..Len(m) : \A j \in 1..Len(m[i]) : j <= k => n[i][j] = m[i][j]

\* The content of a slice: its first entries in its array.
LEMMA ContentTyped ==
  ASSUME NEW m \in Memory, NEW s, Slice(m, s)
  PROVE  /\ Content(m, s) \in Seq(Int) /\ Len(Content(m, s)) = s.len
         /\ \A j \in 1..s.len : Content(m, s)[j] = m[s.arr][j] /\ m[s.arr][j] \in Int
         /\ s.len \in Nat
<1>1. m[s.arr] \in Seq(Int) /\ s.arr \in 1..Len(m) /\ s.len \in 1..Len(m[s.arr])
  BY DEF Memory, Slice
<1>2. QED
  BY <1>1, SMTT(30) DEF Content

LEMMA ZerosTyped ==
  ASSUME NEW n \in Nat
  PROVE  Zeros(n) \in Seq(Int) /\ Len(Zeros(n)) = n /\ \A j \in 1..n : Zeros(n)[j] = 0
  BY DEF Zeros

\* append: a longer slice, in its own array or in a new one.
LEMMA Appended ==
  ASSUME NEW m \in Memory, NEW s, Slice(m, s), NEW x \in Int
  PROVE  LET a == AppendTo(m, s, x) IN
           /\ a.mem \in Memory /\ Slice(a.mem, a.slice) /\ a.slice.len = s.len + 1
           /\ Kept(m, a.mem, s.len)
           /\ \A j \in 1..s.len : a.mem[a.slice.arr][j] = m[s.arr][j]
           /\ a.mem[a.slice.arr][s.len + 1] = x
<1> DEFINE a == AppendTo(m, s, x)
<1>1. /\ s = [arr |-> s.arr, len |-> s.len] /\ s.arr \in 1..Len(m)
      /\ s.len \in 1..Len(m[s.arr]) /\ m[s.arr] \in Seq(Int) /\ s.len \in Nat \ {0}
  BY DEF Memory, Slice
<1>2. \A i \in 1..Len(m) : m[i] \in Seq(Int)
  BY DEF Memory
<1>3. CASE s.len < Len(m[s.arr])
  <2> DEFINE n == [m EXCEPT ![s.arr][s.len + 1] = x]
             r == [m[s.arr] EXCEPT ![s.len + 1] = x]
             t == [s EXCEPT !.len = @ + 1]
  <2>1. a.mem = n /\ a.slice = t
    BY <1>3 DEF AppendTo
  <2>2. t = [arr |-> s.arr, len |-> s.len + 1] /\ t.arr = s.arr /\ t.len = s.len + 1
    BY <1>1
  <2>3. /\ r \in Seq(Int) /\ Len(r) = Len(m[s.arr]) /\ r[s.len + 1] = x
        /\ \A j \in 1..Len(r) : j # s.len + 1 => r[j] = m[s.arr][j]
    BY <1>1, <1>3
  <2>4. /\ n \in Memory /\ Len(n) = Len(m) /\ n[s.arr] = r
        /\ \A i \in 1..Len(m) : i # s.arr => n[i] = m[i]
    <3>1. m \in Seq(Seq(Int)) /\ n = [m EXCEPT ![s.arr] = r]
      BY DEF Memory
    <3> HIDE DEF n, r
    <3>2. QED
      BY <1>1, <2>3, <3>1 DEF Memory
  <2> HIDE DEF a, n, r, t
  <2>5. Slice(n, t)
    BY <1>1, <1>3, <2>2, <2>3, <2>4, SMTT(30) DEF Slice
  <2>6. Kept(m, n, s.len)
    <3>1. Grown(m, n)
      <4>1. Len(m) \in Nat /\ \A i \in 1..Len(m) : Len(m[i]) \in Nat
        BY <1>2 DEF Memory
      <4>2. \A i \in 1..Len(m) : Len(n[i]) = Len(m[i])
        BY <2>3, <2>4
      <4>3. QED
        BY <2>4, <4>1, <4>2 DEF Grown
    <3>2. ASSUME NEW i \in 1..Len(m), NEW j \in 1..Len(m[i]), j <= s.len
          PROVE  n[i][j] = m[i][j]
      <4>1. CASE i = s.arr
        <5>1. j \in 1..Len(r) /\ j # s.len + 1
          BY <1>1, <2>3, <3>2, <4>1
        <5>2. QED
          BY <2>3, <2>4, <4>1, <5>1
      <4>2. CASE i # s.arr
        BY <2>4, <4>2
      <4>3. QED
        BY <4>1, <4>2
    <3>3. QED
      BY <3>1, <3>2 DEF Kept
  <2>7. \A j \in 1..s.len : n[t.arr][j] = m[s.arr][j]
    <3>1. \A j \in 1..s.len : j \in 1..Len(r) /\ j # s.len + 1
      <4>1. Len(r) \in Nat /\ s.len \in Nat /\ s.len <= Len(r)
        BY <1>1, <1>3, <2>3
      <4>2. QED
        BY <4>1
    <3>2. QED
      BY <2>2, <2>3, <2>4, <3>1
  <2>8. QED
    BY <2>1, <2>2, <2>3, <2>4, <2>5, <2>6, <2>7 DEF a
<1>4. CASE ~(s.len < Len(m[s.arr]))
  <2> DEFINE b == Append(Content(m, s), x)
             r == b \o Zeros(s.len - 1)
             n == Append(m, r)
             t == [arr |-> Len(m) + 1, len |-> s.len + 1]
  <2>1. a.mem = n /\ a.slice = t /\ t.arr = Len(m) + 1 /\ t.len = s.len + 1
    BY <1>4 DEF AppendTo
  <2>2. /\ b \in Seq(Int) /\ Len(b) = s.len + 1 /\ b[s.len + 1] = x
        /\ \A j \in 1..s.len : b[j] = m[s.arr][j]
    BY <1>1, ContentTyped
  <2>3. Zeros(s.len - 1) \in Seq(Int) /\ Len(Zeros(s.len - 1)) = s.len - 1
    BY <1>1, ZerosTyped
  <2>4. /\ r \in Seq(Int) /\ Len(r) = (s.len + 1) + (s.len - 1)
        /\ \A j \in 1..s.len + 1 : r[j] = b[j]
    <3> DEFINE z == Zeros(s.len - 1)
    <3> HIDE DEF b, z
    <3>1. /\ r \in Seq(Int) /\ Len(r) = Len(b) + Len(z)
          /\ \A j \in 1..Len(b) + Len(z) :
               r[j] = IF j <= Len(b) THEN b[j] ELSE z[j - Len(b)]
      BY <2>2, <2>3, ConcatProperties DEF z
    <3>2. Len(b) = s.len + 1 /\ Len(z) = s.len - 1 /\ s.len \in Nat \ {0}
      BY <1>1, <2>2, <2>3 DEF z
    <3>3. \A j \in 1..s.len + 1 : j \in 1..Len(b) + Len(z) /\ j <= Len(b)
      BY <3>2
    <3>4. QED
      BY <3>1, <3>2, <3>3
  <2> HIDE DEF r
  <2>5. /\ n \in Memory /\ Len(n) = Len(m) + 1 /\ n[Len(m) + 1] = r
        /\ \A i \in 1..Len(m) : n[i] = m[i]
    BY <2>4 DEF Memory
  <2> HIDE DEF a, b, n
  <2>6. Slice(n, t)
    <3>1. Len(n) \in Nat /\ Len(m) \in Nat /\ Len(r) \in Nat
      BY <1>1, <2>4, <2>5 DEF Memory
    <3>2. t = [arr |-> t.arr, len |-> t.len] /\ t.arr = Len(n) /\ n[t.arr] = r
      BY <2>1, <2>5
    <3>3. t.len \in 1..Len(r) /\ Len(n) \in 1..Len(n)
      <4>1. Len(n) >= 1 /\ t.len = s.len + 1
        BY <2>1, <2>5, <3>1
      <4>2. s.len + 1 \in 1..(s.len + 1) + (s.len - 1)
        BY <1>1
      <4>3. QED
        BY <2>4, <3>1, <4>1, <4>2
    <3>4. QED
      BY <3>2, <3>3 DEF Slice
  <2>7. Kept(m, n, s.len)
    <3>1. Len(m) \in Nat /\ \A i \in 1..Len(m) : Len(m[i]) \in Nat
      BY <1>2 DEF Memory
    <3>2. QED
      BY <2>5, <3>1 DEF Kept, Grown
  <2>8. \A j \in 1..s.len + 1 : n[t.arr][j] = b[j]
    BY <2>1, <2>4, <2>5
  <2>9. \A j \in 1..s.len : j \in 1..s.len + 1
    BY <1>1
  <2>10. s.len + 1 \in 1..s.len + 1
    BY <1>1
  <2> HIDE DEF t
  <2>11. \A j \in 1..s.len : n[t.arr][j] = m[s.arr][j]
    BY <2>2, <2>8, <2>9
  <2>12. n[t.arr][s.len + 1] = x
    BY <2>2, <2>8, <2>10
  <2> HIDE DEF a
  <2>13. n \in Memory
    BY <2>5
  <2>14. QED
    BY ONLY <2>1, <2>6, <2>7, <2>11, <2>12, <2>13 DEF a
<1>5. QED
  BY <1>3, <1>4

\* What is kept twice is kept.
LEMMA KeptTransitive ==
  ASSUME NEW m \in Memory, NEW n \in Memory, NEW o \in Memory, NEW k \in Nat, NEW l \in Nat,
         k <= l, Kept(m, n, k), Kept(n, o, l)
  PROVE  Kept(m, o, k)
<1>1. /\ Len(m) \in Nat /\ Len(n) \in Nat /\ Len(o) \in Nat
      /\ Len(m) <= Len(n) /\ Len(n) <= Len(o)
  BY DEF Memory, Kept, Grown
<1>2. ASSUME NEW i \in 1..Len(m)
      PROVE  /\ i \in 1..Len(n) /\ i \in 1..Len(o)
             /\ Len(m[i]) \in Nat /\ Len(n[i]) \in Nat /\ Len(o[i]) \in Nat
             /\ Len(m[i]) <= Len(n[i]) /\ Len(n[i]) <= Len(o[i])
  <2>1. i \in 1..Len(n) /\ i \in 1..Len(o)
    BY <1>1
  <2>2. Len(m[i]) \in Nat /\ Len(n[i]) \in Nat /\ Len(o[i]) \in Nat
    BY <2>1 DEF Memory
  <2>3. Len(m[i]) <= Len(n[i]) /\ Len(n[i]) <= Len(o[i])
    BY <2>1 DEF Kept, Grown
  <2>4. QED
    BY <2>1, <2>2, <2>3
<1>3. Grown(m, o)
  <2>1. \A i \in 1..Len(m) : Len(m[i]) <= Len(o[i])
    BY <1>2
  <2>2. QED
    BY <1>1, <2>1 DEF Grown
<1>4. ASSUME NEW i \in 1..Len(m), NEW j \in 1..Len(m[i]), j <= k
      PROVE  o[i][j] = m[i][j]
  <2>1. j \in 1..Len(n[i]) /\ j <= l /\ i \in 1..Len(n)
    BY <1>2, <1>4
  <2>2. n[i][j] = m[i][j]
    BY <1>4 DEF Kept
  <2>3. o[i][j] = n[i][j]
    BY <2>1 DEF Kept
  <2>4. QED
    BY <2>2, <2>3
<1>5. QED
  BY <1>3, <1>4 DEF Kept

LEMMA KeptReflexive ==
  ASSUME NEW m \in Memory, NEW k
  PROVE  Kept(m, m, k)
  BY DEF Kept, Grown, Memory

\* What padding s in m may lead to while s grows to n.
Pads(m, s, n) ==
  {x \in [mem : Memory, slice : [arr : Nat, len : Nat]] :
     /\ Slice(x.mem, x.slice) /\ s.len <= x.slice.len /\ x.slice.len <= n
     /\ Kept(m, x.mem, s.len)
     /\ s.len = n => x = [mem |-> m, slice |-> s]
     /\ \A j \in 1..x.slice.len :
          x.mem[x.slice.arr][j] = IF j <= s.len THEN m[s.arr][j] ELSE 0}

\* A slice may stay as it is ...
LEMMA PadsStart ==
  ASSUME NEW m \in Memory, NEW s, Slice(m, s), NEW n \in Nat, s.len <= n
  PROVE  [mem |-> m, slice |-> s] \in Pads(m, s, n)
<1> DEFINE x == [mem |-> m, slice |-> s]
<1>1. s = [arr |-> s.arr, len |-> s.len] /\ s.arr \in Nat /\ s.len \in Nat
  BY DEF Slice, Memory
<1>2. x \in [mem : Memory, slice : [arr : Nat, len : Nat]] /\ x.mem = m /\ x.slice = s
  <2>1. s \in [arr : Nat, len : Nat]
    BY <1>1
  <2>2. QED
    BY <2>1
<1>3. Kept(m, m, s.len)
  BY KeptReflexive
<1> HIDE DEF x
<1>4. \A j \in 1..s.len : j <= s.len
  BY <1>1
<1>5. x \in Pads(m, s, n)
  BY <1>1, <1>2, <1>3, <1>4 DEF Pads, x
<1>6. QED
  BY <1>5 DEF x

\* ... or get one more zero, while there is room.
LEMMA PadsStep ==
  ASSUME NEW m \in Memory, NEW s, Slice(m, s), NEW n \in Nat, s.len <= n,
         NEW x \in Pads(m, s, n), x.slice.len < n
  PROVE  AppendTo(x.mem, x.slice, 0) \in Pads(m, s, n)
<1> DEFINE l == s.len
           k == x.slice.len
           o == x.mem
           t == x.slice
           a == AppendTo(o, t, 0)
<1>1. o \in Memory /\ Slice(o, t) /\ Kept(m, o, l)
  BY DEF Pads
<1>2. \A j \in 1..k : o[t.arr][j] = IF j <= l THEN m[s.arr][j] ELSE 0
  BY DEF Pads
<1>3. k \in Nat /\ l <= k /\ k < n
  BY DEF Pads
<1>4. l \in Nat
  BY DEF Slice, Memory
<1>5. /\ a.mem \in Memory /\ Slice(a.mem, a.slice) /\ a.slice.len = k + 1 /\ Kept(o, a.mem, k)
      /\ \A j \in 1..k : a.mem[a.slice.arr][j] = o[t.arr][j]
      /\ a.mem[a.slice.arr][k + 1] = 0
  <2>1. 0 \in Int /\ t.len = k
    OBVIOUS
  <2> HIDE DEF o, t, k
  <2>2. QED
    BY ONLY <1>1, <2>1, Appended
<1>6. a \in [mem : Memory, slice : [arr : Nat, len : Nat]]
  <2>1. a.slice = [arr |-> a.slice.arr, len |-> a.slice.len] /\ a.slice.arr \in 1..Len(a.mem)
    BY <1>5 DEF Slice
  <2>2. Len(a.mem) \in Nat
    BY <1>5 DEF Memory
  <2>3. a = [mem |-> a.mem, slice |-> a.slice]
    BY DEF AppendTo
  <2> HIDE DEF a
  <2>4. a.slice.arr \in Nat /\ a.slice.len \in Nat
    BY <1>3, <1>5, <2>1, <2>2
  <2>5. a.slice \in [arr : Nat, len : Nat]
    BY <2>1, <2>4
  <2>6. QED
    BY <1>5, <2>3, <2>5
<1> HIDE DEF a, o, t, k, l
<1>7. Kept(m, a.mem, l)
  BY <1>1, <1>3, <1>4, <1>5, KeptTransitive
<1>8. \A j \in 1..k + 1 : a.mem[a.slice.arr][j] = IF j <= l THEN m[s.arr][j] ELSE 0
  <2>1. ~(k + 1 <= l) /\ \A j \in 1..k + 1 : j = k + 1 \/ j \in 1..k
    BY <1>3, <1>4
  <2>2. QED
    BY <1>2, <1>5, <2>1
<1>9. l # n /\ l <= k + 1 /\ k + 1 <= n
  BY <1>3, <1>4
<1>10. QED
  BY <1>5, <1>6, <1>7, <1>8, <1>9 DEF Pads, a, o, t, l

\* padWithZeros: zeros behind what was there, up to the counter at most.
LEMMA Padded ==
  ASSUME NEW m \in Memory, NEW s, Slice(m, s), NEW n \in Nat, s.len <= n
  PROVE  padWithZeros(m, s, n) \in Pads(m, s, n)
<1> DEFINE P == Pads(m, s, n)
           base == [mem |-> m, slice |-> s]
           Next0(i, x) == IF i - 1 < n - x.slice.len THEN AppendTo(x.mem, x.slice, 0) ELSE x
           step == [i \in 1..n |-> [x \in P |-> Next0(i, x)]]
           S == [i \in 0..n |-> P]
           Is(g) == g = [i \in 0..n |-> IF i = 0 THEN base ELSE Next0(i, g[i - 1])]
<1>1. padWithZeros(m, s, n) = (CHOOSE g : Is(g))[n]
  BY DEF padWithZeros
<1>2. base \in P
  BY PadsStart
<1>3. \A i \in 1..n : \A x \in P : Next0(i, x) \in P
  <2> SUFFICES ASSUME NEW i \in 1..n, NEW x \in P PROVE Next0(i, x) \in P
    OBVIOUS
  <2>1. x.slice.len \in Nat
    BY DEF Pads
  <2>2. CASE i - 1 < n - x.slice.len
    <3>1. x.slice.len < n
      BY <2>1, <2>2
    <3>2. QED
      BY <2>2, <3>1, PadsStep
  <2>3. QED
    BY <2>2
<1> HIDE DEF P, base, Next0
<1>4. PICK f : Steps(f, n, base, step) /\ \A i \in 0..n : f[i] \in S[i]
  <2>1. base \in S[0]
    BY <1>2
  <2>2. \A i \in 1..n : \A x \in S[i - 1] : step[i][x] \in S[i]
    <3>1. \A i \in 1..n : i - 1 \in 0..n /\ i \in 0..n
      OBVIOUS
    <3>2. QED
      BY <1>3, <3>1
  <2> HIDE DEF S, step
  <2>3. QED
    BY <2>1, <2>2, StepsExist
<1>5. Is(f)
  <2>1. \A i \in 0..n : f[i] \in P
    BY <1>4
  <2>2. ASSUME NEW i \in 0..n
        PROVE  f[i] = IF i = 0 THEN base ELSE Next0(i, f[i - 1])
    <3>1. f[i] = IF i = 0 THEN base ELSE step[i][f[i - 1]]
      <4> HIDE DEF step
      <4>1. QED
        BY <1>4 DEF Steps
    <3>2. i # 0 => i \in 1..n /\ i - 1 \in 0..n
      OBVIOUS
    <3>3. i # 0 => step[i][f[i - 1]] = Next0(i, f[i - 1])
      BY <2>1, <3>2
    <3>4. QED
      BY <3>1, <3>3
  <2>3. f = [i \in 0..n |-> f[i]]
    BY <1>4 DEF Steps
  <2> HIDE DEF step
  <2>4. QED
    BY <2>2, <2>3
<1> DEFINE h == CHOOSE g : Is(g)
<1> HIDE DEF Is
<1>6. Is(h)
  BY <1>5
<1> HIDE DEF h
<1>7. \A i \in 0..n : h[i] = IF i = 0 THEN base ELSE Next0(i, h[i - 1])
  BY <1>6 DEF Is
<1>8. \A i \in 0..n : h[i] \in S[i]
  <2>1. h[0] \in S[0]
    BY <1>2, <1>7
  <2>2. ASSUME NEW i \in 1..n, h[i - 1] \in S[i - 1]
        PROVE  h[i] \in S[i]
    <3>1. i \in 0..n /\ i # 0 /\ i - 1 \in 0..n
      OBVIOUS
    <3>2. QED
      BY <1>3, <1>7, <2>2, <3>1
  <2> HIDE DEF S
  <2>3. QED
    BY <2>1, <2>2, StepsKeep
<1>9. QED
  BY <1>1, <1>8 DEF h, P

-----------------------------------------------------------------------------
(***************************************************************************)
(* Who can decrypt.                                                        *)
(***************************************************************************)
\* The nodes of U are open, those of V being so.
Supported(t, A, U, V) ==
  \A p \in U : IF IsLeaf(t, p) THEN t[p] \in A
               ELSE IF t[p] = <<"and">> THEN Append(p, 1) \in V /\ Append(p, 2) \in V
               ELSE Append(p, 1) \in V \/ Append(p, 2) \in V

Solves(g, t, A) ==
  g = [p \in DOMAIN t |->
         IF IsLeaf(t, p) THEN t[p] \in A
         ELSE IF t[p] = <<"and">> THEN g[Append(p, 1)] /\ g[Append(p, 2)]
         ELSE g[Append(p, 1)] \/ g[Append(p, 2)]]

\* Opened has a solution: the nodes of the largest set that supports itself.
LEMMA OpenedSolved ==
  ASSUME NEW t, IsTree(t), NEW A
  PROVE  \E g : Solves(g, t, A)
<1> DEFINE D == DOMAIN t
           M == UNION {U \in SUBSET D : Supported(t, A, U, U)}
           g == [p \in D |-> p \in M]
           rhs(p) == IF IsLeaf(t, p) THEN t[p] \in A
                     ELSE IF t[p] = <<"and">> THEN g[Append(p, 1)] /\ g[Append(p, 2)]
                     ELSE g[Append(p, 1)] \/ g[Append(p, 2)]
<1>1. Supported(t, A, M, M)
  <2> SUFFICES ASSUME NEW p \in M
               PROVE  IF IsLeaf(t, p) THEN t[p] \in A
                      ELSE IF t[p] = <<"and">> THEN Append(p, 1) \in M /\ Append(p, 2) \in M
                      ELSE Append(p, 1) \in M \/ Append(p, 2) \in M
    BY DEF Supported
  <2>1. PICK U \in SUBSET D : p \in U /\ Supported(t, A, U, U)
    OBVIOUS
  <2>2. U \subseteq M
    BY <2>1
  <2> HIDE DEF M
  <2>3. QED
    BY <2>1, <2>2 DEF Supported
<1>2. ASSUME NEW p \in D, Supported(t, A, {p}, M)
      PROVE  p \in M
  <2> DEFINE U == M \cup {p}
  <2>1. Supported(t, A, U, U)
    <3> HIDE DEF M
    <3>1. QED
      BY <1>1, <1>2 DEF Supported
  <2>2. U \in SUBSET D
    OBVIOUS
  <2>3. QED
    BY <2>1, <2>2
<1>3. \A p \in D : ~IsLeaf(t, p) => Append(p, 1) \in D /\ Append(p, 2) \in D
  BY DEF IsTree, IsLeaf
<1>4. M \subseteq D
  OBVIOUS
<1> HIDE DEF M
<1>5. ASSUME NEW p \in D
      PROVE  g[p] = rhs(p)
  <2>1. g[p] = (p \in M)
    OBVIOUS
  <2>2. CASE IsLeaf(t, p)
    <3>1. p \in M <=> t[p] \in A
      BY <1>1, <1>2, <2>2 DEF Supported
    <3>2. QED
      BY <2>2, <3>1
  <2>3. CASE ~IsLeaf(t, p) /\ t[p] = <<"and">>
    <3>1. p \in M <=> Append(p, 1) \in M /\ Append(p, 2) \in M
      BY <1>1, <1>2, <2>3 DEF Supported
    <3>2. g[Append(p, 1)] = (Append(p, 1) \in M) /\ g[Append(p, 2)] = (Append(p, 2) \in M)
      BY <1>3, <2>3
    <3> HIDE DEF g
    <3>3. rhs(p) = (g[Append(p, 1)] /\ g[Append(p, 2)])
      BY <2>3, Zenon
    <3>4. (p \in M) = (g[Append(p, 1)] /\ g[Append(p, 2)])
      <4>1. (p \in M) = (Append(p, 1) \in M /\ Append(p, 2) \in M)
        BY <3>1
      <4>2. QED
        BY <3>2, <4>1, Zenon
    <3> HIDE DEF rhs
    <3>5. QED
      BY <2>1, <3>3, <3>4, Zenon
  <2>4. CASE ~IsLeaf(t, p) /\ t[p] # <<"and">>
    <3>1. p \in M <=> Append(p, 1) \in M \/ Append(p, 2) \in M
      BY <1>1, <1>2, <2>4 DEF Supported
    <3>2. g[Append(p, 1)] = (Append(p, 1) \in M) /\ g[Append(p, 2)] = (Append(p, 2) \in M)
      BY <1>3, <2>4
    <3> HIDE DEF g
    <3>3. rhs(p) = (g[Append(p, 1)] \/ g[Append(p, 2)])
      BY <2>4, Zenon
    <3>4. (p \in M) = (g[Append(p, 1)] \/ g[Append(p, 2)])
      <4>1. (p \in M) = (Append(p, 1) \in M \/ Append(p, 2) \in M)
        BY <3>1
      <4>2. QED
        BY <3>2, <4>1, Zenon
    <3> HIDE DEF rhs
    <3>5. QED
      BY <2>1, <3>3, <3>4, Zenon
  <2>5. QED
    BY <2>2, <2>3, <2>4
<1>6. g = [p \in D |-> rhs(p)]
  <2> HIDE DEF rhs
  <2>1. QED
    BY <1>5
<1>7. Solves(g, t, A)
  BY <1>6 DEF Solves
<1>8. QED
  BY <1>7

\* A leaf is open for those who hold its label, an AND where both of its
\* children are, an OR where one is.
LEMMA OpenNodes ==
  ASSUME NEW t, IsTree(t), NEW A, NEW p \in DOMAIN t
  PROVE  LET o == Opened(t, A) IN
           o[p] <=> IF IsLeaf(t, p) THEN t[p] \in A
                    ELSE IF t[p] = <<"and">> THEN o[Append(p, 1)] /\ o[Append(p, 2)]
                    ELSE o[Append(p, 1)] \/ o[Append(p, 2)]
<1>1. Opened(t, A) = CHOOSE g : Solves(g, t, A)
  BY DEF Opened, Solves
<1>2. Solves(Opened(t, A), t, A)
  BY <1>1, OpenedSolved
<1> DEFINE o == Opened(t, A)
<1> HIDE DEF o
<1>3. o[p] = IF IsLeaf(t, p) THEN t[p] \in A
             ELSE IF t[p] = <<"and">> THEN o[Append(p, 1)] /\ o[Append(p, 2)]
             ELSE o[Append(p, 1)] \/ o[Append(p, 2)]
  BY <1>2, Zenon DEF Solves, o
<1>4. QED
  BY <1>3 DEF o

-----------------------------------------------------------------------------
(***************************************************************************)
(* The product of the first n entries of v and w.                          *)
(***************************************************************************)
Dot(v, n, w) == Total([j \in 1..n |-> v[j] * w[j]], 1..n)

Integral(v, n) == \A j \in 1..n : v[j] \in Int

\* The products are integers, and so is their sum.
LEMMA Products ==
  ASSUME NEW n \in Nat, NEW v, NEW w, Integral(v, n), Integral(w, n)
  PROVE  /\ IsFiniteSet(1..n)
         /\ \A j \in 1..n : [i \in 1..n |-> v[i] * w[i]][j] = v[j] * w[j] /\ v[j] * w[j] \in Int
         /\ Dot(v, n, w) \in Int
<1>1. IsFiniteSet(1..n)
  BY FS_Interval
<1> DEFINE f == [i \in 1..n |-> v[i] * w[i]]
<1>2. \A j \in 1..n : f[j] = v[j] * w[j] /\ f[j] \in Int
  BY DEF Integral
<1>3. Total(f, 1..n) \in Int
  <2> HIDE DEF f
  <2>1. QED
    BY <1>1, <1>2, TotalTyped
<1>4. QED
  BY <1>1, <1>2, <1>3 DEF Dot

\* Equal entries, equal products.
LEMMA DotEqual ==
  ASSUME NEW n \in Nat, NEW v, NEW w, NEW u, NEW x, Integral(v, n), Integral(w, n),
         \A j \in 1..n : u[j] = v[j] /\ x[j] = w[j]
  PROVE  Dot(u, n, x) = Dot(v, n, w)
<1> DEFINE N == 1..n
           f == [j \in 1..n |-> v[j] * w[j]]
           g == [j \in 1..n |-> u[j] * x[j]]
<1>1. \A j \in N : f[j] \in Int /\ f[j] = g[j]
  BY DEF Integral
<1>2. IsFiniteSet(N)
  BY FS_Interval
<1> HIDE DEF f, g, N
<1>3. Total(f, N) = Total(g, N)
  BY <1>1, <1>2, TotalsEqual
<1>4. QED
  BY <1>3 DEF Dot, f, g, N

\* Entries of zero do not count.
LEMMA DotOfPadded ==
  ASSUME NEW n \in Nat, NEW k \in 0..n, NEW v, NEW w, Integral(v, n), Integral(w, n),
         \A j \in (k + 1)..n : v[j] = 0
  PROVE  Dot(v, n, w) = Dot(v, k, w)
<1> DEFINE N == 1..n
           K == 1..k
           f == [j \in N |-> v[j] * w[j]]
           g == [j \in K |-> v[j] * w[j]]
<1>1. K \in SUBSET N /\ \A j \in N \ K : j \in (k + 1)..n
  OBVIOUS
<1>2. \A j \in N : f[j] \in Int
  BY DEF Integral
<1>3. \A j \in N \ K : f[j] = 0
  <2>1. \A j \in N \ K : f[j] = v[j] * w[j] /\ v[j] = 0 /\ w[j] \in Int
    BY <1>1 DEF Integral
  <2>2. QED
    BY <2>1
<1>4. \A j \in K : f[j] \in Int /\ f[j] = g[j]
  BY <1>1, <1>2
<1>5. IsFiniteSet(N) /\ IsFiniteSet(K)
  BY FS_Interval
<1> HIDE DEF f, g, N, K
<1>6. Total(f, K) = Total(f, N)
  BY <1>1, <1>2, <1>3, <1>5, TotalWithoutZeros
<1>7. Total(f, K) = Total(g, K)
  BY <1>4, <1>5, TotalsEqual
<1>8. QED
  BY <1>6, <1>7 DEF Dot, f, g, N, K

\* One more entry adds one more product.
LEMMA DotOfAppended ==
  ASSUME NEW n \in Nat, NEW v, NEW w, Integral(v, n + 1), Integral(w, n + 1)
  PROVE  Dot(v, n + 1, w) = Dot(v, n, w) + v[n + 1] * w[n + 1]
<1> DEFINE N == 1..n
           M == 1..n + 1
           m == n + 1
           p == v[m] * w[m]
           f == [j \in M |-> v[j] * w[j]]
           g == [j \in N |-> v[j] * w[j]]
<1>1. N \in SUBSET M /\ m \in M \ N /\ N \cup {m} = M
  OBVIOUS
<1>2. \A j \in M : f[j] \in Int
  BY DEF Integral
<1>3. \A j \in N : f[j] \in Int /\ f[j] = g[j]
  BY <1>1, <1>2
<1>4. f[m] = p /\ f[m] \in Int
  BY <1>1, <1>2
<1>5. IsFiniteSet(N) /\ IsFiniteSet(M)
  BY FS_Interval
<1> HIDE DEF f, g, N, M, m, p
<1>6. Total(f, M) = f[m] + Total(f, N)
  <2>1. Total(f, N \cup {m}) = f[m] + Total(f, N)
    BY <1>1, <1>2, <1>5, TotalWithOneMore
  <2>2. QED
    BY <1>1, <2>1
<1>7. Total(f, N) = Total(g, N) /\ Total(f, N) \in Int
  BY <1>3, <1>5, TotalsEqual, TotalTyped
<1>8. Total(f, M) = Total(g, N) + p
  BY <1>4, <1>6, <1>7
<1>9. QED
  BY <1>8 DEF Dot, f, g, N, M, m, p

-----------------------------------------------------------------------------
(***************************************************************************)
(* Coefficients are integers, one for each row.                            *)
(***************************************************************************)
Matrix(n, m) == [1..n -> [1..m -> Int]]

\* A row of n entries is a sequence of that length.
LEMMA VectorLength ==
  ASSUME NEW n \in Nat, NEW S, NEW v \in [1..n -> S]
  PROVE  Len(v) = n /\ v \in Seq(S) /\ DOMAIN v = 1..n
  OBVIOUS

LEMMA Quotient ==
  ASSUME NEW x \in Int, NEW d \in Nat \ {0}
  PROVE  x \div d \in Int
  OBVIOUS

LEMMA UnitTyped ==
  ASSUME NEW m \in Nat, NEW k
  PROVE  Unit(m, k) \in [1..m -> Int]
  BY DEF Unit

LEMMA MinusTyped ==
  ASSUME NEW m \in Nat, NEW x \in [1..m -> Int], NEW b \in Int, NEW y \in [1..m -> Int]
  PROVE  Minus(x, b, y) \in [1..m -> Int]
<1>1. \A j \in 1..m : x[j] - b * y[j] \in Int
  OBVIOUS
<1>2. QED
  BY <1>1 DEF Minus

\* Two rows change places, or one is replaced: the matrix keeps its shape.
LEMMA Exchanged ==
  ASSUME NEW n \in Nat, NEW S, NEW x \in [1..n -> S], NEW i \in 1..n, NEW k \in 1..n
  PROVE  LET y == [x EXCEPT ![i] = x[k], ![k] = x[i]]
         IN  y \in [1..n -> S] /\ y[k] = x[i]
  OBVIOUS

LEMMA Replaced ==
  ASSUME NEW n \in Nat, NEW S, NEW x \in [1..n -> S], NEW k \in 1..n, NEW w \in S
  PROVE  [x EXCEPT ![k] = w] \in [1..n -> S] /\ [x EXCEPT ![k] = w][k] = w
  OBVIOUS

\* The pivots are chosen among the indices that have one.
LEMMA LeastIndex ==
  ASSUME NEW S, S \subseteq Nat, S # {}
  PROVE  (CHOOSE j \in S : \A l \in S : j <= l) \in S
  BY LeastNatural

\* The states of the elimination that have at least k columns of pivots left.
HermiteStates(n, m, l) ==
  {st \in [a : Matrix(n, m), u : Matrix(n, n), k : Nat] : l <= st.k /\ st.k <= n}

\* hermiteNormalForm keeps rows of integers, and uses up one pivot a column at
\* most, so that its pivot is a row to the end.
LEMMA HermiteColumnTyped ==
  ASSUME NEW n \in Nat \ {0}, NEW m \in Nat \ {0}, NEW l \in Nat \ {0},
         NEW st \in HermiteStates(n, m, l), NEW i \in 1..m
  PROVE  HermiteColumn(st, i) \in HermiteStates(n, m, l - 1)
<1> DEFINE nz  == {j \in 1..(st.k - 1) : st.a[j][i] # 0}
           j0  == IF nz = {} THEN st.k ELSE CHOOSE j \in nz : \A h \in nz : j <= h
           swap(x) == [x EXCEPT ![j0] = x[st.k], ![st.k] = x[j0]]
           neg == swap(st.a)[st.k][i] < 0
           signed(x) == [swap(x) EXCEPT ![st.k] = IF neg THEN [h \in DOMAIN @ |-> -@[h]] ELSE @]
           a   == signed(st.a)
           p   == a[st.k][i]
           by(j) == IF j < st.k /\ nz # {} THEN (2 * a[j][i] + p) \div (2 * p)
                    ELSE IF j > st.k /\ p # 0 THEN a[j][i] \div p ELSE 0
           reduce(x) == [j \in 1..n |-> IF by(j) = 0 THEN x[j] ELSE Minus(x[j], by(j), x[st.k])]
           k == IF p = 0 THEN st.k ELSE st.k - 1
           result == [a |-> reduce(a), u |-> reduce(signed(st.u)), k |-> k]
<1>1. /\ st.a \in Matrix(n, m) /\ st.u \in Matrix(n, n)
      /\ st.k \in 1..n /\ l <= st.k /\ st.k \in Nat
  BY DEF HermiteStates
<1>2. HermiteColumn(st, i) = result
  <2>1. Len(st.a) = n
    BY <1>1, VectorLength DEF Matrix
  <2>2. QED
    BY <2>1 DEF HermiteColumn
<1>3. nz # {} => j0 \in nz
  <2>1. nz \subseteq Nat
    OBVIOUS
  <2> HIDE DEF nz
  <2>2. QED
    BY <2>1, LeastIndex
<1>4. j0 \in 1..n
  BY <1>1, <1>3
<1>5. ASSUME NEW d \in Nat, NEW x \in Matrix(n, d)
      PROVE  swap(x) \in Matrix(n, d) /\ swap(x)[st.k] = x[j0]
  <2> HIDE DEF j0
  <2>1. QED
    BY <1>1, <1>4, Exchanged DEF Matrix
<1> DEFINE Signed(y) == [y EXCEPT ![st.k] = IF neg THEN [h \in DOMAIN @ |-> -@[h]] ELSE @]
<1>6. ASSUME NEW d \in Nat, NEW y \in Matrix(n, d)
      PROVE  /\ Signed(y) \in Matrix(n, d)
             /\ Signed(y)[st.k] = IF neg THEN [h \in 1..d |-> -y[st.k][h]] ELSE y[st.k]
  <2> DEFINE v == y[st.k]
             w == IF neg THEN [h \in DOMAIN v |-> -v[h]] ELSE v
  <2>1. v \in [1..d -> Int]
    BY <1>1 DEF Matrix
  <2> HIDE DEF neg
  <2>2. w \in [1..d -> Int] /\ w = IF neg THEN [h \in 1..d |-> -v[h]] ELSE v
    <3>1. DOMAIN v = 1..d
      BY <2>1
    <3>2. w = IF neg THEN [h \in 1..d |-> -v[h]] ELSE v
      BY <3>1
    <3>3. [h \in 1..d |-> -v[h]] \in [1..d -> Int]
      BY <2>1
    <3> HIDE DEF v, w
    <3>4. QED
      BY ONLY <2>1, <3>2, <3>3
  <2>3. Signed(y) = [y EXCEPT ![st.k] = w]
    BY <1>1 DEF Matrix
  <2>4. y \in [1..n -> [1..d -> Int]] /\ st.k \in 1..n
    BY <1>1 DEF Matrix
  <2> HIDE DEF w, Signed
  <2>5. Signed(y) \in [1..n -> [1..d -> Int]] /\ Signed(y)[st.k] = w
    <3> HIDE DEF v
    <3>1. QED
      BY <2>2, <2>3, <2>4, Replaced
  <2>6. QED
    BY <2>2, <2>5 DEF Matrix
<1>7. ASSUME NEW d \in Nat, NEW x \in Matrix(n, d)
      PROVE  signed(x) \in Matrix(n, d)
  <2>1. signed(x) = Signed(swap(x))
    OBVIOUS
  <2> HIDE DEF swap, Signed, signed
  <2>2. QED
    BY <1>5, <1>6, <2>1
<1>8. a \in Matrix(n, m) /\ signed(st.u) \in Matrix(n, n)
  <2> HIDE DEF signed
  <2>1. QED
    BY <1>1, <1>7
<1>9. p \in Nat /\ (nz # {} => p # 0)
  <2> DEFINE b == swap(st.a)
             x == b[st.k][i]
  <2>1. b \in Matrix(n, m) /\ b[st.k] = st.a[j0]
    <3> HIDE DEF swap
    <3>1. QED
      BY <1>1, <1>5
  <2>2. x \in Int
    <3> HIDE DEF b
    <3>1. QED
      BY <1>1, <2>1 DEF Matrix
  <2>3. nz # {} => x # 0
    <3>1. nz # {} => st.a[j0][i] # 0
      BY <1>3
    <3>2. QED
      BY <2>1, <3>1
  <2>4. neg = (x < 0) /\ a = Signed(b)
    OBVIOUS
  <2> HIDE DEF b, Signed, neg, a
  <2>5. a[st.k] = IF neg THEN [h \in 1..m |-> -b[st.k][h]] ELSE b[st.k]
    BY <1>6, <2>1, <2>4
  <2>6. p = IF x < 0 THEN -x ELSE x
    BY <2>4, <2>5
  <2> HIDE DEF p, x, nz
  <2>7. QED
    BY <2>2, <2>3, <2>6
<1>10. ASSUME NEW j \in 1..n
       PROVE  by(j) \in Int
  <2>1. a[j][i] \in Int
    <3> HIDE DEF a, signed
    <3>1. QED
      BY <1>8 DEF Matrix
  <2> HIDE DEF a, p, nz
  <2>2. CASE j < st.k /\ nz # {}
    <3>1. 2 * a[j][i] + p \in Int /\ 2 * p \in Nat \ {0}
      BY <1>9, <2>1, <2>2
    <3>2. QED
      BY <2>2, <3>1, Quotient
  <2>3. CASE ~(j < st.k /\ nz # {}) /\ j > st.k /\ p # 0
    BY <1>9, <2>1, <2>3, Quotient
  <2>4. CASE ~(j < st.k /\ nz # {}) /\ ~(j > st.k /\ p # 0)
    BY <2>4
  <2>5. QED
    BY <2>2, <2>3, <2>4
<1>11. ASSUME NEW d \in Nat, NEW x \in Matrix(n, d)
       PROVE  reduce(x) \in Matrix(n, d)
  <2> HIDE DEF by
  <2>1. ASSUME NEW j \in 1..n
        PROVE  (IF by(j) = 0 THEN x[j] ELSE Minus(x[j], by(j), x[st.k])) \in [1..d -> Int]
    <3>1. x[j] \in [1..d -> Int] /\ x[st.k] \in [1..d -> Int]
      BY <1>1 DEF Matrix
    <3>2. Minus(x[j], by(j), x[st.k]) \in [1..d -> Int]
      BY <1>10, <3>1, MinusTyped
    <3>3. QED
      BY <3>1, <3>2
  <2>2. QED
    BY <2>1 DEF Matrix
<1>12. reduce(a) \in Matrix(n, m) /\ reduce(signed(st.u)) \in Matrix(n, n)
  <2> HIDE DEF a, signed, reduce
  <2>1. QED
    BY <1>8, <1>11
<1>13. k \in Nat /\ l - 1 <= k /\ k <= n
  <2> HIDE DEF p
  <2>1. QED
    BY <1>1
<1>14. result \in HermiteStates(n, m, l - 1)
  <2> DEFINE x == reduce(a)
             y == reduce(signed(st.u))
  <2>1. result = [a |-> x, u |-> y, k |-> k]
    OBVIOUS
  <2>2. x \in Matrix(n, m) /\ y \in Matrix(n, n)
    BY <1>12
  <2> HIDE DEF x, y, k, result
  <2>3. QED
    BY <1>13, <2>1, <2>2 DEF HermiteStates
<1>15. QED
  BY <1>2, <1>14

\* The unit rows it transforms, after all columns ...
LEMMA HermiteTyped ==
  ASSUME NEW n \in Nat \ {0}, NEW m \in Nat \ {0}, NEW a \in Matrix(n, m),
         NEW q \in 1..n, q <= m
  PROVE  hermiteNormalForm(a, q).u \in Matrix(n, n)
<1> DEFINE base == [a |-> a, u |-> [i \in 1..n |-> Unit(n, i)], k |-> n]
           Go(s, x) == HermiteColumn(x, m + 1 - s)
           S == [s \in 0..q |-> HermiteStates(n, m, n - s)]
           step == [s \in 1..q |-> [x \in S[s - 1] |-> Go(s, x)]]
           Is(g) == g = [s \in 0..q |-> IF s = 0 THEN base ELSE Go(s, g[s - 1])]
<1>1. hermiteNormalForm(a, q) = (CHOOSE g : Is(g))[q]
  <2>1. Len(a) = n /\ Len(a[1]) = m
    <3>1. a \in [1..n -> [1..m -> Int]] /\ a[1] \in [1..m -> Int]
      BY DEF Matrix
    <3>2. QED
      BY <3>1, VectorLength
  <2>2. QED
    BY <2>1 DEF hermiteNormalForm
<1>2. base \in S[0]
  <2> DEFINE u == [i \in 1..n |-> Unit(n, i)]
  <2>1. u \in Matrix(n, n)
    BY UnitTyped DEF Matrix
  <2>2. base = [a |-> a, u |-> u, k |-> n] /\ S[0] = HermiteStates(n, m, n)
    OBVIOUS
  <2> HIDE DEF u, base, S
  <2>3. QED
    BY <2>1, <2>2 DEF HermiteStates
<1>3. \A s \in 1..q : \A x \in S[s - 1] : Go(s, x) \in S[s]
  <2> SUFFICES ASSUME NEW s \in 1..q, NEW x \in S[s - 1] PROVE Go(s, x) \in S[s]
    OBVIOUS
  <2>1. S[s - 1] = HermiteStates(n, m, n - (s - 1)) /\ S[s] = HermiteStates(n, m, n - s)
    OBVIOUS
  <2>2. n - (s - 1) \in Nat \ {0} /\ m + 1 - s \in 1..m /\ (n - (s - 1)) - 1 = n - s
    OBVIOUS
  <2> HIDE DEF S
  <2>3. QED
    BY <2>1, <2>2, HermiteColumnTyped
<1> HIDE DEF base, Go
<1>4. PICK f : Steps(f, q, base, step) /\ \A s \in 0..q : f[s] \in S[s]
  <2>1. \A s \in 1..q : \A x \in S[s - 1] : step[s][x] \in S[s]
    <3> SUFFICES ASSUME NEW s \in 1..q, NEW x \in S[s - 1] PROVE step[s][x] \in S[s]
      OBVIOUS
    <3> HIDE DEF S
    <3>1. step[s][x] = Go(s, x)
      OBVIOUS
    <3>2. QED
      BY <1>3, <3>1
  <2>2. q \in Nat
    OBVIOUS
  <2> HIDE DEF S, step
  <2>3. QED
    BY <1>2, <2>1, <2>2, StepsExist
<1>5. Is(f)
  <2> HIDE DEF S
  <2>1. ASSUME NEW s \in 0..q
        PROVE  f[s] = IF s = 0 THEN base ELSE Go(s, f[s - 1])
    <3>1. f[s] = IF s = 0 THEN base ELSE step[s][f[s - 1]]
      <4> HIDE DEF step
      <4>1. QED
        BY <1>4 DEF Steps
    <3>2. s # 0 => s \in 1..q /\ s - 1 \in 0..q
      OBVIOUS
    <3>3. s # 0 => step[s][f[s - 1]] = Go(s, f[s - 1])
      BY <1>4, <3>2
    <3>4. QED
      BY <3>1, <3>3
  <2>2. f = [s \in 0..q |-> f[s]]
    BY <1>4 DEF Steps
  <2> HIDE DEF step
  <2>3. QED
    BY <2>1, <2>2
<1> DEFINE h == CHOOSE g : Is(g)
<1> HIDE DEF Is
<1>6. Is(h)
  BY <1>5
<1> HIDE DEF h
<1>7. \A s \in 0..q : h[s] = IF s = 0 THEN base ELSE Go(s, h[s - 1])
  BY <1>6 DEF Is
<1> HIDE DEF S
<1>8. \A s \in 0..q : h[s] \in S[s]
  <2>1. h[0] \in S[0]
    BY <1>2, <1>7
  <2>2. ASSUME NEW s \in 1..q, h[s - 1] \in S[s - 1]
        PROVE  h[s] \in S[s]
    <3>1. s \in 0..q /\ s # 0
      OBVIOUS
    <3>2. QED
      BY <1>3, <1>7, <2>2, <3>1
  <2>3. QED
    BY <2>1, <2>2, StepsKeep
<1>9. h[q] \in HermiteStates(n, m, n - q)
  BY <1>8 DEF S
<1>10. QED
  BY <1>1, <1>9 DEF h, HermiteStates

\* ... one of which holds the coefficients.
LEMMA HNFTyped ==
  ASSUME NEW n \in Nat \ {0}, NEW m \in Nat \ {0}, NEW a \in Matrix(n, m)
  PROVE  computeCoefficientsHNF(a) \in [1..n -> Int]
<1> DEFINE q == IF m > n THEN n ELSE m
<1>1. Len(a) = n /\ Len(a[1]) = m
  <2>1. a \in [1..n -> [1..m -> Int]] /\ a[1] \in [1..m -> Int]
    BY DEF Matrix
  <2>2. QED
    BY <2>1, VectorLength
<1>2. computeCoefficientsHNF(a) = hermiteNormalForm(a, q).u[n - q + 1]
  BY <1>1 DEF computeCoefficientsHNF
<1>3. q \in 1..n /\ q <= m /\ n - q + 1 \in 1..n
  OBVIOUS
<1> HIDE DEF q
<1>4. hermiteNormalForm(a, q).u \in Matrix(n, n)
  BY <1>3, HermiteTyped
<1>5. QED
  BY <1>2, <1>3, <1>4 DEF Matrix

-----------------------------------------------------------------------------
EliminationStates(m, w) == [pivot : 1..m + 1, eq : Matrix(m, w)]

\* Gauss-Jordan elimination keeps its equations in integers ...
LEMMA EliminateTyped ==
  ASSUME NEW m \in Nat, NEW w \in Nat, NEW st \in EliminationStates(m, w), NEW col \in 1..w
  PROVE  Eliminate(st, col) \in EliminationStates(m, w)
<1> DEFINE nz == {r \in st.pivot..m : st.eq[r][col] # 0}
           r0 == CHOOSE r \in nz : \A s \in nz : r <= s
           e  == [st.eq EXCEPT ![st.pivot] = st.eq[r0], ![r0] = st.eq[st.pivot]]
           pv == e[st.pivot]
           eq == [r \in DOMAIN e |->
                     IF r = st.pivot THEN pv
                     ELSE [j \in DOMAIN pv |-> pv[col] * e[r][j] - e[r][col] * pv[j]]]
<1>1. st.eq \in Matrix(m, w) /\ st.pivot \in 1..m + 1
  BY DEF EliminationStates
<1>2. Eliminate(st, col) = IF nz = {} THEN st ELSE [pivot |-> st.pivot + 1, eq |-> eq]
  <2>1. Len(st.eq) = m
    BY <1>1, VectorLength DEF Matrix
  <2>2. QED
    BY <2>1 DEF Eliminate
<1>3. CASE nz # {}
  <2>1. r0 \in nz /\ nz \subseteq 1..m
    <3>1. nz \subseteq Nat /\ nz \subseteq 1..m
      BY <1>1
    <3> HIDE DEF nz
    <3>2. QED
      BY <1>3, <3>1, LeastIndex
  <2>2. r0 \in 1..m /\ st.pivot \in 1..m
    <3> HIDE DEF r0
    <3>1. r0 \in st.pivot..m /\ r0 \in 1..m
      BY <2>1
    <3>2. QED
      BY <1>1, <3>1
  <2>3. e \in Matrix(m, w)
    <3> HIDE DEF r0
    <3>1. QED
      BY <1>1, <2>2, Exchanged DEF Matrix
  <2> HIDE DEF e, nz, r0
  <2>4. pv \in [1..w -> Int] /\ DOMAIN e = 1..m /\ DOMAIN pv = 1..w
    BY <2>2, <2>3 DEF Matrix
  <2>5. ASSUME NEW r \in 1..m
        PROVE  (IF r = st.pivot THEN pv
                ELSE [j \in 1..w |-> pv[col] * e[r][j] - e[r][col] * pv[j]]) \in [1..w -> Int]
    <3>1. e[r] \in [1..w -> Int]
      BY <2>3 DEF Matrix
    <3> HIDE DEF pv
    <3>2. \A j \in 1..w : pv[col] * e[r][j] - e[r][col] * pv[j] \in Int
      BY <2>4, <3>1
    <3>3. QED
      BY <2>4, <3>2
  <2>6. eq \in Matrix(m, w)
    <3> HIDE DEF pv
    <3>1. QED
      BY <2>4, <2>5 DEF Matrix
  <2>7. st.pivot + 1 \in 1..m + 1
    BY <2>2
  <2> HIDE DEF eq
  <2>8. QED
    BY <1>2, <1>3, <2>6, <2>7 DEF EliminationStates, nz
<1>4. QED
  <2> HIDE DEF nz, eq
  <2>1. QED
    BY <1>2, <1>3

\* ... for all columns, and its pivot among them or one past the last.
LEMMA EliminationTyped ==
  ASSUME NEW n \in Nat \ {0}, NEW m \in Nat \ {0}, NEW eqs \in Matrix(m, n + 1)
  PROVE  Elimination(eqs, n) \in EliminationStates(m, n + 1)
<1> DEFINE E == EliminationStates(m, n + 1)
           base == [pivot |-> 1, eq |-> eqs]
           step == [s \in 1..n |-> [x \in E |-> Eliminate(x, s)]]
           S == [s \in 0..n |-> E]
           Is(g) == g = [s \in 0..n |-> IF s = 0 THEN base ELSE Eliminate(g[s - 1], s)]
<1>1. Elimination(eqs, n) = (CHOOSE g : Is(g))[n]
  BY DEF Elimination
<1>2. base \in E
  <2>1. 1 \in 1..m + 1
    OBVIOUS
  <2>2. QED
    BY <2>1 DEF EliminationStates
<1>3. \A s \in 1..n : \A x \in E : Eliminate(x, s) \in E
  <2>1. \A s \in 1..n : s \in 1..n + 1
    OBVIOUS
  <2>2. m \in Nat /\ n + 1 \in Nat
    OBVIOUS
  <2>3. QED
    BY <2>1, <2>2, EliminateTyped
<1> HIDE DEF E, base
<1>4. PICK f : Steps(f, n, base, step) /\ \A s \in 0..n : f[s] \in S[s]
  <2>1. base \in S[0]
    BY <1>2
  <2>2. \A s \in 1..n : \A x \in S[s - 1] : step[s][x] \in S[s]
    <3>1. \A s \in 1..n : s - 1 \in 0..n /\ s \in 0..n
      OBVIOUS
    <3>2. QED
      BY <1>3, <3>1
  <2> HIDE DEF S, step
  <2>3. QED
    BY <2>1, <2>2, StepsExist
<1>5. Is(f)
  <2>1. \A s \in 0..n : f[s] \in E
    BY <1>4
  <2>2. ASSUME NEW s \in 0..n
        PROVE  f[s] = IF s = 0 THEN base ELSE Eliminate(f[s - 1], s)
    <3>1. f[s] = IF s = 0 THEN base ELSE step[s][f[s - 1]]
      <4> HIDE DEF step
      <4>1. QED
        BY <1>4 DEF Steps
    <3>2. s # 0 => s \in 1..n /\ s - 1 \in 0..n
      OBVIOUS
    <3>3. s # 0 => step[s][f[s - 1]] = Eliminate(f[s - 1], s)
      BY <2>1, <3>2
    <3>4. QED
      BY <3>1, <3>3
  <2>3. f = [s \in 0..n |-> f[s]]
    BY <1>4 DEF Steps
  <2> HIDE DEF step
  <2>4. QED
    BY <2>2, <2>3
<1> DEFINE h == CHOOSE g : Is(g)
<1> HIDE DEF Is
<1>6. Is(h)
  BY <1>5
<1> HIDE DEF h
<1>7. \A s \in 0..n : h[s] = IF s = 0 THEN base ELSE Eliminate(h[s - 1], s)
  BY <1>6 DEF Is
<1>8. \A s \in 0..n : h[s] \in S[s]
  <2>1. h[0] \in S[0]
    BY <1>2, <1>7
  <2>2. ASSUME NEW s \in 1..n, h[s - 1] \in S[s - 1]
        PROVE  h[s] \in S[s]
    <3>1. s \in 0..n /\ s # 0 /\ s - 1 \in 0..n
      OBVIOUS
    <3>2. QED
      BY <1>3, <1>7, <2>2, <3>1
  <2> HIDE DEF S
  <2>3. QED
    BY <2>1, <2>2, StepsKeep
<1>9. QED
  BY <1>1, <1>8 DEF h, E

-----------------------------------------------------------------------------
\* The values of the unknowns: numerators over a common denominator.
Fractions(n) == {st \in [num : [1..n -> Int], den : Int] : st.den # 0}

\* The choices of a greatest index are among the indices.
LEMMA GreatestIndex ==
  ASSUME NEW n \in Nat, NEW S, S \subseteq 1..n, S # {}
  PROVE  /\ (CHOOSE j \in S : \A l \in S : l <= j) \in S
         /\ (CHOOSE j \in S : \A l \in S : j >= l) \in S
<1> DEFINE R == {n - j : j \in S}
<1>1. R \subseteq Nat /\ R # {}
  <2>1. \A j \in S : j \in Nat /\ n - j \in Nat
    OBVIOUS
  <2>2. QED
    BY <2>1
<1>2. PICK r \in R : \A l \in R : r <= l
  <2> HIDE DEF R
  <2>1. QED
    BY <1>1, LeastNatural
<1>3. PICK j \in S : r = n - j
  BY <1>2
<1>4. \A l \in S : l <= j /\ j >= l
  BY <1>2, <1>3
<1>5. QED
  BY <1>3, <1>4

\* Back substitution keeps integers over an integer that is not zero ...
LEMMA SubstituteTyped ==
  ASSUME NEW n \in Nat \ {0}, NEW m \in Nat, NEW eq \in Matrix(m, n + 1),
         NEW st \in Fractions(n), NEW r \in 1..m
  PROVE  Substitute(eq, st, r) \in Fractions(n)
<1> DEFINE nz == {j \in 1..n : eq[r][j] # 0}
           p  == CHOOSE j \in nz : \A l \in nz : l <= j
           f  == [j \in 1..n |-> eq[r][j] * st.num[j]]
           v  == eq[r][n+1] * st.den - Total(f, (p+1)..n)
           num == [j \in 1..n |-> IF j = p THEN v ELSE st.num[j] * eq[r][p]]
           den == st.den * eq[r][p]
<1>1. st.num \in [1..n -> Int] /\ st.den \in Int /\ st.den # 0
  BY DEF Fractions
<1>2. Substitute(eq, st, r) = IF nz = {} THEN st ELSE [num |-> num, den |-> den]
  <2>1. Len(st.num) = n
    BY <1>1, VectorLength
  <2>2. QED
    BY <2>1 DEF Substitute
<1>3. eq[r] \in [1..n + 1 -> Int]
  BY DEF Matrix
<1>4. CASE nz # {}
  <2>1. p \in nz
    <3>1. nz \subseteq 1..n
      OBVIOUS
    <3> HIDE DEF nz
    <3>2. QED
      BY <1>4, <3>1, GreatestIndex
  <2>2. p \in 1..n /\ eq[r][p] # 0
    <3> HIDE DEF p
    <3>1. QED
      BY <2>1
  <2> HIDE DEF p, nz
  <2>3. eq[r][p] \in Int /\ eq[r][n + 1] \in Int /\ \A j \in 1..n : eq[r][j] \in Int
    BY <1>3, <2>2
  <2>4. Total(f, (p+1)..n) \in Int
    <3>1. \A j \in 1..n : f[j] = eq[r][j] * st.num[j] /\ st.num[j] \in Int
      BY <1>1
    <3>2. \A j \in 1..n : f[j] \in Int
      BY <2>3, <3>1
    <3>3. (p+1)..n \subseteq 1..n
      BY <2>2
    <3>4. IsFiniteSet((p+1)..n)
      <4>1. p + 1 \in Int /\ n \in Int
        BY <2>2
      <4>2. QED
        BY <4>1, FS_Interval
    <3> HIDE DEF f
    <3>5. QED
      BY <3>2, <3>3, <3>4, TotalTyped
  <2>5. v \in Int
    <3> DEFINE T == Total(f, (p+1)..n)
    <3> HIDE DEF f
    <3>1. T \in Int
      BY <2>4
    <3> HIDE DEF T
    <3>2. eq[r][n+1] * st.den - T \in Int
      BY <1>1, <2>3, <3>1
    <3>3. QED
      BY <3>2 DEF T
  <2> HIDE DEF v
  <2>6. num \in [1..n -> Int]
    <3>1. \A j \in 1..n : st.num[j] * eq[r][p] \in Int
      BY <1>1, <2>3
    <3>2. QED
      BY <2>5, <3>1
  <2>7. den \in Int /\ den # 0
    <3> DEFINE x == eq[r][p]
               y == st.den
    <3>1. x \in Int /\ y \in Int /\ x # 0 /\ y # 0
      BY <1>1, <2>2, <2>3
    <3> HIDE DEF x, y
    <3>2. y * x \in Int /\ y * x # 0
      BY <3>1
    <3>3. QED
      BY <3>2 DEF x, y
  <2> HIDE DEF num, den
  <2>8. QED
    BY <1>2, <1>4, <2>6, <2>7 DEF Fractions
<1>5. QED
  <2> HIDE DEF nz, num, den
  <2>1. QED
    BY <1>2, <1>4

\* ... for all equations it uses.
LEMMA BackSubstitutionTyped ==
  ASSUME NEW n \in Nat \ {0}, NEW m \in Nat, NEW eq \in Matrix(m, n + 1), NEW r \in 0..m
  PROVE  BackSubstitution(eq, r, n) \in Fractions(n)
<1> DEFINE E == Fractions(n)
           base == [num |-> Zeros(n), den |-> 1]
           Go(s, x) == Substitute(eq, x, r + 1 - s)
           step == [s \in 1..r |-> [x \in E |-> Go(s, x)]]
           S == [s \in 0..r |-> E]
           Is(g) == g = [s \in 0..r |-> IF s = 0 THEN base ELSE Go(s, g[s - 1])]
<1>1. BackSubstitution(eq, r, n) = (CHOOSE g : Is(g))[r]
  BY DEF BackSubstitution
<1>2. base \in E
  BY DEF Fractions, Zeros
<1>3. \A s \in 1..r : \A x \in E : Go(s, x) \in E
  <2>1. \A s \in 1..r : r + 1 - s \in 1..m
    OBVIOUS
  <2>2. QED
    BY <2>1, SubstituteTyped
<1> HIDE DEF E, base, Go
<1>4. PICK f : Steps(f, r, base, step) /\ \A s \in 0..r : f[s] \in S[s]
  <2>1. base \in S[0] /\ r \in Nat
    BY <1>2
  <2>2. \A s \in 1..r : \A x \in S[s - 1] : step[s][x] \in S[s]
    <3>1. \A s \in 1..r : s - 1 \in 0..r /\ s \in 0..r
      OBVIOUS
    <3>2. QED
      BY <1>3, <3>1
  <2> HIDE DEF S, step
  <2>3. QED
    BY <2>1, <2>2, StepsExist
<1>5. Is(f)
  <2>1. \A s \in 0..r : f[s] \in E
    BY <1>4
  <2>2. ASSUME NEW s \in 0..r
        PROVE  f[s] = IF s = 0 THEN base ELSE Go(s, f[s - 1])
    <3>1. f[s] = IF s = 0 THEN base ELSE step[s][f[s - 1]]
      <4> HIDE DEF step
      <4>1. QED
        BY <1>4 DEF Steps
    <3>2. s # 0 => s \in 1..r /\ s - 1 \in 0..r
      OBVIOUS
    <3>3. s # 0 => step[s][f[s - 1]] = Go(s, f[s - 1])
      BY <2>1, <3>2
    <3>4. QED
      BY <3>1, <3>3
  <2>3. f = [s \in 0..r |-> f[s]]
    BY <1>4 DEF Steps
  <2> HIDE DEF step
  <2>4. QED
    BY <2>2, <2>3
<1> DEFINE h == CHOOSE g : Is(g)
<1> HIDE DEF Is
<1>6. Is(h)
  BY <1>5
<1> HIDE DEF h
<1>7. \A s \in 0..r : h[s] = IF s = 0 THEN base ELSE Go(s, h[s - 1])
  BY <1>6 DEF Is
<1>8. \A s \in 0..r : h[s] \in S[s]
  <2>1. h[0] \in S[0]
    BY <1>2, <1>7
  <2>2. ASSUME NEW s \in 1..r, h[s - 1] \in S[s - 1]
        PROVE  h[s] \in S[s]
    <3>1. s \in 0..r /\ s # 0 /\ s - 1 \in 0..r
      OBVIOUS
    <3>2. QED
      BY <1>3, <1>7, <2>2, <3>1
  <2>3. r \in Nat
    OBVIOUS
  <2> HIDE DEF S
  <2>4. QED
    BY <2>1, <2>2, <2>3, StepsKeep
<1>9. QED
  BY <1>1, <1>8 DEF h, E

\* There is a common divisor to divide by.
LEMMA CommonDenominatorTyped ==
  ASSUME NEW n \in Nat \ {0}, NEW st \in Fractions(n)
  PROVE  CommonDenominator(st.num, st.den) \in [1..n -> Int]
<1> DEFINE num == st.num
           den == st.den
           abs == IF den < 0 THEN -den ELSE den
           D   == {d \in 1..abs : abs % d = 0 /\ \A j \in DOMAIN num : num[j] % d = 0}
           gcd == Max(D)
<1>1. num \in [1..n -> Int] /\ den \in Int /\ den # 0
  BY DEF Fractions
<1> HIDE DEF num, den
<1>2. abs \in Nat \ {0}
  BY <1>1
<1> HIDE DEF abs
<1>3. 1 \in D
  <2>1. abs % 1 = 0 /\ \A j \in 1..n : num[j] % 1 = 0
    BY <1>1, <1>2
  <2>2. 1 \in 1..abs /\ DOMAIN num = 1..n
    BY <1>1, <1>2
  <2>3. QED
    BY <2>1, <2>2
<1>4. D \subseteq 1..abs
  OBVIOUS
<1> HIDE DEF D
<1>5. gcd \in D
  BY <1>2, <1>3, <1>4, GreatestIndex DEF Max
<1>6. gcd \in Nat \ {0}
  <2> HIDE DEF gcd
  <2>1. QED
    BY <1>2, <1>4, <1>5
<1> HIDE DEF gcd
<1>7. ASSUME NEW j \in 1..n
      PROVE  (IF den < 0 THEN -num[j] ELSE num[j]) \div gcd \in Int
  <2>1. (IF den < 0 THEN -num[j] ELSE num[j]) \in Int
    BY <1>1
  <2>2. QED
    BY <1>6, <2>1, Quotient
<1>8. CommonDenominator(num, den) = [j \in 1..n |-> (IF den < 0 THEN -num[j] ELSE num[j]) \div gcd]
  BY <1>1 DEF CommonDenominator, gcd, D, abs
<1>9. CommonDenominator(num, den) \in [1..n -> Int]
  BY <1>7, <1>8
<1>10. QED
  BY <1>9 DEF num, den

-----------------------------------------------------------------------------
\* The second method yields integers as well.
LEMMA SolveTyped ==
  ASSUME NEW n \in Nat \ {0}, NEW m \in Nat \ {0}, NEW a \in Matrix(n, m)
  PROVE  computeCoefficientsSolve(a) \in [1..n -> Int]
<1> DEFINE row(j) == [i \in 1..(n+1) |-> IF i <= n THEN a[i][j] ELSE Unit(m, 1)[j]]
           eqs  == [j \in 1..m |-> row(j)]
           el   == Elimination(eqs, n)
           back == BackSubstitution(el.eq, el.pivot - 1, n)
<1>1. Len(a) = n /\ Len(a[1]) = m
  <2>1. a \in [1..n -> [1..m -> Int]] /\ a[1] \in [1..m -> Int]
    BY DEF Matrix
  <2>2. QED
    BY <2>1, VectorLength
<1>2. computeCoefficientsSolve(a) = CommonDenominator(back.num, back.den)
  BY <1>1 DEF computeCoefficientsSolve
<1>3. eqs \in Matrix(m, n + 1)
  <2>1. ASSUME NEW j \in 1..m PROVE row(j) \in [1..n + 1 -> Int]
    <3>1. Unit(m, 1)[j] \in Int
      BY UnitTyped
    <3>2. ASSUME NEW i \in 1..n + 1, i <= n PROVE a[i][j] \in Int
      <4>1. i \in 1..n
        BY <3>2
      <4>2. a[i] \in [1..m -> Int]
        BY <4>1 DEF Matrix
      <4>3. QED
        BY <4>2
    <3>3. QED
      BY <3>1, <3>2
  <2> HIDE DEF row
  <2>2. QED
    BY <2>1 DEF Matrix
<1> HIDE DEF eqs
<1>4. el.eq \in Matrix(m, n + 1) /\ el.pivot - 1 \in 0..m
  <2>1. el \in EliminationStates(m, n + 1)
    BY <1>3, EliminationTyped
  <2> HIDE DEF el
  <2>2. el.pivot \in 1..m + 1
    BY <2>1 DEF EliminationStates
  <2>3. QED
    BY <2>1, <2>2 DEF EliminationStates
<1> HIDE DEF el
<1>5. back \in Fractions(n)
  BY <1>4, BackSubstitutionTyped
<1> HIDE DEF back
<1>6. QED
  BY <1>2, <1>5, CommonDenominatorTyped

\* The engine combines shares with integers, one for each row it selects.
LEMMA CoefficientsTyped ==
  ASSUME NEW n \in Nat \ {0}, NEW m \in Nat \ {0}, NEW a \in Matrix(n, m)
  PROVE  computeCoefficients(a) \in [1..n -> Int]
<1>1. computeCoefficientsHNF(a) \in [1..n -> Int]
  BY HNFTyped
<1>2. computeCoefficientsSolve(a) \in [1..n -> Int]
  BY SolveTyped
<1>3. computeCoefficients(a) \in {computeCoefficientsHNF(a), computeCoefficientsSolve(a)}
  BY DEF computeCoefficients
<1>4. QED
  BY <1>1, <1>2, <1>3

-----------------------------------------------------------------------------
(***************************************************************************)
(* The rows.                                                               *)
(***************************************************************************)
\* The row of a slice in a matrix of n columns.
Row(m, s, n) == [j \in 1..n |-> IF j <= s.len THEN Content(m, s)[j] ELSE 0]

\* Sequences of the rows of leaves whose labels are in A.
RowsOf(A) ==
  {x \in Seq([1..c -> Int]) :
     \A i \in 1..Len(x) :
       \E p \in DOMAIN vec : IsLeaf(tree, p) /\ tree[p] \in A /\ x[i] = Row(mem, vec[p], c)}

\* A row is one of integers.
LEMMA RowTyped ==
  ASSUME NEW m \in Memory, NEW s, Slice(m, s), NEW n \in Nat
  PROVE  Row(m, s, n) \in [1..n -> Int]
<1>1. s.len \in Nat /\ \A j \in 1..s.len : Content(m, s)[j] \in Int
  BY ContentTyped
<1>2. \A j \in 1..n : j <= s.len => j \in 1..s.len
  BY <1>1
<1>3. QED
  BY <1>1, <1>2 DEF Row

\* Rows: those of leaves whose labels are in A, in a sequence.
LEMMA RowsTyped ==
  ASSUME NEW A, mem \in Memory, c \in Nat, leaves \in Seq(DOMAIN vec),
         \A i \in 1..Len(leaves) : IsLeaf(tree, leaves[i]),
         \A p \in DOMAIN vec : Slice(mem, vec[p])
  PROVE  Rows(A) \in RowsOf(A)
<1> DEFINE n == Len(leaves)
           m == encodeAccessPolicy
           E == RowsOf(A)
           base == <<>>
           Go(s, x) == IF tree[leaves[s]] \in A THEN Append(x, m[s]) ELSE x
           step == [s \in 1..n |-> [x \in E |-> Go(s, x)]]
           S == [s \in 0..n |-> E]
           Is(g) == g = [s \in 0..n |-> IF s = 0 THEN base ELSE Go(s, g[s - 1])]
<1>0. n \in Nat
  OBVIOUS
<1>1. Rows(A) = (CHOOSE g : Is(g))[n]
  <2>1. \A s, x : Go(s, x) = IF tree[leaves[s]] \in A THEN Append(x, m[s]) ELSE x
    OBVIOUS
  <2>2. QED
    BY DEF Rows
<1>2. base \in E
  BY DEF RowsOf
<1>3. \A s \in 1..n : \A x \in E : Go(s, x) \in E
  <2> SUFFICES ASSUME NEW s \in 1..n, NEW x \in E, tree[leaves[s]] \in A
               PROVE  Append(x, m[s]) \in E
    OBVIOUS
  <2> DEFINE p == leaves[s]
             r == Row(mem, vec[p], c)
             y == Append(x, r)
  <2>1. p \in DOMAIN vec /\ IsLeaf(tree, p) /\ Slice(mem, vec[p])
    OBVIOUS
  <2>2. m[s] = r
    <3>1. s \in DOMAIN leaves
      OBVIOUS
    <3>2. \A i \in DOMAIN leaves : encodeAccessPolicy[i] = Row(mem, vec[leaves[i]], c)
      BY DEF encodeAccessPolicy, Row
    <3>3. QED
      BY <3>1, <3>2
  <2>3. r \in [1..c -> Int]
    BY <2>1, RowTyped
  <2>4. x \in Seq([1..c -> Int]) /\ \A i \in 1..Len(x) :
          \E q \in DOMAIN vec : IsLeaf(tree, q) /\ tree[q] \in A /\ x[i] = Row(mem, vec[q], c)
    BY DEF RowsOf
  <2>5. r = Row(mem, vec[p], c) /\ tree[p] \in A
    OBVIOUS
  <2> HIDE DEF r, p
  <2>6. /\ y \in Seq([1..c -> Int]) /\ Len(y) = Len(x) + 1 /\ y[Len(x) + 1] = r
        /\ Len(x) \in Nat /\ \A i \in 1..Len(x) : y[i] = x[i]
    BY <2>3, <2>4
  <2> HIDE DEF y
  <2>7. ASSUME NEW i \in 1..Len(y)
        PROVE  \E q \in DOMAIN vec : IsLeaf(tree, q) /\ tree[q] \in A /\ y[i] = Row(mem, vec[q], c)
    <3>1. CASE i \in 1..Len(x)
      BY <2>4, <2>6, <3>1
    <3>2. CASE i = Len(x) + 1
      BY <2>1, <2>5, <2>6, <3>2
    <3>3. QED
      BY <2>6, <3>1, <3>2
  <2>8. y \in E
    BY <2>6, <2>7 DEF RowsOf
  <2>9. QED
    BY <2>2, <2>8 DEF y
<1> HIDE DEF E, base, Go, n
<1>4. PICK f : Steps(f, n, base, step) /\ \A s \in 0..n : f[s] \in S[s]
  <2>1. base \in S[0]
    BY <1>0, <1>2
  <2>2. \A s \in 1..n : \A x \in S[s - 1] : step[s][x] \in S[s]
    <3>1. \A s \in 1..n : s - 1 \in 0..n /\ s \in 0..n
      BY <1>0
    <3>2. QED
      BY <1>3, <3>1
  <2> HIDE DEF S, step
  <2>3. QED
    BY <1>0, <2>1, <2>2, StepsExist
<1>5. Is(f)
  <2>1. \A s \in 0..n : f[s] \in E
    BY <1>4
  <2>2. ASSUME NEW s \in 0..n
        PROVE  f[s] = IF s = 0 THEN base ELSE Go(s, f[s - 1])
    <3>1. f[s] = IF s = 0 THEN base ELSE step[s][f[s - 1]]
      <4> HIDE DEF step
      <4>1. QED
        BY <1>4 DEF Steps
    <3>2. s # 0 => s \in 1..n /\ s - 1 \in 0..n
      BY <1>0
    <3>3. s # 0 => step[s][f[s - 1]] = Go(s, f[s - 1])
      BY <2>1, <3>2
    <3>4. QED
      BY <3>1, <3>3
  <2>3. f = [s \in 0..n |-> f[s]]
    BY <1>4 DEF Steps
  <2> HIDE DEF step
  <2>4. QED
    BY <2>2, <2>3
<1> DEFINE h == CHOOSE g : Is(g)
<1> HIDE DEF Is
<1>6. Is(h)
  BY <1>5
<1> HIDE DEF h
<1>7. \A s \in 0..n : h[s] = IF s = 0 THEN base ELSE Go(s, h[s - 1])
  BY <1>6 DEF Is
<1>8. \A s \in 0..n : h[s] \in S[s]
  <2>1. h[0] \in S[0]
    BY <1>0, <1>2, <1>7
  <2>2. ASSUME NEW s \in 1..n, h[s - 1] \in S[s - 1]
        PROVE  h[s] \in S[s]
    <3>1. s \in 0..n /\ s # 0 /\ s - 1 \in 0..n
      BY <1>0
    <3>2. QED
      BY <1>3, <1>7, <2>2, <3>1
  <2> HIDE DEF S
  <2>3. QED
    BY <1>0, <2>1, <2>2, StepsKeep
<1>9. QED
  BY <1>0, <1>1, <1>8 DEF h, E

\* A vector that every row is orthogonal to, with a first entry of 1, rules any
\* coefficients out.
LEMMA OrthogonalNeverMatches ==
  ASSUME NEW n \in Nat \ {0}, NEW m \in Nat \ {0}, NEW a \in Matrix(n, m),
         NEW k \in [1..n -> Int], NEW w \in [1..m -> Int], w[1] = 1,
         \A i \in 1..n : Dot(a[i], m, w) = 0
  PROVE  ~linCombMatches(k, a)
<1> DEFINE N == 1..n
           W == 1..m
           col(j) == [i \in N |-> k[i] * a[i][j]]
           F == [i \in N |-> [j \in W |-> k[i] * (a[i][j] * w[j])]]
           G == [j \in W |-> [i \in N |-> k[i] * (a[i][j] * w[j])]]
           A == [i \in N |-> 0]
           B == [j \in W |-> Total(G[j], N)]
<1>1. /\ IsFiniteSet(N) /\ IsFiniteSet(W) /\ 1 \in W /\ \A j \in W : w[j] \in Int
      /\ \A i \in N : k[i] \in Int
      /\ \A i \in N : \A j \in W : a[i][j] \in Int
  <2>1. \A i \in N : a[i] \in [W -> Int]
    BY DEF Matrix
  <2>2. 1 \in W
    OBVIOUS
  <2>3. IsFiniteSet(N) /\ IsFiniteSet(W)
    BY FS_Interval
  <2>4. QED
    BY <2>1, <2>2, <2>3
<1>2. \A i \in N : Total([j \in W |-> a[i][j] * w[j]], W) = 0
  BY DEF Dot
<1>3. SUFFICES ASSUME \A j \in W : Total(col(j), N) = IF j = 1 THEN 1 ELSE 0
               PROVE  FALSE
  <2>1. DOMAIN a = N /\ Len(a[1]) = m
    <3>1. a \in [1..n -> [1..m -> Int]] /\ a[1] \in [1..m -> Int]
      BY DEF Matrix
    <3>2. QED
      BY <3>1, VectorLength
  <2>2. linCombMatches(k, a) => \A j \in W : Total(col(j), N) = Unit(m, 1)[j]
    BY <2>1 DEF linCombMatches
  <2>3. \A j \in W : Unit(m, 1)[j] = IF j = 1 THEN 1 ELSE 0
    BY DEF Unit
  <2> HIDE DEF col, N, W
  <2>4. QED
    BY <2>2, <2>3
<1> HIDE DEF W, N
<1>4. \A i \in N : \A j \in W : F[i][j] \in Int /\ G[j][i] = F[i][j]
  BY <1>1
<1>5. ASSUME NEW i \in N
      PROVE  A[i] = Total(F[i], W)
  <2> DEFINE f == [j \in W |-> a[i][j] * w[j]]
             h == F[i]
  <2>1. Total(f, W) = 0 /\ A[i] = 0
    BY <1>2
  <2>2. \A j \in W : f[j] \in Int /\ h[j] = k[i] * f[j]
    BY <1>1
  <2>3. k[i] \in Int
    BY <1>1
  <2> HIDE DEF f, h
  <2>4. Total(h, W) = k[i] * Total(f, W)
    <3>1. Multiplied(W, k[i], f, h)
      BY <1>1, <2>2, <2>3 DEF Multiplied
    <3>2. QED
      BY <3>1, TotalOfMultiple
  <2>5. Total(h, W) = 0
    <3> HIDE DEF A
    <3>1. QED
      BY <2>1, <2>3, <2>4
  <2>6. QED
    BY <2>1, <2>5 DEF h
<1>6. ASSUME NEW j \in W
      PROVE  B[j] = IF j = 1 THEN 1 ELSE 0
  <2> DEFINE f == col(j)
             h == G[j]
  <2>1. \A i \in N : f[i] \in Int /\ h[i] = w[j] * f[i]
    <3>1. ASSUME NEW i \in N
          PROVE  f[i] \in Int /\ h[i] = w[j] * f[i]
      <4> DEFINE x == k[i]
                 y == a[i][j]
                 z == w[j]
      <4>1. x \in Int /\ y \in Int /\ z \in Int
        BY <1>1
      <4>2. f[i] = x * y /\ h[i] = x * (y * z)
        OBVIOUS
      <4> HIDE DEF x, y, f, h
      <4>3. x * (y * z) = z * (x * y) /\ x * y \in Int
        <5> HIDE DEF z
        <5>1. QED
          BY <4>1
      <4>4. QED
        BY <4>2, <4>3
    <3>2. QED
      BY <3>1
  <2>2. Total(f, N) = (IF j = 1 THEN 1 ELSE 0) /\ w[j] \in Int
    BY <1>1, <1>3
  <2> HIDE DEF f, h, col
  <2>3. Total(h, N) = w[j] * Total(f, N)
    <3>1. Multiplied(N, w[j], f, h)
      BY <1>1, <2>1, <2>2 DEF Multiplied
    <3>2. QED
      BY <3>1, TotalOfMultiple
  <2>4. Total(h, N) = IF j = 1 THEN 1 ELSE 0
    <3>1. CASE j = 1
      BY <2>2, <2>3, <3>1
    <3>2. CASE j # 1
      BY <2>2, <2>3, <3>2
    <3>3. QED
      BY <3>1, <3>2
  <2>5. QED
    BY <2>4 DEF h
<1> HIDE DEF F, G
<1>7. Total(A, N) = Total(B, W)
  <2>1. \A j \in W : B[j] = Total(G[j], N)
    OBVIOUS
  <2> HIDE DEF A, B
  <2>2. Table(N, W, F, G, A, B)
    BY <1>1, <1>4, <1>5, <2>1 DEF Table
  <2>3. QED
    BY <2>2, TotalExchanged
<1>8. Total(A, N) = 0
  BY <1>1, TotalOfZeros
<1>9. Total(B, W) = 1
  <2> HIDE DEF B
  <2>1. Total(B, W) = B[1] + Total(B, W \ {1})
    <3>1. \A j \in W : B[j] \in Int
      BY <1>6
    <3>2. QED
      BY <1>1, <3>1, TotalOfAny
  <2>2. Total(B, W \ {1}) = 0
    <3>1. IsFiniteSet(W \ {1}) /\ \A j \in W \ {1} : B[j] = 0
      BY <1>1, <1>6, FS_Subset
    <3>2. QED
      BY <3>1, TotalOfZeros
  <2>3. QED
    BY <1>1, <1>6, <2>1, <2>2
<1> HIDE DEF A, B
<1>10. Total(B, W) = 0
  BY <1>7, <1>8
<1>11. 0 = 1
  BY <1>9, <1>10
<1>12. QED
  BY <1>11

\* The zeros that fill a row up do not change its products.
LEMMA RowDot ==
  ASSUME NEW m \in Memory, NEW s, Slice(m, s), NEW n \in Nat, s.len <= n,
         NEW w \in [1..n -> Int]
  PROVE  Dot(Row(m, s, n), n, w) = Dot(m[s.arr], s.len, w)
<1> DEFINE v == Row(m, s, n)
           k == s.len
           u == m[s.arr]
<1>1. k \in 0..n /\ k \in Nat /\ \A j \in 1..k : Content(m, s)[j] = u[j] /\ u[j] \in Int
  <2>1. k \in Nat /\ \A j \in 1..k : Content(m, s)[j] = u[j] /\ u[j] \in Int
    BY ContentTyped
  <2>2. QED
    BY <2>1
<1>2. Integral(v, n) /\ Integral(w, n)
  BY RowTyped DEF Integral
<1>3. \A j \in (k + 1)..n : v[j] = 0
  <2>1. \A j \in (k + 1)..n : j \in 1..n /\ ~(j <= k)
    BY <1>1
  <2>2. QED
    BY <2>1 DEF Row
<1>4. \A j \in 1..k : v[j] = u[j]
  <2>1. \A j \in 1..k : j \in 1..n /\ j <= k
    BY <1>1
  <2>2. QED
    BY <1>1, <2>1 DEF Row
<1>5. Integral(u, k) /\ Integral(w, k)
  <2>1. \A j \in 1..k : j \in 1..n
    BY <1>1
  <2>2. QED
    BY <1>1, <2>1 DEF Integral
<1> HIDE DEF v, k, u
<1>6. Dot(v, n, w) = Dot(v, k, w)
  BY <1>1, <1>2, <1>3, DotOfPadded
<1>7. Dot(v, k, w) = Dot(u, k, w)
  BY <1>1, <1>4, <1>5, DotEqual
<1>8. QED
  BY <1>6, <1>7 DEF v, k, u

\* One more array at the end of a memory.
LEMMA Extended ==
  ASSUME NEW m \in Memory, NEW a \in Seq(Int), NEW k
  PROVE  LET n == Append(m, a) IN
           /\ n \in Memory /\ Len(n) = Len(m) + 1 /\ n[Len(n)] = a
           /\ \A i \in 1..Len(m) : n[i] = m[i]
           /\ Kept(m, n, k)
<1> DEFINE n == Append(m, a)
<1>1. /\ n \in Memory /\ Len(n) = Len(m) + 1 /\ n[Len(n)] = a /\ Len(m) \in Nat
      /\ \A i \in 1..Len(m) : n[i] = m[i]
  BY DEF Memory
<1>2. \A i \in 1..Len(m) : Len(m[i]) \in Nat
  BY DEF Memory
<1> HIDE DEF n
<1>3. Kept(m, n, k)
  BY <1>1, <1>2 DEF Kept, Grown
<1>4. QED
  BY <1>1, <1>3 DEF n

\* A slice lies within an array of the memory ...
LEMMA SliceBounds ==
  ASSUME NEW m \in Memory, NEW s, Slice(m, s)
  PROVE  /\ s.arr \in 1..Len(m) /\ Len(m) \in Nat
         /\ m[s.arr] \in Seq(Int) /\ Len(m[s.arr]) \in Nat
         /\ s.len \in Nat \ {0} /\ s.len <= Len(m[s.arr])
<1>1. m \in Seq(Seq(Int)) /\ s.arr \in 1..Len(m) /\ s.len \in 1..Len(m[s.arr])
  BY DEF Memory, Slice
<1>2. m[s.arr] \in Seq(Int) /\ Len(m) \in Nat
  BY <1>1
<1>3. Len(m[s.arr]) \in Nat
  BY <1>2
<1>4. QED
  BY <1>1, <1>2, <1>3

\* ... and still does when the memory has grown.
LEMMA SliceGrown ==
  ASSUME NEW m \in Memory, NEW n \in Memory, NEW s, Slice(m, s), Grown(m, n)
  PROVE  Slice(n, s)
<1>1. s.arr \in 1..Len(m) /\ s.len \in 1..Len(m[s.arr])
      /\ s = [arr |-> s.arr, len |-> s.len]
  BY DEF Slice
<1>2. Len(m) \in Nat /\ Len(n) \in Nat /\ Len(m) <= Len(n)
  BY DEF Memory, Grown
<1>3. s.arr \in 1..Len(n)
  BY <1>1, <1>2
<1>4. Len(m[s.arr]) \in Nat /\ Len(n[s.arr]) \in Nat /\ Len(m[s.arr]) <= Len(n[s.arr])
  <2>1. n[s.arr] \in Seq(Int)
    BY <1>3 DEF Memory
  <2>2. Len(n[s.arr]) \in Nat
    BY <2>1
  <2>3. QED
    BY <1>1, <2>2, SliceBounds DEF Grown
<1>5. QED
  BY <1>1, <1>3, <1>4 DEF Slice

\* A slice that is as long as its array is appended to in another one.
LEMMA AppendedElsewhere ==
  ASSUME NEW m \in Memory, NEW s, Slice(m, s), s.len = Len(m[s.arr]), NEW x \in Int, NEW k
  PROVE  Kept(m, AppendTo(m, s, x).mem, k)
<1> DEFINE a == Append(Content(m, s), x) \o Zeros(s.len - 1)
<1>1. /\ Content(m, s) \in Seq(Int) /\ s.len \in Nat \ {0} /\ Len(m[s.arr]) \in Nat
  BY ContentTyped, SliceBounds
<1>2. a \in Seq(Int)
  <2>1. Zeros(s.len - 1) \in Seq(Int)
    BY <1>1, ZerosTyped
  <2>2. Append(Content(m, s), x) \in Seq(Int)
    BY <1>1
  <2>3. QED
    BY <2>1, <2>2, ConcatProperties
<1>3. ~(s.len < Len(m[s.arr]))
  BY <1>1
<1>4. AppendTo(m, s, x).mem = Append(m, a)
  BY <1>3 DEF AppendTo
<1> HIDE DEF a
<1>5. QED
  BY <1>2, <1>4, Extended

\* What a slice s of m reads in n, with a slice t of n, filled up with zeros.
Reads(n, t, m, s, l) ==
  \A j \in 1..l : n[t.arr][j] = IF j <= s.len THEN m[s.arr][j] ELSE 0

\* It is read alike in a memory that keeps its entries.
LEMMA ReadsKept ==
  ASSUME NEW m \in Memory, NEW n \in Memory, NEW o \in Memory, NEW s, NEW t, NEW l \in Nat,
         NEW k \in Nat, Slice(n, t), l <= t.len, l <= k, Reads(n, t, m, s, l), Kept(n, o, k)
  PROVE  Reads(o, t, m, s, l)
<1>1. t.arr \in 1..Len(n) /\ t.len \in 1..Len(n[t.arr]) /\ Len(n[t.arr]) \in Nat
  BY DEF Slice, Memory
<1>2. \A j \in 1..l : j \in 1..Len(n[t.arr]) /\ j <= k
  BY <1>1
<1>3. \A j \in 1..l : o[t.arr][j] = n[t.arr][j]
  BY <1>1, <1>2 DEF Kept
<1>4. QED
  BY <1>3 DEF Reads

\* The vectors of a node with an AND and of its children.
LEMMA AndVectors ==
  ASSUME NEW m \in Memory, NEW s, Slice(m, s), NEW n \in Nat, s.len <= n
  PROVE  LET p == padWithZeros(m, s, n)
             l == AppendTo(p.mem, p.slice, 1)
             zeros == Append(l.mem, Zeros(p.slice.len))
             r == AppendTo(zeros, [arr |-> Len(zeros), len |-> p.slice.len], -1)
             k == p.slice.len
         IN  /\ k \in Nat /\ s.len <= k /\ k <= n
             /\ r.mem \in Memory /\ Kept(m, r.mem, s.len)
             /\ Slice(r.mem, p.slice) /\ Reads(r.mem, p.slice, m, s, k)
             /\ Slice(r.mem, l.slice) /\ Reads(r.mem, l.slice, m, s, k)
             /\ l.slice.len = k + 1 /\ r.mem[l.slice.arr][k + 1] = 1
             /\ Slice(r.mem, r.slice) /\ \A j \in 1..k : r.mem[r.slice.arr][j] = 0
             /\ r.slice.len = k + 1 /\ r.mem[r.slice.arr][k + 1] = -1
<1> DEFINE p == padWithZeros(m, s, n)
           k == p.slice.len
           l == AppendTo(p.mem, p.slice, 1)
           zeros == Append(l.mem, Zeros(p.slice.len))
           z == [arr |-> Len(zeros), len |-> p.slice.len]
           r == AppendTo(zeros, z, -1)
<1>1. p \in Pads(m, s, n)
  BY Padded
<1>2. /\ p.mem \in Memory /\ Slice(p.mem, p.slice) /\ k \in Nat /\ s.len <= k /\ k <= n
      /\ Kept(m, p.mem, s.len) /\ Reads(p.mem, p.slice, m, s, k)
  <2> HIDE DEF p
  <2>1. QED
    BY <1>1 DEF Pads, Reads
<1>3. s.len \in Nat /\ k # 0
  <2> HIDE DEF p
  <2>1. QED
    BY <1>2, SliceBounds
<1> HIDE DEF p
<1>4. /\ l.mem \in Memory /\ Slice(l.mem, l.slice) /\ l.slice.len = k + 1
      /\ Kept(p.mem, l.mem, k)
      /\ \A j \in 1..k : l.mem[l.slice.arr][j] = p.mem[p.slice.arr][j]
      /\ l.mem[l.slice.arr][k + 1] = 1
  BY <1>2, Appended
<1> HIDE DEF l, k
<1>5. /\ zeros \in Memory /\ Len(zeros) = Len(l.mem) + 1 /\ zeros[Len(zeros)] = Zeros(k)
      /\ Kept(l.mem, zeros, k + 1) /\ Len(Zeros(k)) = k /\ \A j \in 1..k : Zeros(k)[j] = 0
  <2>1. Zeros(k) \in Seq(Int) /\ Len(Zeros(k)) = k /\ \A j \in 1..k : Zeros(k)[j] = 0
    BY <1>2, ZerosTyped
  <2>2. zeros = Append(l.mem, Zeros(k))
    BY DEF k
  <2> DEFINE a == Zeros(k)
             b == l.mem
  <2> HIDE DEF zeros, a, b
  <2>3. b \in Memory /\ a \in Seq(Int) /\ zeros = Append(b, a)
    BY <1>4, <2>1, <2>2 DEF a, b
  <2>4. /\ zeros \in Memory /\ Len(zeros) = Len(b) + 1 /\ zeros[Len(zeros)] = a
        /\ Kept(b, zeros, k + 1)
    BY <2>3, Extended
  <2>5. QED
    BY <2>1, <2>4 DEF a, b
<1> HIDE DEF zeros
<1>6. Slice(zeros, z) /\ z.len = Len(zeros[z.arr]) /\ z.len = k /\ z.arr = Len(zeros)
  <2>1. Len(zeros) \in Nat \ {0}
    BY <1>4, <1>5 DEF Memory
  <2>2. z = [arr |-> z.arr, len |-> z.len] /\ z.arr = Len(zeros) /\ z.len = k
    BY DEF k
  <2> HIDE DEF z
  <2>3. zeros[z.arr] = Zeros(k) /\ Len(zeros[z.arr]) = k
    BY <1>5, <2>2
  <2>4. z.arr \in 1..Len(zeros) /\ z.len \in 1..Len(zeros[z.arr])
    BY <1>2, <1>3, <2>1, <2>2, <2>3
  <2>5. QED
    BY <2>2, <2>3, <2>4 DEF Slice
<1> HIDE DEF z
<1>7. /\ r.mem \in Memory /\ Slice(r.mem, r.slice) /\ r.slice.len = k + 1
      /\ \A j \in 1..k : r.mem[r.slice.arr][j] = zeros[z.arr][j]
      /\ r.mem[r.slice.arr][k + 1] = -1
      /\ Kept(zeros, r.mem, k + 1)
  <2>1. Kept(zeros, r.mem, k + 1)
    <3>1. -1 \in Int
      OBVIOUS
    <3>2. QED
      BY <1>5, <1>6, <3>1, AppendedElsewhere
  <2>2. QED
    BY <1>5, <1>6, <2>1, Appended
<1> HIDE DEF r
<1>8. k + 1 \in Nat /\ k <= k + 1 /\ k \in Nat
  BY <1>2
<1>9. Kept(l.mem, r.mem, k + 1)
  BY <1>4, <1>5, <1>7, <1>8, KeptTransitive
<1>10. Kept(p.mem, r.mem, k)
  BY <1>2, <1>4, <1>7, <1>8, <1>9, KeptTransitive
<1>11. Kept(m, r.mem, s.len)
  BY <1>2, <1>3, <1>7, <1>10, KeptTransitive
<1>12. Slice(r.mem, p.slice) /\ Slice(r.mem, l.slice)
  BY <1>2, <1>4, <1>7, <1>9, <1>10, SliceGrown DEF Kept
<1>13. Reads(r.mem, p.slice, m, s, k)
  <2>1. k <= p.slice.len
    BY <1>2 DEF k
  <2>2. QED
    BY <1>2, <1>7, <1>8, <1>10, <2>1, ReadsKept
<1>14. Reads(r.mem, l.slice, m, s, k)
  <2>1. Reads(l.mem, l.slice, m, s, k)
    BY <1>2, <1>4 DEF Reads
  <2>2. k <= l.slice.len
    BY <1>4, <1>8
  <2>3. QED
    BY <1>4, <1>7, <1>8, <1>9, <2>1, <2>2, ReadsKept
<1>15. r.mem[l.slice.arr][k + 1] = 1
  <2>1. l.slice.arr \in 1..Len(l.mem) /\ k + 1 \in 1..Len(l.mem[l.slice.arr])
    BY <1>4 DEF Slice
  <2>2. k + 1 <= k + 1
    BY <1>8
  <2>3. QED
    BY <1>4, <1>9, <2>1, <2>2 DEF Kept
<1>16. \A j \in 1..k : r.mem[r.slice.arr][j] = 0
  BY <1>5, <1>6, <1>7
<1>17. QED
  BY <1>2, <1>4, <1>7, <1>11, <1>12, <1>13, <1>14, <1>15, <1>16 DEF p, k, l, zeros, z, r

-----------------------------------------------------------------------------
\* Zeros behind a vector do not change its products.
LEMMA PaddedDot ==
  ASSUME NEW k \in Nat, NEW l \in Nat, k <= l, NEW v, NEW u, NEW w, NEW x,
         Integral(v, k), Integral(w, k), Integral(x, l), \A j \in 1..k : x[j] = w[j],
         \A j \in 1..l : u[j] = IF j <= k THEN v[j] ELSE 0
  PROVE  Dot(u, l, x) = Dot(v, k, w)
<1>1. k \in 0..l /\ \A j \in 1..k : j \in 1..l /\ j <= k
  OBVIOUS
<1>2. \A j \in 1..k : u[j] = v[j] /\ v[j] \in Int
  BY <1>1 DEF Integral
<1>3. \A j \in (k + 1)..l : j \in 1..l /\ ~(j <= k)
  OBVIOUS
<1>4. \A j \in (k + 1)..l : u[j] = 0
  BY <1>3
<1>5. Integral(u, l)
  <2>1. \A j \in 1..l : j <= k => j \in 1..k
    OBVIOUS
  <2>2. QED
    BY <2>1, <1>2 DEF Integral
<1>6. Dot(u, l, x) = Dot(u, k, x)
  BY <1>1, <1>4, <1>5, DotOfPadded
<1>7. Dot(u, k, x) = Dot(v, k, w)
  BY <1>2, DotEqual
<1>8. QED
  BY <1>6, <1>7

\* What a slice reads is the same in two memories.
LEMMA SameContent ==
  ASSUME NEW m \in Memory, NEW n \in Memory, NEW s, Slice(m, s), Slice(n, s)
  PROVE  Content(n, s) = Content(m, s) <=> \A j \in 1..s.len : n[s.arr][j] = m[s.arr][j]
<1> DEFINE a == Content(m, s)
           b == Content(n, s)
<1>1. /\ a \in Seq(Int) /\ Len(a) = s.len /\ b \in Seq(Int) /\ Len(b) = s.len
      /\ \A j \in 1..s.len : a[j] = m[s.arr][j] /\ b[j] = n[s.arr][j]
  BY ContentTyped
<1> HIDE DEF a, b
<1>2. (\A j \in 1..s.len : b[j] = a[j]) => b = a
  BY <1>1, SeqEqual, SMTT(30)
<1>3. QED
  BY <1>1, <1>2 DEF a, b

-----------------------------------------------------------------------------
(***************************************************************************)
(* The invariant.                                                          *)
(***************************************************************************)
SharesTyped ==
  /\ tree \in Trees /\ short \in BOOLEAN /\ clobbered \in BOOLEAN
  /\ c \in Nat \ {0} /\ mem \in Memory
  /\ DOMAIN vec \subseteq DOMAIN tree
  /\ todo \in Seq(DOMAIN vec) /\ leaves \in Seq(DOMAIN vec)
  /\ \A i \in 1..Len(leaves) : IsLeaf(tree, leaves[i])
  /\ \A p \in DOMAIN vec : Slice(mem, vec[p]) /\ vec[p].len <= c

\* The next node has a slice; the others of the list stay.
LEMMA NextNode ==
  ASSUME SharesTyped, todo # <<>>
  PROVE  /\ Next1 \in DOMAIN vec /\ Front(todo) \in Seq(DOMAIN vec)
         /\ Len(todo) \in Nat \ {0} /\ Len(Front(todo)) = Len(todo) - 1
         /\ Next1 = todo[Len(todo)]
         /\ \A i \in 1..Len(todo) - 1 : Front(todo)[i] = todo[i] /\ i \in 1..Len(todo)
<1>1. todo \in Seq(DOMAIN vec)
  BY DEF SharesTyped
<1>2. Next1 = todo[Len(todo)] /\ Front(todo) = SubSeq(todo, 1, Len(todo) - 1)
  BY DEF Next1, Last, Front
<1> DEFINE n == Len(todo)
           f == Front(todo)
<1>3. n \in Nat \ {0} /\ todo[n] \in DOMAIN vec /\ n - 1 \in Nat
  BY <1>1
<1>4. f = [i \in 1..n - 1 |-> todo[i]]
  BY <1>1, <1>2, <1>3
<1>5. \A i \in 1..n - 1 : i \in 1..n /\ todo[i] \in DOMAIN vec
  BY <1>1, <1>3
<1> HIDE DEF n, f
<1>6. f \in [1..n - 1 -> DOMAIN vec]
  BY <1>4, <1>5
<1>7. f \in Seq(DOMAIN vec) /\ Len(f) = n - 1
  BY <1>3, <1>6, VectorLength
<1>8. \A i \in 1..n - 1 : f[i] = todo[i]
  BY <1>4
<1>9. QED
  BY <1>2, <1>3, <1>5, <1>7, <1>8 DEF n, f

\* The tree is one, of paths.
LEMMA NodesAreSequences ==
  ASSUME SharesTyped
  PROVE  IsTree(tree) /\ DOMAIN tree \subseteq Seq({1, 2}) /\ <<>> \in DOMAIN tree
  BY SharingAssumption DEF SharesTyped, IsTree

\* The children of an inner node are nodes, two others.
LEMMA Kids ==
  ASSUME SharesTyped, todo # <<>>, ~IsLeaf(tree, Next1)
  PROVE  /\ Kid(1) \in DOMAIN tree /\ Kid(2) \in DOMAIN tree
         /\ Kid(1) # Kid(2) /\ Kid(1) # Next1 /\ Kid(2) # Next1
<1>1. Next1 \in DOMAIN tree
  BY NextNode DEF SharesTyped
<1>2. Append(Next1, 1) \in DOMAIN tree /\ Append(Next1, 2) \in DOMAIN tree
  BY <1>1, NodesAreSequences DEF IsTree, IsLeaf
<1>3. Next1 \in Seq({1, 2})
  BY <1>1, NodesAreSequences
<1>4. \A x \in Seq({1, 2}) :
        Append(x, 1) # Append(x, 2) /\ Append(x, 1) # x /\ Append(x, 2) # x
  <2> SUFFICES ASSUME NEW x \in Seq({1, 2})
               PROVE  Append(x, 1) # Append(x, 2) /\ Append(x, 1) # x /\ Append(x, 2) # x
    OBVIOUS
  <2>1. Append(x, 1)[Len(x) + 1] = 1 /\ Append(x, 2)[Len(x) + 1] = 2
    OBVIOUS
  <2>2. Len(Append(x, 1)) = Len(x) + 1 /\ Len(Append(x, 2)) = Len(x) + 1 /\ Len(x) \in Nat
    OBVIOUS
  <2>3. Len(Append(x, 1)) # Len(x) /\ Len(Append(x, 2)) # Len(x)
    BY <2>2
  <2>4. QED
    BY <2>1, <2>3
<1>5. QED
  BY <1>2, <1>3, <1>4 DEF Kid

\* Which slice a node has once the next node and its children have theirs.
LEMMA LabelledNodes ==
  ASSUME SharesTyped, todo # <<>>, ~IsLeaf(tree, Next1),
         NEW o, NEW l, NEW r, vec' = Labelled(o, l, r)
  PROVE  /\ DOMAIN vec' = DOMAIN vec \cup {Kid(1), Kid(2)}
         /\ vec'[Kid(1)] = l /\ vec'[Kid(2)] = r /\ vec'[Next1] = o
         /\ \A p \in DOMAIN vec \ {Next1, Kid(1), Kid(2)} : vec'[p] = vec[p]
  BY NextNode, Kids DEF Labelled

\* Labelling keeps the types where the new slices fit the memory and the counter.
LEMMA LabelledTyped ==
  ASSUME SharesTyped, todo # <<>>, ~IsLeaf(tree, Next1),
         NEW o, NEW l, NEW r, NEW n \in Memory, NEW d \in Nat, c <= d, Grown(mem, n),
         Slice(n, o), Slice(n, l), Slice(n, r), o.len <= d, l.len <= d, r.len <= d,
         vec' = Labelled(o, l, r), mem' = n, c' = d, tree' = tree, leaves' = leaves,
         todo' = Front(todo) \o <<Kid(2), Kid(1)>>,
         short' \in BOOLEAN, clobbered' \in BOOLEAN
  PROVE  SharesTyped'
<1> DEFINE D == DOMAIN vec'
<1>1. /\ D = DOMAIN vec \cup {Kid(1), Kid(2)}
      /\ vec'[Kid(1)] = l /\ vec'[Kid(2)] = r /\ vec'[Next1] = o
      /\ \A p \in DOMAIN vec \ {Next1, Kid(1), Kid(2)} : vec'[p] = vec[p]
  BY LabelledNodes
<1>2. D \subseteq DOMAIN tree
  BY <1>1, Kids DEF SharesTyped
<1>3. ASSUME NEW p \in D
      PROVE  Slice(n, vec'[p]) /\ vec'[p].len <= d
  <2>1. CASE p \in {Next1, Kid(1), Kid(2)}
    <3>1. vec'[p] \in {o, l, r}
      BY <1>1, <2>1
    <3>2. QED
      BY <3>1
  <2>2. CASE p \notin {Next1, Kid(1), Kid(2)}
    <3>1. p \in DOMAIN vec /\ vec'[p] = vec[p]
      BY <1>1, <2>2
    <3>2. Slice(mem, vec[p]) /\ vec[p].len <= c /\ mem \in Memory /\ c \in Nat
      BY <3>1 DEF SharesTyped
    <3>3. vec[p].len \in Nat
      BY <3>2, SliceBounds
    <3>4. Slice(n, vec[p]) /\ vec[p].len <= d
      BY <3>2, <3>3, SliceGrown
    <3>5. QED
      BY <3>1, <3>4
  <2>3. QED
    BY <2>1, <2>2
<1>4. todo' \in Seq(D) /\ leaves' \in Seq(D)
  <2>1. DOMAIN vec \subseteq D /\ Kid(1) \in D /\ Kid(2) \in D
    BY <1>1
  <2>2. Front(todo) \in Seq(D) /\ leaves \in Seq(D)
    <3>1. Front(todo) \in Seq(DOMAIN vec) /\ leaves \in Seq(DOMAIN vec)
      BY NextNode DEF SharesTyped
    <3>2. \A S, T : S \subseteq T => Seq(S) \subseteq Seq(T)
      OBVIOUS
    <3>3. QED
      BY <2>1, <3>1, <3>2
  <2>3. <<Kid(2), Kid(1)>> \in Seq(D)
    BY <2>1
  <2> HIDE DEF D
  <2>4. Front(todo) \o <<Kid(2), Kid(1)>> \in Seq(D)
    BY <2>2, <2>3, ConcatProperties
  <2>5. QED
    BY <2>2, <2>4
<1>5. d \in Nat \ {0}
  BY DEF SharesTyped
<1>6. \A i \in 1..Len(leaves) : IsLeaf(tree, leaves[i])
  BY DEF SharesTyped
<1>7. tree' \in Trees
  BY DEF SharesTyped
<1>8. QED
  BY <1>2, <1>3, <1>4, <1>5, <1>6, <1>7 DEF SharesTyped

\* The slice of the next node can be padded.
LEMMA NextSlice ==
  ASSUME SharesTyped, todo # <<>>
  PROVE  /\ mem \in Memory /\ Slice(mem, vec[Next1]) /\ c \in Nat
         /\ vec[Next1].len <= c /\ vec[Next1].len \in Nat
<1>1. mem \in Memory /\ Slice(mem, vec[Next1]) /\ c \in Nat /\ vec[Next1].len <= c
  BY NextNode DEF SharesTyped
<1>2. QED
  BY <1>1, SliceBounds

\* The two kinds of inner nodes.
LEMMA OrTyped ==
  ASSUME SharesTyped, LabelOr
  PROVE  SharesTyped'
<1> DEFINE p == padWithZeros(mem, vec[Next1], c)
<1>1. todo # <<>> /\ ~IsLeaf(tree, Next1)
  BY DEF LabelOr
<1>2. p \in Pads(mem, vec[Next1], c)
  BY <1>1, NextSlice, Padded
<1>3. /\ vec' = Labelled(p.slice, p.slice, p.slice) /\ mem' = p.mem
      /\ short' = (short \/ p.slice.len < c) /\ clobbered' = (clobbered \/ Clobbers(p.mem))
      /\ tree' = tree /\ leaves' = leaves /\ c' = c
      /\ todo' = Front(todo) \o <<Kid(2), Kid(1)>>
  BY DEF LabelOr
<1> HIDE DEF p
<1>4. p.mem \in Memory /\ Slice(p.mem, p.slice) /\ p.slice.len <= c /\ Grown(mem, p.mem)
  BY <1>2 DEF Pads, Kept
<1>5. c \in Nat /\ c <= c
  BY DEF SharesTyped
<1>6. short' \in BOOLEAN /\ clobbered' \in BOOLEAN
  BY <1>3
<1>7. QED
  BY ONLY SharesTyped, <1>1, <1>3, <1>4, <1>5, <1>6, LabelledTyped

LEMMA AndTyped ==
  ASSUME SharesTyped, LabelAnd
  PROVE  SharesTyped'
<1> DEFINE p == padWithZeros(mem, vec[Next1], c)
           l == AppendTo(p.mem, p.slice, 1)
           zeros == Append(l.mem, Zeros(p.slice.len))
           r == AppendTo(zeros, [arr |-> Len(zeros), len |-> p.slice.len], -1)
           k == p.slice.len
<1>1. todo # <<>> /\ ~IsLeaf(tree, Next1)
  BY DEF LabelAnd
<1>2. /\ k \in Nat /\ k <= c /\ r.mem \in Memory /\ Kept(mem, r.mem, vec[Next1].len)
      /\ Slice(r.mem, p.slice) /\ Slice(r.mem, l.slice) /\ Slice(r.mem, r.slice)
      /\ l.slice.len = k + 1 /\ r.slice.len = k + 1
  <2>1. mem \in Memory /\ Slice(mem, vec[Next1]) /\ c \in Nat /\ vec[Next1].len <= c
    BY <1>1, NextSlice
  <2>2. QED
    BY ONLY <2>1, AndVectors, ZenonT(60)
<1>3. /\ vec' = Labelled(p.slice, l.slice, r.slice) /\ mem' = r.mem
      /\ short' = (short \/ p.slice.len < c) /\ clobbered' = (clobbered \/ Clobbers(r.mem))
      /\ tree' = tree /\ leaves' = leaves /\ c' = c + 1
      /\ todo' = Front(todo) \o <<Kid(2), Kid(1)>>
  BY DEF LabelAnd
<1>4. p.slice.len = k
  OBVIOUS
<1> HIDE DEF p, l, zeros, r, k
<1>5. c \in Nat /\ c + 1 \in Nat /\ c <= c + 1 /\ k <= c + 1 /\ k + 1 <= c + 1
  BY <1>2 DEF SharesTyped
<1>6. short' \in BOOLEAN /\ clobbered' \in BOOLEAN
  BY <1>3
<1>7. Grown(mem, r.mem)
  BY <1>2 DEF Kept
<1>8. p.slice.len <= c + 1 /\ l.slice.len <= c + 1 /\ r.slice.len <= c + 1
  BY <1>2, <1>4, <1>5
<1>9. QED
  BY ONLY SharesTyped, <1>1, <1>2, <1>3, <1>5, <1>6, <1>7, <1>8, LabelledTyped

\* The types hold at first and after every step.
LEMMA SharesTypedInit == Init => SharesTyped
<1> SUFFICES ASSUME Init PROVE SharesTyped
  OBVIOUS
<1>1. /\ tree \in Trees /\ todo = << <<>> >> /\ leaves = <<>> /\ mem = << <<1>> >>
      /\ vec = [p \in {<<>>} |-> [arr |-> 1, len |-> 1]] /\ c = 1
      /\ short = FALSE /\ clobbered = FALSE
  BY DEF Init
<1>2. DOMAIN vec = {<<>>} /\ <<>> \in DOMAIN tree
  BY <1>1, SharingAssumption DEF IsTree
<1>3. mem \in Memory /\ Len(mem) = 1 /\ mem[1] = <<1>> /\ Len(mem[1]) = 1
  <2>1. <<1>> \in Seq(Int)
    OBVIOUS
  <2>2. QED
    BY <1>1, <2>1 DEF Memory
<1>4. \A p \in DOMAIN vec : Slice(mem, vec[p]) /\ vec[p].len <= c
  <2> SUFFICES ASSUME NEW p \in DOMAIN vec PROVE Slice(mem, vec[p]) /\ vec[p].len <= c
    OBVIOUS
  <2>1. vec[p] = [arr |-> 1, len |-> 1]
    BY <1>1
  <2>2. vec[p].arr = 1 /\ vec[p].len = 1
    BY <2>1
  <2>3. QED
    BY <1>1, <1>3, <2>1, <2>2 DEF Slice
<1>5. todo \in Seq(DOMAIN vec) /\ leaves \in Seq(DOMAIN vec) /\ Len(leaves) = 0
  BY <1>1, <1>2
<1>6. \A i \in 1..Len(leaves) : IsLeaf(tree, leaves[i])
  BY <1>5
<1>7. short \in BOOLEAN /\ clobbered \in BOOLEAN /\ c \in Nat \ {0} /\ DOMAIN vec \subseteq DOMAIN tree
  <2>1. short \in BOOLEAN /\ clobbered \in BOOLEAN
    BY <1>1, Zenon
  <2>2. c \in Nat \ {0} /\ DOMAIN vec \subseteq DOMAIN tree
    <3>1. c = 1 /\ DOMAIN vec = {<<>>} /\ <<>> \in DOMAIN tree
      BY <1>1, <1>2
    <3>2. QED
      BY <3>1
  <2>3. QED
    BY <2>1, <2>2
<1>8. mem \in Memory /\ tree \in Trees
  BY <1>1, <1>3
<1>9. QED
  BY <1>4, <1>5, <1>6, <1>7, <1>8, Zenon DEF SharesTyped

LEMMA SharesTypedNext ==
  ASSUME SharesTyped, [Next]_vars
  PROVE  SharesTyped'
<1>1. CASE LabelLeaf
  <2>1. /\ todo # <<>> /\ IsLeaf(tree, Next1) /\ todo' = Front(todo)
        /\ leaves' = Append(leaves, Next1) /\ tree' = tree /\ vec' = vec /\ mem' = mem
        /\ c' = c /\ short' = short /\ clobbered' = clobbered
    BY <1>1 DEF LabelLeaf
  <2>2. Next1 \in DOMAIN vec /\ Front(todo) \in Seq(DOMAIN vec)
    BY <2>1, NextNode
  <2>3. /\ leaves \in Seq(DOMAIN vec) /\ \A i \in 1..Len(leaves) : IsLeaf(tree, leaves[i])
    BY DEF SharesTyped
  <2> DEFINE q == Next1
             x == Append(leaves, q)
  <2> HIDE DEF q
  <2>4. /\ x \in Seq(DOMAIN vec) /\ Len(x) = Len(leaves) + 1 /\ Len(leaves) \in Nat
        /\ x[Len(leaves) + 1] = q /\ \A i \in 1..Len(leaves) : x[i] = leaves[i]
    BY <2>2, <2>3 DEF q
  <2>5. \A i \in 1..Len(x) : IsLeaf(tree, x[i])
    <3> HIDE DEF x
    <3>1. \A i \in 1..Len(x) : i \in 1..Len(leaves) \/ i = Len(leaves) + 1
      BY <2>4
    <3>2. IsLeaf(tree, q)
      BY <2>1 DEF q
    <3>3. QED
      BY <2>3, <2>4, <3>1, <3>2
  <2>6. leaves' = x
    BY <2>1 DEF q
  <2> HIDE DEF x
  <2>7. QED
    BY <2>1, <2>2, <2>4, <2>5, <2>6 DEF SharesTyped
<1>2. CASE LabelOr
  BY <1>2, OrTyped
<1>3. CASE LabelAnd
  BY <1>3, AndTyped
<1>4. CASE UNCHANGED vars \/ \E attrs \in SUBSET Labels(tree) : Select(attrs)
  <2>1. /\ tree' = tree /\ todo' = todo /\ leaves' = leaves /\ vec' = vec /\ mem' = mem
        /\ c' = c /\ short' = short /\ clobbered' = clobbered
    BY <1>4 DEF vars, Select
  <2>2. QED
    BY <2>1 DEF SharesTyped
<1>5. QED
  BY <1>1, <1>2, <1>3, <1>4 DEF Next

-----------------------------------------------------------------------------
\* w tells those who hold A from those who open the tree: it starts with a 1
\* and is orthogonal to the vector of every node that is open to them.
Avoids(A, w) ==
  /\ w \in [1..c -> Int] /\ w[1] = 1
  /\ \A p \in DOMAIN vec : Opened(tree, A)[p] => Dot(mem[vec[p].arr], vec[p].len, w) = 0

Separated ==
  ~short /\ ~clobbered =>
    \A A \in SUBSET Labels(tree) : ~Opens(tree, A) => \E w : Avoids(A, w)

\* A vector that was only padded has the products it had.
LEMMA ReadsDot ==
  ASSUME NEW m \in Memory, NEW s, Slice(m, s), NEW n, NEW t, NEW l \in Nat, s.len <= l,
         Reads(n, t, m, s, l), NEW w, NEW x, Integral(w, s.len), Integral(x, l),
         \A j \in 1..s.len : x[j] = w[j]
  PROVE  Dot(n[t.arr], l, x) = Dot(m[s.arr], s.len, w)
<1> DEFINE v == m[s.arr]
           u == n[t.arr]
           k == s.len
<1>1. k \in Nat /\ Integral(v, k)
  BY ContentTyped DEF Integral
<1>2. \A j \in 1..l : u[j] = IF j <= k THEN v[j] ELSE 0
  BY DEF Reads
<1>3. k <= l /\ Integral(w, k) /\ \A j \in 1..k : x[j] = w[j]
  OBVIOUS
<1> HIDE DEF v, u, k
<1>4. Dot(u, l, x) = Dot(v, k, w)
  BY <1>1, <1>2, <1>3, PaddedDot
<1>5. QED
  BY <1>4 DEF v, u, k

\* So has one that still reads the same.
LEMMA KeptDot ==
  ASSUME NEW m \in Memory, NEW n \in Memory, NEW s, Slice(m, s), Slice(n, s),
         Content(n, s) = Content(m, s), NEW w, NEW x, Integral(w, s.len),
         \A j \in 1..s.len : x[j] = w[j]
  PROVE  Dot(n[s.arr], s.len, x) = Dot(m[s.arr], s.len, w)
<1>1. s.len \in Nat /\ Integral(m[s.arr], s.len)
  BY ContentTyped DEF Integral
<1>2. \A j \in 1..s.len : n[s.arr][j] = m[s.arr][j]
  BY SameContent
<1>3. QED
  BY <1>1, <1>2, DotEqual

\* (1) tells everybody apart who does not open the root.
LEMMA SeparatedInit == ASSUME Init PROVE Separated
<1> SUFFICES ASSUME NEW A \in SUBSET Labels(tree), ~Opens(tree, A)
             PROVE  \E w : Avoids(A, w)
  BY DEF Separated
<1>1. c = 1 /\ DOMAIN vec = {<<>>}
  BY DEF Init
<1>2. ~Opened(tree, A)[<<>>]
  BY DEF Opens
<1>3. [j \in 1..1 |-> 1] \in [1..1 -> Int] /\ [j \in 1..1 |-> 1][1] = 1
  OBVIOUS
<1>4. Avoids(A, [j \in 1..1 |-> 1])
  BY <1>1, <1>2, <1>3 DEF Avoids
<1>5. QED
  BY <1>4

\* Vectors that no step overwrites keep their products.
LEMMA OtherDots ==
  ASSUME SharesTyped, NEW n \in Memory, Grown(mem, n), ~Clobbers(n),
         NEW p \in DOMAIN vec, NEW w, Integral(w, c), NEW x, \A j \in 1..c : x[j] = w[j]
  PROVE  Dot(n[vec[p].arr], vec[p].len, x) = Dot(mem[vec[p].arr], vec[p].len, w)
<1> DEFINE s == vec[p]
<1>1. mem \in Memory /\ Slice(mem, s) /\ s.len <= c /\ c \in Nat
  BY DEF SharesTyped
<1>2. Content(n, s) = Content(mem, s)
  BY DEF Clobbers
<1> HIDE DEF s
<1>3. Slice(n, s)
  BY <1>1, SliceGrown
<1>4. \A j \in 1..s.len : j \in 1..c
  BY <1>1, SliceBounds
<1>5. Integral(w, s.len) /\ \A j \in 1..s.len : x[j] = w[j]
  BY <1>4 DEF Integral
<1>6. Dot(n[s.arr], s.len, x) = Dot(mem[s.arr], s.len, w)
  BY ONLY n \in Memory, <1>1, <1>2, <1>3, <1>5, KeptDot
<1>7. QED
  BY <1>6 DEF s

\* Who opens a node opens both or one of its children.
LEMMA OpenKids ==
  ASSUME SharesTyped, todo # <<>>, ~IsLeaf(tree, Next1), NEW A
  PROVE  LET o == Opened(tree, A) IN
           o[Next1] <=> IF tree[Next1] = <<"and">> THEN o[Kid(1)] /\ o[Kid(2)]
                        ELSE o[Kid(1)] \/ o[Kid(2)]
<1>1. Next1 \in DOMAIN tree /\ IsTree(tree)
  BY NextNode, NodesAreSequences DEF SharesTyped
<1>2. QED
  BY <1>1, OpenNodes DEF Kid

\* The children of an OR are no more open than it is, and have its vector.
LEMMA OrSeparated ==
  ASSUME SharesTyped, Separated, LabelOr
  PROVE  Separated'
<1> DEFINE p == padWithZeros(mem, vec[Next1], c)
<1>1. todo # <<>> /\ ~IsLeaf(tree, Next1) /\ tree[Next1] # <<"and">>
  BY DEF LabelOr
<1>2. p \in Pads(mem, vec[Next1], c)
  BY <1>1, NextSlice, Padded
<1>3. /\ vec' = Labelled(p.slice, p.slice, p.slice) /\ mem' = p.mem
      /\ short' = (short \/ p.slice.len < c) /\ clobbered' = (clobbered \/ Clobbers(p.mem))
      /\ tree' = tree /\ c' = c
  BY DEF LabelOr
<1> HIDE DEF p
<1>4. /\ p.mem \in Memory /\ Slice(p.mem, p.slice) /\ p.slice.len <= c /\ Grown(mem, p.mem)
      /\ vec[Next1].len <= p.slice.len /\ p.slice.len \in Nat
      /\ Reads(p.mem, p.slice, mem, vec[Next1], p.slice.len)
  BY <1>2 DEF Pads, Kept, Reads
<1> SUFFICES ASSUME ~short', ~clobbered', NEW A \in SUBSET Labels(tree), ~Opens(tree, A)
             PROVE  \E w : Avoids(A, w)'
  BY <1>3 DEF Separated
<1>5. ~short /\ ~clobbered /\ ~Clobbers(p.mem)
  BY <1>3
<1>6. PICK w : Avoids(A, w)
  BY <1>5 DEF Separated
<1>7. w \in [1..c -> Int] /\ w[1] = 1
      /\ \A q \in DOMAIN vec : Opened(tree, A)[q] => Dot(mem[vec[q].arr], vec[q].len, w) = 0
  BY <1>6 DEF Avoids
<1>8. ASSUME NEW q \in DOMAIN vec', Opened(tree, A)[q]
      PROVE  Dot(p.mem[vec'[q].arr], vec'[q].len, w) = 0
  <2>1. CASE q \in {Next1, Kid(1), Kid(2)}
    <3>1. vec'[q] = p.slice
      BY <1>1, <1>3, <2>1, LabelledNodes
    <3>2. Opened(tree, A)[Next1]
      BY <1>1, <1>8, <2>1, OpenKids
    <3>3. Dot(mem[vec[Next1].arr], vec[Next1].len, w) = 0
      BY <1>1, <1>7, <3>2, NextNode
    <3>4. Integral(w, vec[Next1].len) /\ Integral(w, p.slice.len)
      <4>1. \A j \in 1..vec[Next1].len : j \in 1..c
        BY <1>1, NextSlice
      <4>2. \A j \in 1..p.slice.len : j \in 1..c
        BY <1>1, <1>4, NextSlice
      <4>3. QED
        BY <1>7, <4>1, <4>2 DEF Integral
    <3>5. Dot(p.mem[p.slice.arr], p.slice.len, w) = Dot(mem[vec[Next1].arr], vec[Next1].len, w)
      <4> DEFINE s == vec[Next1]
                 t == p.slice
                 l == p.slice.len
      <4>1. /\ mem \in Memory /\ Slice(mem, s) /\ l \in Nat /\ s.len <= l
            /\ Reads(p.mem, t, mem, s, l) /\ Integral(w, s.len) /\ Integral(w, l)
        BY <1>1, <1>4, <3>4, NextSlice
      <4> HIDE DEF s, t, l
      <4>2. Dot(p.mem[t.arr], l, w) = Dot(mem[s.arr], s.len, w)
        BY <4>1, ReadsDot
      <4>3. QED
        BY <4>2 DEF s, t, l
    <3>6. QED
      BY <3>1, <3>3, <3>5
  <2>2. CASE q \notin {Next1, Kid(1), Kid(2)}
    <3>1. q \in DOMAIN vec /\ vec'[q] = vec[q]
      BY <1>1, <1>3, <2>2, LabelledNodes
    <3>2. Integral(w, c)
      BY <1>7 DEF Integral
    <3>3. Dot(p.mem[vec[q].arr], vec[q].len, w) = Dot(mem[vec[q].arr], vec[q].len, w)
      BY <1>4, <1>5, <3>1, <3>2, OtherDots
    <3>4. QED
      BY <1>7, <1>8, <3>1, <3>3
  <2>3. QED
    BY <2>1, <2>2
<1>9. Avoids(A, w)'
  BY <1>3, <1>7, <1>8 DEF Avoids
<1>10. QED
  BY <1>9

\* The entry of the new column takes the product of the left vector to zero where
\* the left child alone is open.
LEMMA AndSeparated ==
  ASSUME SharesTyped, Separated, LabelAnd
  PROVE  Separated'
<1> DEFINE s == vec[Next1]
           p == padWithZeros(mem, s, c)
           l == AppendTo(p.mem, p.slice, 1)
           zeros == Append(l.mem, Zeros(p.slice.len))
           r == AppendTo(zeros, [arr |-> Len(zeros), len |-> p.slice.len], -1)
           k == p.slice.len
           n == r.mem
<1>1. todo # <<>> /\ ~IsLeaf(tree, Next1) /\ tree[Next1] = <<"and">>
  BY DEF LabelAnd
<1>2. /\ k \in Nat /\ s.len <= k /\ k <= c
      /\ n \in Memory /\ Kept(mem, n, s.len)
      /\ Slice(n, p.slice) /\ Reads(n, p.slice, mem, s, k)
      /\ Slice(n, l.slice) /\ Reads(n, l.slice, mem, s, k)
      /\ l.slice.len = k + 1 /\ n[l.slice.arr][k + 1] = 1
      /\ Slice(n, r.slice) /\ \A j \in 1..k : n[r.slice.arr][j] = 0
      /\ r.slice.len = k + 1 /\ n[r.slice.arr][k + 1] = -1
  BY <1>1, NextSlice, AndVectors, ZenonT(60)
<1>3. /\ vec' = Labelled(p.slice, l.slice, r.slice) /\ mem' = n
      /\ short' = (short \/ p.slice.len < c) /\ clobbered' = (clobbered \/ Clobbers(n))
      /\ tree' = tree /\ c' = c + 1
  BY DEF LabelAnd
<1>4. p.slice.len = k
  OBVIOUS
<1> HIDE DEF p, l, zeros, r, k, n
<1> SUFFICES ASSUME ~short', ~clobbered', NEW A \in SUBSET Labels(tree), ~Opens(tree, A)
             PROVE  \E w : Avoids(A, w)'
  BY <1>3 DEF Separated
<1>5. ~short /\ ~clobbered /\ ~Clobbers(n) /\ ~(k < c)
  BY <1>3, <1>4
<1>6. PICK w : Avoids(A, w)
  BY <1>5 DEF Separated
<1>7. w \in [1..c -> Int] /\ w[1] = 1
      /\ \A q \in DOMAIN vec : Opened(tree, A)[q] => Dot(mem[vec[q].arr], vec[q].len, w) = 0
  BY <1>6 DEF Avoids
<1>8. c \in Nat \ {0} /\ k = c /\ s.len \in Nat /\ mem \in Memory /\ Slice(mem, s)
  <2>1. c \in Nat \ {0}
    BY DEF SharesTyped
  <2>2. QED
    BY <1>1, <1>2, <1>5, <2>1, NextSlice
<1> DEFINE o == Opened(tree, A)
           d == Dot(mem[s.arr], s.len, w)
           z == IF o[Kid(1)] THEN -d ELSE 0
           extended == [j \in 1..c + 1 |-> IF j <= c THEN w[j] ELSE z]
<1> PICK x : x = extended
  OBVIOUS
<1>9. d \in Int
  <2>1. Integral(mem[s.arr], s.len)
    BY <1>8, ContentTyped DEF Integral
  <2>2. \A j \in 1..s.len : j \in 1..c
    BY <1>2, <1>8
  <2>3. Integral(w, s.len)
    BY <1>7, <2>2 DEF Integral
  <2>4. QED
    BY <1>8, <2>1, <2>3, Products
<1>10. o[Next1] => d = 0
  BY <1>1, <1>7, NextNode
<1>11. o[Next1] <=> o[Kid(1)] /\ o[Kid(2)]
  BY <1>1, OpenKids
<1> HIDE DEF d, o
<1>12. z \in Int
  BY <1>9
<1> HIDE DEF z
<1>13. /\ x \in [1..c + 1 -> Int] /\ x[1] = 1 /\ x[c + 1] = z
       /\ \A j \in 1..c : x[j] = w[j]
  <2>1. \A j \in 1..c + 1 : j <= c => j \in 1..c
    BY <1>8
  <2>2. x \in [1..c + 1 -> Int]
    BY <1>7, <1>12, <2>1
  <2>3. \A j \in 1..c : j \in 1..c + 1 /\ j <= c
    BY <1>8
  <2>4. 1 \in 1..c /\ c + 1 \in 1..c + 1 /\ ~(c + 1 <= c)
    BY <1>8
  <2>5. QED
    BY <1>7, <2>2, <2>3, <2>4
<1> HIDE DEF extended
<1>14. Integral(w, c) /\ Integral(w, s.len) /\ Integral(x, c) /\ Integral(x, c + 1)
       /\ \A j \in 1..s.len : x[j] = w[j]
  <2>1. \A j \in 1..s.len : j \in 1..c
    BY <1>2, <1>8
  <2>2. QED
    BY <1>7, <1>13, <2>1 DEF Integral
<1>15. \A t \in {p.slice, l.slice} : Dot(n[t.arr], c, x) = d
  <2> SUFFICES ASSUME NEW t \in {p.slice, l.slice} PROVE Dot(n[t.arr], c, x) = d
    OBVIOUS
  <2>1. Reads(n, t, mem, s, c) /\ c \in Nat /\ s.len <= c
    BY <1>2, <1>8
  <2> HIDE DEF s
  <2>2. QED
    BY <1>8, <1>14, <2>1, ReadsDot DEF d
<1>16. Dot(n[l.slice.arr], c + 1, x) = d + z
  <2> DEFINE u == n[l.slice.arr]
  <2>1. Integral(u, c + 1) /\ u[c + 1] = 1
    <3>1. l.slice.len = c + 1 /\ u[c + 1] = 1
      BY <1>2, <1>8
    <3>2. QED
      BY <1>2, <3>1, ContentTyped DEF Integral
  <2>2. Dot(u, c, x) = d
    BY <1>15
  <2> HIDE DEF u
  <2>3. Dot(u, c + 1, x) = Dot(u, c, x) + u[c + 1] * x[c + 1]
    BY <1>8, <1>14, <2>1, DotOfAppended
  <2>4. u[c + 1] * x[c + 1] = z
    BY <1>12, <1>13, <2>1
  <2>5. QED
    BY <2>2, <2>3, <2>4 DEF u
<1>17. Dot(n[r.slice.arr], c + 1, x) = -z
  <2> DEFINE u == n[r.slice.arr]
  <2>1. Integral(u, c + 1) /\ u[c + 1] = -1
    <3>1. r.slice.len = c + 1 /\ u[c + 1] = -1
      BY <1>2, <1>8
    <3>2. QED
      BY <1>2, <3>1, ContentTyped DEF Integral
  <2>2. \A j \in 1..c : u[j] = 0
    BY <1>2, <1>8
  <2> HIDE DEF u
  <2>3. Dot(u, c, x) = 0
    <3> DEFINE f == [j \in 1..c |-> u[j] * x[j]]
    <3>1. \A j \in 1..c : f[j] = 0
      BY <1>14, <2>2 DEF Integral
    <3>2. IsFiniteSet(1..c)
      BY <1>8, FS_Interval
    <3> HIDE DEF f
    <3>3. QED
      BY <3>1, <3>2, TotalOfZeros DEF Dot, f
  <2>4. Dot(u, c + 1, x) = Dot(u, c, x) + u[c + 1] * x[c + 1]
    BY <1>8, <1>14, <2>1, DotOfAppended
  <2>5. u[c + 1] * x[c + 1] = -z
    BY <1>12, <1>13, <2>1
  <2>6. QED
    BY <1>12, <2>3, <2>4, <2>5 DEF u
<1>18. ASSUME NEW q \in DOMAIN vec', o[q]
       PROVE  Dot(n[vec'[q].arr], vec'[q].len, x) = 0
  <2>1. CASE q = Next1
    <3>1. vec'[q] = p.slice /\ p.slice.len = c
      BY <1>1, <1>3, <1>4, <1>8, <2>1, LabelledNodes
    <3>2. QED
      BY <1>10, <1>15, <1>18, <2>1, <3>1
  <2>2. CASE q = Kid(1)
    <3>1. vec'[q] = l.slice /\ l.slice.len = c + 1
      BY <1>1, <1>2, <1>3, <1>8, <2>2, LabelledNodes
    <3>2. d + z = 0
      BY <1>9, <1>18, <2>2 DEF z
    <3>3. QED
      BY <1>16, <3>1, <3>2
  <2>3. CASE q = Kid(2)
    <3>1. vec'[q] = r.slice /\ r.slice.len = c + 1
      BY <1>1, <1>2, <1>3, <1>8, <2>3, LabelledNodes
    <3>2. z = 0
      BY <1>9, <1>10, <1>11, <1>18, <2>3 DEF z
    <3>3. QED
      BY <1>17, <3>1, <3>2
  <2>4. CASE q \notin {Next1, Kid(1), Kid(2)}
    <3>1. q \in DOMAIN vec /\ vec'[q] = vec[q]
      BY <1>1, <1>3, <2>4, LabelledNodes
    <3>2. Grown(mem, n)
      BY <1>2 DEF Kept
    <3>3. n \in Memory /\ ~Clobbers(n) /\ Integral(w, c) /\ \A j \in 1..c : x[j] = w[j]
      BY <1>2, <1>5, <1>13, <1>14
    <3>4. Dot(n[vec[q].arr], vec[q].len, x) = Dot(mem[vec[q].arr], vec[q].len, w)
      BY ONLY SharesTyped, <3>1, <3>2, <3>3, OtherDots
    <3>5. QED
      BY <1>7, <1>18, <3>1, <3>4 DEF o
  <2>5. QED
    BY <2>1, <2>2, <2>3, <2>4
<1>19. Avoids(A, x)'
  <2>1. x \in [1..c' -> Int] /\ x[1] = 1
    BY <1>3, <1>13
  <2>2. \A q \in DOMAIN vec' :
          Opened(tree', A)[q] => Dot(mem'[vec'[q].arr], vec'[q].len, x) = 0
    BY <1>3, <1>18 DEF o
  <2>3. QED
    BY <2>1, <2>2 DEF Avoids
<1>20. QED
  BY <1>19

\* Every step leaves such a vector to be found.
LEMMA SeparatedNext ==
  ASSUME SharesTyped, Separated, [Next]_vars
  PROVE  Separated'
<1>1. CASE LabelOr
  BY <1>1, OrSeparated
<1>2. CASE LabelAnd
  BY <1>2, AndSeparated
<1>3. CASE LabelLeaf \/ UNCHANGED vars \/ \E attrs \in SUBSET Labels(tree) : Select(attrs)
  <2>1. /\ tree' = tree /\ vec' = vec /\ mem' = mem
        /\ c' = c /\ short' = short /\ clobbered' = clobbered
    BY <1>3 DEF vars, LabelLeaf, Select
  <2>2. QED
    BY <2>1 DEF Separated, Avoids
<1>4. QED
  BY <1>1, <1>2, <1>3 DEF Next

-----------------------------------------------------------------------------
\* The coefficients are those of the rows selected, once the tree is done.
Selected ==
  held # {} => /\ held \in SUBSET Labels(tree) /\ todo = <<>>
               /\ Rows(held) # <<>> /\ coeff = computeCoefficients(Rows(held))

\* The rows depend on what is labelled only.
LEMMA RowsKept ==
  ASSUME NEW A, UNCHANGED <<tree, leaves, vec, mem, c>>
  PROVE  Rows(A)' = Rows(A)
<1>1. tree' = tree /\ leaves' = leaves /\ vec' = vec /\ mem' = mem /\ c' = c
  OBVIOUS
<1>2. encodeAccessPolicy' = encodeAccessPolicy
  BY <1>1 DEF encodeAccessPolicy
<1>3. QED
  BY <1>1, <1>2 DEF Rows

\* Nothing is labelled once coefficients are selected.
LEMMA SelectedNext ==
  ASSUME Selected, [Next]_vars
  PROVE  Selected'
<1>1. CASE LabelLeaf \/ LabelOr \/ LabelAnd
  <2>1. todo # <<>> /\ held' = held
    BY <1>1 DEF LabelLeaf, LabelOr, LabelAnd
  <2>2. held = {}
    BY <2>1 DEF Selected
  <2>3. QED
    BY <2>1, <2>2 DEF Selected
<1>2. ASSUME NEW attrs \in SUBSET Labels(tree), Select(attrs)
      PROVE  Selected'
  <2>1. /\ todo = <<>> /\ Rows(attrs) # <<>> /\ held' = attrs /\ todo' = todo /\ tree' = tree
        /\ coeff' = computeCoefficients(Rows(attrs))
        /\ UNCHANGED <<tree, leaves, vec, mem, c>>
    BY <1>2 DEF Select
  <2>2. Rows(attrs)' = Rows(attrs)
    BY <2>1, RowsKept
  <2>3. attrs \in SUBSET Labels(tree')
    BY <2>1
  <2>4. Rows(held)' = Rows(attrs)'
    BY <2>1
  <2>5. QED
    BY <2>1, <2>2, <2>3, <2>4 DEF Selected
<1>3. CASE UNCHANGED vars
  <2>1. /\ held' = held /\ todo' = todo /\ tree' = tree /\ coeff' = coeff
        /\ UNCHANGED <<tree, leaves, vec, mem, c>>
    BY <1>3 DEF vars
  <2>2. PICK A : A = held
    OBVIOUS
  <2>3. Rows(A)' = Rows(A)
    BY <2>1, RowsKept
  <2>4. Rows(held)' = Rows(A)'
    BY <2>1, <2>2
  <2>5. QED
    BY <2>1, <2>2, <2>3, <2>4 DEF Selected
<1>4. QED
  BY <1>1, <1>2, <1>3 DEF Next

-----------------------------------------------------------------------------
\* What holds along a lean tree: the one inner node to do, if any, has a vector
\* of all columns in use.
Aligned ==
  Lean(tree) =>
    /\ ~short /\ ~clobbered
    /\ \A i \in 1..Len(todo) :
         ~IsLeaf(tree, todo[i]) =>
           /\ vec[todo[i]].len = c
           /\ \A j \in 1..Len(todo) : ~IsLeaf(tree, todo[j]) => j = i

\* A memory that keeps every entry up to the counter clobbers nothing.
LEMMA NotClobbered ==
  ASSUME SharesTyped, NEW n \in Memory, Kept(mem, n, c)
  PROVE  ~Clobbers(n)
<1> SUFFICES ASSUME NEW p \in DOMAIN vec PROVE Content(n, vec[p]) = Content(mem, vec[p])
  BY DEF Clobbers
<1> DEFINE s == vec[p]
<1>1. mem \in Memory /\ Slice(mem, s) /\ s.len <= c /\ c \in Nat
  BY DEF SharesTyped
<1> HIDE DEF s
<1>2. Slice(n, s)
  BY <1>1, SliceGrown DEF Kept
<1>3. s.arr \in 1..Len(mem) /\ \A j \in 1..s.len : j \in 1..Len(mem[s.arr]) /\ j <= c
  BY <1>1, SliceBounds
<1>4. \A j \in 1..s.len : n[s.arr][j] = mem[s.arr][j]
  BY <1>3 DEF Kept
<1>5. Content(n, s) = Content(mem, s)
  BY <1>1, <1>2, <1>4, SameContent
<1>6. QED
  BY <1>5 DEF s

\* The children are next, the left one first.
LEMMA KidsNext ==
  ASSUME SharesTyped, todo # <<>>, todo' = Front(todo) \o <<Kid(2), Kid(1)>>
  PROVE  /\ Len(todo') = Len(todo) + 1 /\ Len(todo) \in Nat \ {0}
         /\ \A i \in 1..Len(todo) - 1 : todo'[i] = todo[i]
         /\ todo'[Len(todo)] = Kid(2) /\ todo'[Len(todo) + 1] = Kid(1)
<1> DEFINE f == Front(todo)
           k == <<Kid(2), Kid(1)>>
           n == Len(todo)
           D == DOMAIN vec \cup {Kid(1), Kid(2)}
<1>1. f \in Seq(D) /\ Len(f) = n - 1 /\ n \in Nat \ {0} /\ \A i \in 1..n - 1 : f[i] = todo[i]
  <2>1. f \in Seq(DOMAIN vec) /\ DOMAIN vec \subseteq D
    BY NextNode
  <2>2. \A S, T : S \subseteq T => Seq(S) \subseteq Seq(T)
    OBVIOUS
  <2> HIDE DEF D
  <2>3. QED
    BY <2>1, <2>2, NextNode
<1>2. k \in Seq(D) /\ Len(k) = 2 /\ k[1] = Kid(2) /\ k[2] = Kid(1)
  OBVIOUS
<1> HIDE DEF f, k, D
<1>3. Len(f \o k) = Len(f) + Len(k)
      /\ \A i \in 1..Len(f) + Len(k) : (f \o k)[i] = IF i <= Len(f) THEN f[i] ELSE k[i - Len(f)]
  BY <1>1, <1>2, ConcatProperties
<1>4. todo' = f \o k
  BY DEF f, k
<1> HIDE DEF n
<1>5. Len(todo') = n + 1 /\ \A i \in 1..n + 1 : todo'[i] = IF i <= n - 1 THEN f[i] ELSE k[i - (n - 1)]
  BY <1>1, <1>2, <1>3, <1>4
<1>6. n \in 1..n + 1 /\ n + 1 \in 1..n + 1 /\ ~(n <= n - 1) /\ ~(n + 1 <= n - 1)
      /\ n - (n - 1) = 1 /\ (n + 1) - (n - 1) = 2
  BY <1>1
<1>7. \A i \in 1..n - 1 : i \in 1..n + 1 /\ i <= n - 1
  BY <1>1
<1>8. QED
  BY <1>1, <1>2, <1>5, <1>6, <1>7 DEF n

\* One child of a lean tree's node at most is an inner node.
LEMMA KidsAligned ==
  ASSUME SharesTyped, todo # <<>>, ~IsLeaf(tree, Next1), Lean(tree), Aligned,
         NEW o, NEW l, NEW r, vec' = Labelled(o, l, r), tree' = tree,
         todo' = Front(todo) \o <<Kid(2), Kid(1)>>, NEW d, l.len = d, r.len = d, c' = d,
         ~short', ~clobbered'
  PROVE  Aligned'
<1> DEFINE n == Len(todo)
<1>1. n \in Nat \ {0} /\ Next1 = todo[n] /\ \A i \in 1..n - 1 : i \in 1..n
  BY NextNode
<1>2. /\ Len(todo') = n + 1 /\ \A i \in 1..n - 1 : todo'[i] = todo[i]
      /\ todo'[n] = Kid(2) /\ todo'[n + 1] = Kid(1)
  BY KidsNext
<1>3. \A i \in 1..n - 1 : IsLeaf(tree, todo[i])
  <2> SUFFICES ASSUME NEW i \in 1..n - 1, ~IsLeaf(tree, todo[i]) PROVE FALSE
    OBVIOUS
  <2>1. i \in 1..n /\ n \in 1..n /\ i # n
    BY <1>1
  <2>2. ~IsLeaf(tree, todo[n])
    BY <1>1
  <2>3. QED
    BY <2>1, <2>2 DEF Aligned
<1>4. IsLeaf(tree, Kid(1)) \/ IsLeaf(tree, Kid(2))
  <2>1. Next1 \in DOMAIN tree
    BY NextNode DEF SharesTyped
  <2>2. QED
    BY <2>1 DEF Lean, Kid
<1>5. vec'[Kid(1)] = l /\ vec'[Kid(2)] = r
  BY LabelledNodes
<1> HIDE DEF n
<1>6. ASSUME NEW i \in 1..n + 1, ~IsLeaf(tree, todo'[i])
      PROVE  /\ vec'[todo'[i]].len = d
             /\ i = n \/ i = n + 1
             /\ todo'[i] = IF i = n THEN Kid(2) ELSE Kid(1)
  <2>1. i \in 1..n - 1 \/ i = n \/ i = n + 1
    BY <1>1
  <2>2. i \notin 1..n - 1
    BY <1>2, <1>3, <1>6
  <2>3. n + 1 # n
    BY <1>1
  <2>4. QED
    BY <1>2, <1>5, <2>1, <2>2, <2>3
<1>7. ASSUME NEW i \in 1..n + 1, ~IsLeaf(tree, todo'[i]),
             NEW j \in 1..n + 1, ~IsLeaf(tree, todo'[j])
      PROVE  j = i
  BY <1>4, <1>6, <1>7
<1>8. QED
  BY <1>2, <1>6, <1>7 DEF Aligned

\* A vector of all columns is not padded; its children's are as long.
LEMMA OrAligned ==
  ASSUME SharesTyped, Aligned, LabelOr
  PROVE  Aligned'
<1> SUFFICES ASSUME Lean(tree) PROVE Aligned'
  BY DEF Aligned, LabelOr
<1> DEFINE s == vec[Next1]
           p == padWithZeros(mem, s, c)
<1>1. todo # <<>> /\ ~IsLeaf(tree, Next1)
  BY DEF LabelOr
<1>2. p \in Pads(mem, s, c) /\ mem \in Memory /\ Slice(mem, s)
  BY <1>1, NextSlice, Padded
<1>3. s.len = c /\ ~short /\ ~clobbered
  <2>1. Len(todo) \in 1..Len(todo) /\ Next1 = todo[Len(todo)]
    BY <1>1, NextNode
  <2>2. QED
    BY <1>1, <2>1 DEF Aligned
<1>4. /\ vec' = Labelled(p.slice, p.slice, p.slice) /\ mem' = p.mem
      /\ short' = (short \/ p.slice.len < c) /\ clobbered' = (clobbered \/ Clobbers(p.mem))
      /\ tree' = tree /\ c' = c /\ todo' = Front(todo) \o <<Kid(2), Kid(1)>>
  BY DEF LabelOr
<1> HIDE DEF p
<1>5. p.mem = mem /\ p.slice = s
  <2> HIDE DEF s
  <2>1. p = [mem |-> mem, slice |-> s]
    BY <1>2, <1>3 DEF Pads
  <2>2. QED
    BY <2>1
<1>6. ~Clobbers(p.mem) /\ ~(p.slice.len < c)
  <2>1. Kept(mem, mem, c) /\ c \in Nat
    BY <1>2, KeptReflexive DEF SharesTyped
  <2>2. ~Clobbers(mem)
    BY <1>2, <2>1, NotClobbered
  <2>3. ~(c < c)
    BY <2>1
  <2>4. QED
    BY <1>3, <1>5, <2>2, <2>3
<1>7. ~short' /\ ~clobbered'
  BY <1>3, <1>4, <1>6
<1>8. p.slice.len = c
  BY <1>3, <1>5
<1>9. QED
  BY <1>1, <1>4, <1>7, <1>8, KidsAligned

\* The children of an AND get the new column as well.
LEMMA AndAligned ==
  ASSUME SharesTyped, Aligned, LabelAnd
  PROVE  Aligned'
<1> SUFFICES ASSUME Lean(tree) PROVE Aligned'
  BY DEF Aligned, LabelAnd
<1> DEFINE s == vec[Next1]
           p == padWithZeros(mem, s, c)
           l == AppendTo(p.mem, p.slice, 1)
           zeros == Append(l.mem, Zeros(p.slice.len))
           r == AppendTo(zeros, [arr |-> Len(zeros), len |-> p.slice.len], -1)
           k == p.slice.len
           n == r.mem
<1>1. todo # <<>> /\ ~IsLeaf(tree, Next1)
  BY DEF LabelAnd
<1>2. /\ k \in Nat /\ s.len <= k /\ k <= c
      /\ n \in Memory /\ Kept(mem, n, s.len)
      /\ l.slice.len = k + 1 /\ r.slice.len = k + 1
  BY <1>1, NextSlice, AndVectors, ZenonT(60)
<1>3. s.len = c /\ ~short /\ ~clobbered /\ c \in Nat
  <2>1. Len(todo) \in 1..Len(todo) /\ Next1 = todo[Len(todo)]
    BY <1>1, NextNode
  <2>2. QED
    BY <1>1, <2>1 DEF Aligned, SharesTyped
<1>4. /\ vec' = Labelled(p.slice, l.slice, r.slice) /\ mem' = n
      /\ short' = (short \/ p.slice.len < c) /\ clobbered' = (clobbered \/ Clobbers(n))
      /\ tree' = tree /\ c' = c + 1 /\ todo' = Front(todo) \o <<Kid(2), Kid(1)>>
  BY DEF LabelAnd
<1>5. p.slice.len = k
  OBVIOUS
<1> HIDE DEF s, p, l, zeros, r, k, n
<1>6. k = c
  BY <1>2, <1>3
<1>7. ~Clobbers(n) /\ ~(p.slice.len < c)
  BY <1>2, <1>3, <1>5, <1>6, NotClobbered
<1>8. ~short' /\ ~clobbered'
  BY <1>3, <1>4, <1>7
<1>9. l.slice.len = c + 1 /\ r.slice.len = c + 1
  BY <1>2, <1>6
<1>10. QED
  BY <1>1, <1>4, <1>8, <1>9, KidsAligned

\* The root is aligned, and every step keeps the nodes to do so.
LEMMA AlignedInit == Init => Aligned
<1> SUFFICES ASSUME Init PROVE Aligned
  OBVIOUS
<1>1. todo = << <<>> >> /\ c = 1 /\ short = FALSE /\ clobbered = FALSE
      /\ vec = [p \in {<<>>} |-> [arr |-> 1, len |-> 1]]
  BY DEF Init
<1>2. ~short /\ ~clobbered
  BY <1>1
<1>3. Len(todo) = 1 /\ todo[1] = <<>> /\ vec[<<>>].len = c
  BY <1>1
<1>4. QED
  BY <1>2, <1>3 DEF Aligned

LEMMA AlignedNext ==
  ASSUME SharesTyped, Aligned, [Next]_vars
  PROVE  Aligned'
<1>1. CASE LabelLeaf
  <2> SUFFICES ASSUME Lean(tree) PROVE Aligned'
    BY <1>1 DEF Aligned, LabelLeaf
  <2>1. /\ todo # <<>> /\ todo' = Front(todo) /\ tree' = tree /\ vec' = vec
        /\ c' = c /\ short' = short /\ clobbered' = clobbered
    BY <1>1 DEF LabelLeaf
  <2>2. /\ Len(todo) \in Nat \ {0} /\ Len(todo') = Len(todo) - 1
        /\ \A i \in 1..Len(todo) - 1 : todo'[i] = todo[i] /\ i \in 1..Len(todo)
    BY <2>1, NextNode
  <2>3. QED
    BY <2>1, <2>2 DEF Aligned
<1>2. CASE LabelOr
  BY <1>2, OrAligned
<1>3. CASE LabelAnd
  BY <1>3, AndAligned
<1>4. CASE UNCHANGED vars \/ \E attrs \in SUBSET Labels(tree) : Select(attrs)
  <2>1. /\ tree' = tree /\ todo' = todo /\ vec' = vec
        /\ c' = c /\ short' = short /\ clobbered' = clobbered
    BY <1>4 DEF vars, Select
  <2>2. QED
    BY <2>1 DEF Aligned
<1>5. QED
  BY <1>1, <1>2, <1>3, <1>4 DEF Next

-----------------------------------------------------------------------------
(***************************************************************************)
(* Results.                                                                *)
(***************************************************************************)
\* No integers at all combine the rows of attributes that do not open the tree.
NoneReconstruct ==
  ~short /\ ~clobbered =>
    \A A \in SUBSET Labels(tree) :
      ~Opens(tree, A) /\ Rows(A) # <<>> =>
        \A k \in [1..Len(Rows(A)) -> Int] : ~linCombMatches(k, Rows(A))

\* The rows of attributes held are a matrix of c columns.
LEMMA RowsMatrix ==
  ASSUME SharesTyped, NEW A, Rows(A) # <<>>
  PROVE  /\ Rows(A) \in RowsOf(A) /\ Len(Rows(A)) \in Nat \ {0}
         /\ Rows(A) \in Matrix(Len(Rows(A)), c)
<1> DEFINE a == Rows(A)
<1>1. a \in RowsOf(A)
  BY RowsTyped DEF SharesTyped
<1>2. a \in Seq([1..c -> Int]) /\ a # <<>>
  BY <1>1 DEF RowsOf
<1> HIDE DEF a
<1>3. Len(a) \in Nat \ {0} /\ a \in [1..Len(a) -> [1..c -> Int]]
  BY <1>2
<1>4. QED
  BY <1>1, <1>3 DEF a, Matrix

\* A vector orthogonal to all rows rules out coefficients for the first column.
LEMMA SeparatedRows ==
  ASSUME SharesTyped, Separated
  PROVE  NoneReconstruct
<1> SUFFICES ASSUME ~short, ~clobbered, NEW A \in SUBSET Labels(tree), ~Opens(tree, A),
                    Rows(A) # <<>>, NEW k \in [1..Len(Rows(A)) -> Int]
             PROVE  ~linCombMatches(k, Rows(A))
  BY DEF NoneReconstruct
<1>1. PICK w : Avoids(A, w)
  BY DEF Separated
<1> DEFINE a == Rows(A)
           n == Len(a)
<1>2. a \in RowsOf(A) /\ n \in Nat \ {0} /\ a \in Matrix(n, c)
  BY RowsMatrix
<1>3. k \in [1..n -> Int]
  OBVIOUS
<1> HIDE DEF a
<1>4. ASSUME NEW i \in 1..n
      PROVE  Dot(a[i], c, w) = 0
  <2>1. PICK p \in DOMAIN vec : IsLeaf(tree, p) /\ tree[p] \in A /\ a[i] = Row(mem, vec[p], c)
    BY <1>2 DEF RowsOf
  <2>2. Opened(tree, A)[p]
    <3>1. p \in DOMAIN tree /\ IsTree(tree)
      BY NodesAreSequences DEF SharesTyped
    <3>2. QED
      BY <2>1, <3>1, OpenNodes
  <2>3. Dot(mem[vec[p].arr], vec[p].len, w) = 0 /\ w \in [1..c -> Int]
    BY <1>1, <2>2 DEF Avoids
  <2>4. mem \in Memory /\ Slice(mem, vec[p]) /\ vec[p].len <= c /\ c \in Nat
    BY DEF SharesTyped
  <2>5. QED
    BY <2>1, <2>3, <2>4, RowDot
<1>5. w \in [1..c -> Int] /\ w[1] = 1 /\ c \in Nat \ {0}
  BY <1>1 DEF Avoids, SharesTyped
<1> HIDE DEF n
<1>6. ~linCombMatches(k, a)
  BY <1>2, <1>3, <1>4, <1>5, OrthogonalNeverMatches
<1>7. QED
  BY <1>6 DEF a

\* The coefficients selected are integers, so they do not match either.
LEMMA SelectedSound ==
  ASSUME SharesTyped, Selected, NoneReconstruct
  PROVE  SoundWhenAligned
<1> SUFFICES ASSUME held # {}, ~short, ~clobbered, ~Opens(tree, held)
             PROVE  ~linCombMatches(coeff, Rows(held))
  BY DEF SoundWhenAligned, Reconstructs
<1> DEFINE a == Rows(held)
<1>1. held \in SUBSET Labels(tree) /\ a # <<>> /\ coeff = computeCoefficients(a)
  BY DEF Selected
<1>2. c \in Nat \ {0} /\ Len(a) \in Nat \ {0} /\ a \in Matrix(Len(a), c)
  BY <1>1, RowsMatrix DEF SharesTyped
<1>3. computeCoefficients(a) \in [1..Len(a) -> Int]
  <2> HIDE DEF a
  <2>1. QED
    BY <1>2, CoefficientsTyped
<1>4. QED
  BY <1>1, <1>3 DEF NoneReconstruct

SharesInv == SharesTyped /\ Selected /\ Separated /\ Aligned

\* The inductive invariant.
LEMMA SharesInvariant == Spec => []SharesInv
<1>1. Init => SharesInv
  <2> SUFFICES ASSUME Init PROVE SharesInv
    OBVIOUS
  <2>1. Selected
    BY DEF Init, Selected
  <2>2. QED
    BY <2>1, SharesTypedInit, SeparatedInit, AlignedInit DEF SharesInv
<1>2. SharesInv /\ [Next]_vars => SharesInv'
  BY SharesTypedNext, SelectedNext, SeparatedNext, AlignedNext DEF SharesInv
<1>3. QED
  BY <1>1, <1>2, PTL DEF Spec

\* The types: slices lie within their arrays and are no longer than the
\* counter of columns (btreeLabeling).
THEOREM SharesTypes == Spec => []SharesTyped
<1>1. SharesInv => SharesTyped
  BY DEF SharesInv
<1>2. QED
  BY <1>1, SharesInvariant, PTL

\* As long as every vector was padded in full and none overwritten, no integer
\* coefficients whatsoever, found by whatever method, combine the rows of
\* attributes that do not satisfy the tree to (1, 0, ..., 0).
THEOREM NoneReconstructs == Spec => []NoneReconstruct
<1>1. SharesInv => NoneReconstruct
  BY SeparatedRows DEF SharesInv
<1>2. QED
  BY <1>1, SharesInvariant, PTL

\* So the coefficients that SelectUserAttrs takes do not either.
THEOREM Sound == Spec => []SoundWhenAligned
<1>1. SharesInv => SoundWhenAligned
  BY SeparatedRows, SelectedSound DEF SharesInv
<1>2. QED
  BY <1>1, SharesInvariant, PTL

\* And along a tree with a single attribute on a side of every AND and OR, as a
\* comparison has, nothing goes wrong in the labelling: there attributes that do
\* not satisfy it never reconstruct the secret.
THEOREM LeanTreesSound == Spec => []LeanSound
<1>1. SharesInv => LeanSound
  BY SeparatedRows, SelectedSound DEF SharesInv, Aligned, SoundWhenAligned, LeanSound
<1>2. QED
  BY <1>1, SharesInvariant, PTL

-----------------------------------------------------------------------------
(***************************************************************************)
(* The trees of comparisons.                                               *)
(***************************************************************************)
\* The paths of a tree that grows to the right.
LEMMA TwosPaths ==
  ASSUME NEW j \in Nat
  PROVE  /\ Twos(j) \in Seq({1, 2}) /\ Len(Twos(j)) = j /\ \A i \in 1..j : Twos(j)[i] = 2
         /\ Append(Twos(j), 2) = Twos(j + 1)
<1>1. \A n \in Nat : Twos(n) \in [1..n -> {1, 2}] /\ \A i \in 1..n : Twos(n)[i] = 2
  BY DEF Twos
<1>2. \A n \in Nat : Twos(n) \in Seq({1, 2}) /\ Len(Twos(n)) = n
  BY <1>1
<1>3. Append(Twos(j), 2) = Twos(j + 1)
  <2> DEFINE s == Twos(j)
             u == Append(s, 2)
  <2>1. s \in Seq({1, 2}) /\ Len(s) = j /\ 2 \in {1, 2} /\ \A i \in 1..j : s[i] = 2
    BY <1>1, <1>2
  <2> HIDE DEF s
  <2>2. /\ u \in Seq({1, 2}) /\ Len(u) = j + 1
        /\ \A i \in 1..j : u[i] = s[i]
        /\ u[j + 1] = 2
    BY <2>1, AppendProperties
  <2> HIDE DEF u
  <2>3. \A i \in 1..j + 1 : u[i] = 2
    BY <2>1, <2>2
  <2>4. Twos(j + 1) \in Seq({1, 2}) /\ Len(Twos(j + 1)) = j + 1
        /\ \A i \in 1..j + 1 : Twos(j + 1)[i] = 2
    BY <1>1, <1>2
  <2>5. u = Twos(j + 1)
    BY <2>2, <2>3, <2>4, SeqEqual
  <2>6. QED
    BY <2>5 DEF u, s
<1>4. QED
  BY <1>1, <1>2, <1>3

\* A left turn ends them.
LEMMA TurnedPaths ==
  ASSUME NEW j \in Nat
  PROVE  LET l == Append(Twos(j), 1)
         IN  /\ l \in Seq({1, 2}) /\ Len(l) = j + 1 /\ l[j + 1] = 1
             /\ \A m \in Nat : l # Twos(m)
             /\ \A k \in {1, 2}, m \in Nat :
                  Append(l, k) # Twos(m) /\ Append(l, k) # Append(Twos(m), 1)
<1> DEFINE l == Append(Twos(j), 1)
<1>1. /\ l \in Seq({1, 2}) /\ Len(l) = j + 1 /\ l[j + 1] = 1
  <2>1. Twos(j) \in Seq({1, 2}) /\ Len(Twos(j)) = j /\ 1 \in {1, 2}
    BY TwosPaths
  <2>2. QED
    BY <2>1, AppendProperties
<1>2. \A m \in Nat : Len(Twos(m)) = m /\ \A i \in 1..m : Twos(m)[i] = 2
  BY TwosPaths
<1>3. \A m \in Nat : /\ Len(Append(Twos(m), 1)) = m + 1
                     /\ \A i \in 1..m : Append(Twos(m), 1)[i] = 2
  <2> SUFFICES ASSUME NEW m \in Nat
               PROVE  /\ Len(Append(Twos(m), 1)) = m + 1
                      /\ \A i \in 1..m : Append(Twos(m), 1)[i] = 2
    OBVIOUS
  <2>1. /\ Twos(m) \in Seq({1, 2}) /\ Len(Twos(m)) = m /\ 1 \in {1, 2}
        /\ \A i \in 1..m : Twos(m)[i] = 2
    BY TwosPaths
  <2>2. /\ Len(Append(Twos(m), 1)) = Len(Twos(m)) + 1
        /\ \A i \in 1..Len(Twos(m)) : Append(Twos(m), 1)[i] = Twos(m)[i]
    BY <2>1, AppendProperties
  <2>3. QED
    BY <2>1, <2>2
<1> HIDE DEF l
<1>4. \A m \in Nat : l # Twos(m)
  BY <1>1, <1>2
<1>5. ASSUME NEW k \in {1, 2}, NEW m \in Nat
      PROVE  Append(l, k) # Twos(m) /\ Append(l, k) # Append(Twos(m), 1)
  <2>1. Len(Append(l, k)) = j + 2 /\ Append(l, k)[j + 1] = 1
    BY <1>1, AppendProperties
  <2> DEFINE q == Append(l, k)
  <2> HIDE DEF q
  <2>2. q # Twos(m)
    <3> SUFFICES ASSUME q = Twos(m) PROVE FALSE
      OBVIOUS
    <3>1. m = j + 2 /\ q[j + 1] = 1
      BY <2>1, <1>2 DEF q
    <3>2. j + 1 \in 1..m
      BY <3>1
    <3>3. QED
      BY <1>2, <3>1, <3>2
  <2>3. q # Append(Twos(m), 1)
    <3> SUFFICES ASSUME q = Append(Twos(m), 1) PROVE FALSE
      OBVIOUS
    <3>1. Len(q) = j + 2 /\ Len(q) = m + 1 /\ q[j + 1] = 1
      BY <2>1, <1>3 DEF q
    <3>2. j + 1 \in 1..m
      BY <3>1
    <3>3. q[j + 1] = 2
      BY <1>3, <3>2
    <3>4. QED
      BY <3>1, <3>3
  <2>4. QED
    BY <2>2, <2>3 DEF q
<1>6. QED
  BY <1>1, <1>4, <1>5 DEF l

\* The nodes of a comb of n leaves and their labels.
CombShape(t, leafs, joins, n) ==
  /\ DOMAIN t = {Twos(k) : k \in 0..n - 1} \cup {Append(Twos(k), 1) : k \in 0..n - 2}
  /\ \A j \in 0..n - 2 :
       /\ Twos(j) \in DOMAIN t
       /\ Append(Twos(j), 1) \in DOMAIN t /\ Append(Twos(j), 2) \in DOMAIN t
       /\ t[Twos(j)] = joins[j + 1]
       /\ IsLeaf(t, Append(Twos(j), 1)) /\ ~IsLeaf(t, Twos(j))
       /\ Append(Append(Twos(j), 1), 2) \notin DOMAIN t
       /\ t[Append(Twos(j), 1)] = leafs[j + 1]
  /\ Twos(n - 1) \in DOMAIN t
  /\ IsLeaf(t, Twos(n - 1)) /\ Append(Twos(n - 1), 2) \notin DOMAIN t
  /\ t[Twos(n - 1)] = leafs[n]

LEMMA CombNodes ==
  ASSUME NEW n \in Nat \ {0}, NEW leafs, Len(leafs) = n, NEW joins,
         NEW t, t = Comb(leafs, joins)
  PROVE  CombShape(t, leafs, joins, n)
<1> DEFINE D == {Twos(k) : k \in 0..n - 1} \cup {Append(Twos(k), 1) : k \in 0..n - 2}
           label(p) == IF p = Twos(Len(p)) /\ Len(p) < n - 1 THEN joins[Len(p) + 1]
                       ELSE leafs[IF p = Twos(n - 1) THEN n ELSE Len(p)]
<1>1. t = [p \in D |-> label(p)]
  BY DEF Comb
<1>2. DOMAIN t = D /\ \A p \in D : t[p] = label(p)
  BY <1>1
<1>3. \A m \in 0..n - 1 : m \in Nat
  OBVIOUS
<1>4. /\ n - 1 \in 0..n - 1 /\ n - 1 \in Nat /\ n \in Nat
      /\ \A j \in 0..n - 2 : j \in Nat /\ j \in 0..n - 1 /\ j + 1 \in 0..n - 1 /\ j < n - 1
  OBVIOUS
<1>5. ASSUME NEW j \in 0..n - 2
      PROVE  /\ Twos(j) \in DOMAIN t
             /\ Append(Twos(j), 1) \in DOMAIN t /\ Append(Twos(j), 2) \in DOMAIN t
             /\ t[Twos(j)] = joins[j + 1]
             /\ IsLeaf(t, Append(Twos(j), 1)) /\ ~IsLeaf(t, Twos(j))
             /\ Append(Append(Twos(j), 1), 2) \notin DOMAIN t
             /\ t[Append(Twos(j), 1)] = leafs[j + 1]
  <2>1. Twos(j) \in D /\ Append(Twos(j), 1) \in D /\ Append(Twos(j), 2) \in D
    <3>1. Append(Twos(j), 2) = Twos(j + 1)
      BY <1>4, TwosPaths
    <3>2. QED
      BY <1>4, <3>1
  <2>2. t[Twos(j)] = joins[j + 1]
    <3>1. Len(Twos(j)) = j
      BY <1>4, TwosPaths
    <3>2. label(Twos(j)) = joins[j + 1]
      BY <1>4, <3>1
    <3>3. QED
      BY <1>2, <2>1, <3>2
  <2>3. Append(Append(Twos(j), 1), 1) \notin D /\ Append(Append(Twos(j), 1), 2) \notin D
    <3>1. \A k \in {1, 2}, m \in Nat :
            Append(Append(Twos(j), 1), k) # Twos(m) /\ Append(Append(Twos(j), 1), k) # Append(Twos(m), 1)
      BY <1>4, TurnedPaths
    <3>2. QED
      BY <1>3, <1>4, <3>1
  <2>4. t[Append(Twos(j), 1)] = leafs[j + 1]
    <3> DEFINE l == Append(Twos(j), 1)
    <3>1. Len(l) = j + 1 /\ \A m \in Nat : l # Twos(m)
      BY <1>4, TurnedPaths
    <3>2. l # Twos(Len(l)) /\ l # Twos(n - 1)
      BY <1>4, <3>1
    <3> HIDE DEF l
    <3>3. label(l) = leafs[j + 1]
      BY <3>1, <3>2
    <3>4. QED
      BY <1>2, <2>1, <3>3 DEF l
  <2>5. QED
    BY <1>2, <2>1, <2>2, <2>3, <2>4 DEF IsLeaf
<1>6. IsLeaf(t, Twos(n - 1)) /\ Append(Twos(n - 1), 2) \notin DOMAIN t
  <2>1. Len(Append(Twos(n - 1), 1)) = n /\ Len(Append(Twos(n - 1), 2)) = n
    <3>1. Len(Append(Twos(n - 1), 1)) = n
      BY <1>4, TurnedPaths
    <3>2. Append(Twos(n - 1), 2) = Twos(n) /\ Len(Twos(n)) = n
      <4>1. (n - 1) + 1 = n
        OBVIOUS
      <4>2. Append(Twos(n - 1), 2) = Twos((n - 1) + 1) /\ Len(Twos(n)) = n
        BY <1>4, TwosPaths
      <4>3. QED
        BY <4>1, <4>2
    <3>3. QED
      BY <3>1, <3>2
  <2>2. \A p \in D : Len(p) <= n - 1
    <3>1. \A k \in 0..n - 1 : Len(Twos(k)) = k
      BY <1>3, TwosPaths
    <3>2. \A k \in 0..n - 2 : Len(Append(Twos(k), 1)) = k + 1
      BY <1>4, TurnedPaths
    <3>3. QED
      BY <3>1, <3>2
  <2>3. \A p \in D : Len(p) # n
    BY <2>2
  <2> HIDE DEF D
  <2>4. QED
    BY <1>2, <2>1, <2>3 DEF IsLeaf
<1>7. Twos(n - 1) \in DOMAIN t /\ t[Twos(n - 1)] = leafs[n]
  <2>1. Len(Twos(n - 1)) = n - 1 /\ Twos(n - 1) \in D
    BY <1>4, TwosPaths
  <2>2. label(Twos(n - 1)) = leafs[n]
    BY <1>4, <2>1
  <2>3. QED
    BY <1>2, <2>1, <2>2
<1>8. QED
  BY <1>2, <1>5, <1>6, <1>7 DEF CombShape

\* What the last element was appended to.
LEMMA FrontOfAppend ==
  ASSUME NEW s \in Seq({1, 2}), NEW x \in {1, 2}
  PROVE  Front(Append(s, x)) = s
<1> DEFINE t == Append(s, x)
           n == Len(s)
           f == SubSeq(t, 1, n)
<1>1. /\ n \in Nat /\ t \in Seq({1, 2}) /\ Len(t) = n + 1
      /\ \A i \in 1..n : t[i] = s[i]
  BY AppendProperties
<1>2. Front(t) = f
  BY <1>1 DEF Front
<1> HIDE DEF t, n
<1>3. f \in Seq({1, 2}) /\ Len(f) = n /\ \A i \in 1..n : f[i] = t[i]
  BY <1>1
<1> HIDE DEF f
<1>4. f = s
  BY <1>1, <1>3, SeqEqual DEF n
<1>5. QED
  BY <1>2, <1>4 DEF t

\* Leaves joined to the right make a lean tree.
LEMMA CombIsLean ==
  ASSUME NEW n \in Nat \ {0}, NEW leafs, Len(leafs) = n, NEW joins,
         \A j \in 1..n - 1 : joins[j] \in {<<"and">>, <<"or">>},
         NEW t, t = Comb(leafs, joins)
  PROVE  IsTree(t) /\ Lean(t) /\ Labels(t) = {leafs[i] : i \in 1..n}
<1> DEFINE D == DOMAIN t
           I == {Twos(k) : k \in 0..n - 2}
           L == {Append(Twos(k), 1) : k \in 0..n - 2}
           z == Twos(n - 1)
<1>1. /\ n - 1 \in 0..n - 1 /\ n - 1 \in Nat
      /\ \A j \in 0..n - 2 : j \in Nat /\ j \in 0..n - 1 /\ j + 1 \in 0..n - 1 /\ j + 1 \in 1..n - 1
      /\ \A j \in 0..n - 1 : j \in Nat /\ (j = n - 1 \/ j \in 0..n - 2)
  OBVIOUS
<1>2. /\ D = {Twos(k) : k \in 0..n - 1} \cup L
      /\ \A j \in 0..n - 2 :
           /\ Append(Twos(j), 1) \in D /\ Append(Twos(j), 2) \in D
           /\ t[Twos(j)] = joins[j + 1]
           /\ IsLeaf(t, Append(Twos(j), 1)) /\ ~IsLeaf(t, Twos(j))
           /\ Append(Append(Twos(j), 1), 2) \notin D
           /\ t[Append(Twos(j), 1)] = leafs[j + 1]
      /\ IsLeaf(t, z) /\ Append(z, 2) \notin D
      /\ t[z] = leafs[n]
  <2>1. CombShape(t, leafs, joins, n)
    BY CombNodes
  <2>2. QED
    BY <2>1 DEF CombShape
<1>3. D = I \cup L \cup {z}
  BY <1>1, <1>2
<1>4. <<>> \in D /\ D \subseteq Seq({1, 2})
  <2>1. Twos(0) = <<>>
    <3>1. Twos(0) \in Seq({1, 2}) /\ Len(Twos(0)) = 0
      BY TwosPaths
    <3>2. QED
      BY <3>1, EmptySeq
  <2>2. 0 \in 0..n - 1
    OBVIOUS
  <2>3. \A k \in 0..n - 1 : Twos(k) \in Seq({1, 2})
    BY <1>1, TwosPaths
  <2>4. \A k \in 0..n - 2 : Append(Twos(k), 1) \in Seq({1, 2})
    BY <1>1, TurnedPaths
  <2>5. <<>> \in D
    BY <1>2, <2>1, <2>2
  <2>6. \A p \in D : p \in Seq({1, 2})
    <3> SUFFICES ASSUME NEW p \in D PROVE p \in Seq({1, 2})
      OBVIOUS
    <3>1. p \in {Twos(k) : k \in 0..n - 1} \/ p \in L
      BY <1>2
    <3>2. QED
      BY <2>3, <2>4, <3>1
  <2>7. QED
    BY <2>5, <2>6
<1>5. ASSUME NEW p \in D, p # <<>>
      PROVE  Front(p) \in D
  <2>1. ASSUME NEW k \in 0..n - 2, NEW x \in {1, 2}
        PROVE  Front(Append(Twos(k), x)) = Twos(k)
    <3>1. Twos(k) \in Seq({1, 2})
      BY <1>1, TwosPaths
    <3>2. QED
      BY <3>1, FrontOfAppend
  <2>2. CASE p \in L
    <3>1. PICK k \in 0..n - 2 : p = Append(Twos(k), 1)
      BY <2>2
    <3>2. Front(p) = Twos(k)
      BY <2>1, <3>1
    <3>3. QED
      BY <1>1, <1>2, <3>2
  <2>3. CASE p \in {Twos(k) : k \in 0..n - 1}
    <3>1. PICK k \in 0..n - 1 : p = Twos(k)
      BY <2>3
    <3>2. k # 0
      <4>1. Twos(0) = <<>>
        BY TwosPaths, EmptySeq
      <4>2. QED
        BY <3>1, <4>1, <1>5
    <3>3. k - 1 \in 0..n - 2 /\ k - 1 \in Nat /\ (k - 1) + 1 = k
      BY <3>2
    <3>4. p = Append(Twos(k - 1), 2)
      BY <3>1, <3>3, TwosPaths
    <3>5. Front(p) = Twos(k - 1)
      BY <2>1, <3>3, <3>4
    <3>6. QED
      BY <1>2, <1>1, <3>3, <3>5
  <2>4. QED
    BY <1>2, <2>2, <2>3
<1>6. ASSUME NEW p \in D
      PROVE  /\ Append(p, 1) \in D <=> Append(p, 2) \in D
             /\ ~IsLeaf(t, p) => /\ t[p] \in {<<"and">>, <<"or">>}
                                 /\ IsLeaf(t, Append(p, 1))
  <2>1. CASE p \in I
    <3>1. PICK j \in 0..n - 2 : p = Twos(j)
      BY <2>1
    <3>2. Append(p, 1) \in D /\ Append(p, 2) \in D /\ t[p] = joins[j + 1] /\ IsLeaf(t, Append(p, 1))
      BY <1>2, <3>1
    <3>3. joins[j + 1] \in {<<"and">>, <<"or">>}
      BY <1>1
    <3>4. QED
      BY <3>2, <3>3
  <2>2. CASE p \in L
    <3>1. PICK j \in 0..n - 2 : p = Append(Twos(j), 1)
      BY <2>2
    <3>2. IsLeaf(t, p) /\ Append(p, 2) \notin D
      BY <1>2, <3>1
    <3>3. QED
      BY <3>2 DEF IsLeaf
  <2>3. CASE p = z
    BY <1>2, <2>3 DEF IsLeaf
  <2>4. QED
    BY <1>3, <2>1, <2>2, <2>3
<1>7. IsTree(t)
  BY <1>4, <1>5, <1>6 DEF IsTree
<1>8. Lean(t)
  BY <1>6 DEF Lean
<1>9. Labels(t) = {leafs[i] : i \in 1..n}
  <2>1. {q \in D : IsLeaf(t, q)} = L \cup {z}
    <3>1. \A q \in I : ~IsLeaf(t, q)
      BY <1>2
    <3>2. \A q \in L \cup {z} : IsLeaf(t, q)
      <4>1. IsLeaf(t, z) /\ \A j \in 0..n - 2 : IsLeaf(t, Append(Twos(j), 1))
        BY <1>2
      <4> HIDE DEF z
      <4>2. QED
        BY ONLY <4>1
    <3> HIDE DEF D, I, L, z
    <3>3. QED
      BY <1>3, <3>1, <3>2
  <2>2. Labels(t) = {t[q] : q \in L \cup {z}}
    BY <2>1 DEF Labels
  <2>3. \A q \in L : \E i \in 1..n : t[q] = leafs[i]
    <3> SUFFICES ASSUME NEW q \in L PROVE \E i \in 1..n : t[q] = leafs[i]
      OBVIOUS
    <3>1. PICK j \in 0..n - 2 : q = Append(Twos(j), 1)
      OBVIOUS
    <3>2. t[q] = leafs[j + 1]
      BY <1>2, <3>1
    <3>3. j + 1 \in 1..n
      OBVIOUS
    <3>4. QED
      BY <3>2, <3>3
  <2>4. t[z] = leafs[n] /\ n \in 1..n
    BY <1>2
  <2>5. \A i \in 1..n : \E q \in L \cup {z} : t[q] = leafs[i]
    <3> SUFFICES ASSUME NEW i \in 1..n PROVE \E q \in L \cup {z} : t[q] = leafs[i]
      OBVIOUS
    <3>1. CASE i = n
      BY <2>4, <3>1
    <3>2. CASE i # n
      <4>1. i - 1 \in 0..n - 2 /\ (i - 1) + 1 = i
        BY <3>2
      <4>2. t[Append(Twos(i - 1), 1)] = leafs[i] /\ Append(Twos(i - 1), 1) \in L
        BY <1>2, <4>1
      <4>3. QED
        BY <4>2
    <3>3. QED
      BY <3>1, <3>2
  <2> HIDE DEF L, z
  <2>6. QED
    BY <2>2, <2>3, <2>4, <2>5
<1>10. QED
  BY <1>7, <1>8, <1>9

\* What opens at node j, by the node after it.
OpensAt(leafs, joins, H, Q, n, j) ==
  IF j = n - 1 THEN leafs[n] \in H
  ELSE IF joins[j + 1] = <<"and">> THEN leafs[j + 1] \in H /\ j + 1 \in Q
  ELSE leafs[j + 1] \in H \/ j + 1 \in Q

LEMMA CombOpens ==
  ASSUME NEW n \in Nat \ {0}, NEW leafs, Len(leafs) = n, NEW joins,
         \A j \in 1..n - 1 : joins[j] \in {<<"and">>, <<"or">>},
         NEW H, NEW Q, NEW t, t = Comb(leafs, joins)
  PROVE  /\ (\A j \in 0..n - 1 : OpensAt(leafs, joins, H, Q, n, j) => j \in Q)
              => (Opens(t, H) => 0 \in Q)
         /\ (\A j \in 0..n - 1 : j \in Q => OpensAt(leafs, joins, H, Q, n, j))
              => (0 \in Q => Opens(t, H))
<1> DEFINE o(j) == Opened(t, H)[Twos(j)]
           at(j) == OpensAt(leafs, joins, H, Q, n, j)
<1>0. CombShape(t, leafs, joins, n) /\ IsTree(t)
  BY CombNodes, CombIsLean
<1>1. ASSUME NEW j \in 0..n - 2
      PROVE  o(j) <=> IF joins[j + 1] = <<"and">> THEN leafs[j + 1] \in H /\ o(j + 1)
                      ELSE leafs[j + 1] \in H \/ o(j + 1)
  <2> DEFINE p == Twos(j)
             l == Append(p, 1)
             r == Append(p, 2)
  <2>1. /\ p \in DOMAIN t /\ l \in DOMAIN t /\ t[p] = joins[j + 1]
        /\ IsLeaf(t, l) /\ ~IsLeaf(t, p) /\ t[l] = leafs[j + 1]
    BY <1>0 DEF CombShape
  <2>2. r = Twos(j + 1)
    <3>1. j \in Nat
      OBVIOUS
    <3>2. QED
      BY <3>1, TwosPaths
  <2>3. Opened(t, H)[p] <=> IF t[p] = <<"and">> THEN Opened(t, H)[l] /\ Opened(t, H)[r]
                            ELSE Opened(t, H)[l] \/ Opened(t, H)[r]
    <3> HIDE DEF p
    <3>1. QED
      BY <1>0, <2>1, OpenNodes
  <2>4. Opened(t, H)[l] <=> t[l] \in H
    <3> HIDE DEF l
    <3>1. QED
      BY <1>0, <2>1, OpenNodes
  <2> HIDE DEF l, r
  <2>5. QED
    BY <2>1, <2>2, <2>3, <2>4
<1>2. o(n - 1) <=> leafs[n] \in H
  <2> DEFINE p == Twos(n - 1)
  <2>1. p \in DOMAIN t /\ IsLeaf(t, p) /\ t[p] = leafs[n]
    BY <1>0 DEF CombShape
  <2>2. Opened(t, H)[p] <=> t[p] \in H
    <3> HIDE DEF p
    <3>1. QED
      BY <1>0, <2>1, OpenNodes
  <2>3. QED
    BY <2>1, <2>2
<1> HIDE DEF o
<1>3. Opens(t, H) <=> o(0)
  <2>1. Twos(0) = <<>>
    BY TwosPaths, EmptySeq
  <2>2. QED
    BY <2>1 DEF Opens, o
<1>4. ASSUME \A j \in 0..n - 1 : at(j) => j \in Q
      PROVE  o(0) => 0 \in Q
  <2> DEFINE R == {m \in Nat : m <= n - 1 => (o(n - 1 - m) => n - 1 - m \in Q)}
  <2>1. 0 \in R
    <3>1. at(n - 1) <=> leafs[n] \in H
      BY DEF OpensAt
    <3>2. n - 1 \in 0..n - 1 /\ n - 1 - 0 = n - 1
      OBVIOUS
    <3>3. QED
      BY <3>1, <3>2, <1>2, <1>4
  <2>2. ASSUME NEW m \in Nat, m \in R
        PROVE  m + 1 \in R
    <3> SUFFICES ASSUME m + 1 <= n - 1, o(n - 1 - (m + 1)) PROVE n - 1 - (m + 1) \in Q
      OBVIOUS
    <3> DEFINE j == n - 1 - (m + 1)
    <3>1. j \in 0..n - 2 /\ j \in 0..n - 1 /\ j # n - 1 /\ n - 1 - m = j + 1 /\ m <= n - 1
      OBVIOUS
    <3>2. o(j + 1) => j + 1 \in Q
      BY <2>2, <3>1
    <3> HIDE DEF j
    <3>3. o(j) => at(j)
      BY <1>1, <3>1, <3>2 DEF OpensAt
    <3>4. j \in Q
      BY <1>4, <3>1, <3>3 DEF j
    <3>5. QED
      BY <3>4 DEF j
  <2>3. n - 1 \in R /\ n - 1 - (n - 1) = 0
    <3> HIDE DEF R
    <3>1. Nat \subseteq R
      BY <2>1, <2>2, NaturalsReached
    <3>2. QED
      BY <3>1
  <2>4. QED
    BY <2>3
<1>5. ASSUME \A j \in 0..n - 1 : j \in Q => at(j)
      PROVE  0 \in Q => o(0)
  <2> DEFINE R == {m \in Nat : m <= n - 1 => (n - 1 - m \in Q => o(n - 1 - m))}
  <2>1. 0 \in R
    <3>1. at(n - 1) <=> leafs[n] \in H
      BY DEF OpensAt
    <3>2. n - 1 \in 0..n - 1 /\ n - 1 - 0 = n - 1
      OBVIOUS
    <3>3. QED
      BY <3>1, <3>2, <1>2, <1>5
  <2>2. ASSUME NEW m \in Nat, m \in R
        PROVE  m + 1 \in R
    <3> SUFFICES ASSUME m + 1 <= n - 1, n - 1 - (m + 1) \in Q PROVE o(n - 1 - (m + 1))
      OBVIOUS
    <3> DEFINE j == n - 1 - (m + 1)
    <3>1. j \in 0..n - 2 /\ j \in 0..n - 1 /\ j # n - 1 /\ n - 1 - m = j + 1 /\ m <= n - 1 /\ j \in Q
      OBVIOUS
    <3>2. j + 1 \in Q => o(j + 1)
      BY <2>2, <3>1
    <3> HIDE DEF j
    <3>3. at(j)
      BY <1>5, <3>1
    <3>4. o(j)
      BY <1>1, <3>1, <3>2, <3>3 DEF OpensAt
    <3>5. QED
      BY <3>4 DEF j
  <2>3. n - 1 \in R /\ n - 1 - (n - 1) = 0
    <3> HIDE DEF R
    <3>1. Nat \subseteq R
      BY <2>1, <2>2, NaturalsReached
    <3>2. QED
      BY <3>1
  <2>4. QED
    BY <2>3
<1>6. QED
  BY <1>3, <1>4, <1>5

\* The comparison, of the numbers that the lowest m bits make.
Holds(u, op, v, m) == NumericCompareSatisfied(u % 2^m, op, v % 2^m)

\* A bit that v has as the comparison asks for must be there and the bits below
\* it decide; another one that is there decides.
LEMMA ComparedDigits ==
  ASSUME NEW op \in Compares \ {"=="}, NEW u \in Nat, NEW v \in Nat, NEW i \in Nat
  PROVE  /\ Bit(v, i) = Deciding(op) =>
              (Holds(u, op, v, i + 1) <=> Bit(u, i) = Deciding(op) /\ Holds(u, op, v, i))
         /\ Bit(v, i) # Deciding(op) =>
              (Holds(u, op, v, i + 1) <=> Bit(u, i) = Deciding(op) \/ Holds(u, op, v, i))
<1> DEFINE a == (u \div 2^i) % 2
           b == (v \div 2^i) % 2
           x == u % 2^i
           y == v % 2^i
           s == u % 2^(i + 1)
           t == v % 2^(i + 1)
<1>1. /\ a < b => s < t
      /\ b < a => t < s
      /\ a = b => (s < t <=> x < y) /\ (t < s <=> y < x)
  BY DigitsDecide
<1>2. a \in {0, 1} /\ b \in {0, 1} /\ x \in Nat /\ y \in Nat /\ s \in Nat /\ t \in Nat
  <2>1. i + 1 \in Nat /\ 2^i \in Nat \ {0} /\ 2^(i + 1) \in Nat \ {0}
    BY PowersOfTwo
  <2>2. a \in {0, 1} /\ b \in {0, 1} /\ x \in 0..2^i - 1 /\ y \in 0..2^i - 1
    BY Digits
  <2>3. s \in 0..2^(i + 1) - 1 /\ t \in 0..2^(i + 1) - 1
    BY <2>1, Digits
  <2>4. QED
    BY <2>1, <2>2, <2>3
<1>3. /\ Bit(u, i) = a /\ Bit(v, i) = b
      /\ Holds(u, op, v, i + 1) <=> NumericCompareSatisfied(s, op, t)
      /\ Holds(u, op, v, i) <=> NumericCompareSatisfied(x, op, y)
  BY DEF Bit, Holds
<1> HIDE DEF a, b, x, y, s, t
<1>4. CASE op = ">"
  <2>1. /\ NumericCompareSatisfied(s, op, t) <=> s > t
        /\ NumericCompareSatisfied(x, op, y) <=> x > y
        /\ Deciding(op) = 1
    BY <1>4 DEF NumericCompareSatisfied, Deciding
  <2>2. /\ b = 1 => (s > t <=> a = 1 /\ x > y)
        /\ b # 1 => (s > t <=> a = 1 \/ x > y)
    BY <1>1, <1>2
  <2>3. QED
    BY <1>3, <2>1, <2>2
<1>5. CASE op = ">="
  <2>1. /\ NumericCompareSatisfied(s, op, t) <=> s >= t
        /\ NumericCompareSatisfied(x, op, y) <=> x >= y
        /\ Deciding(op) = 1
    BY <1>5 DEF NumericCompareSatisfied, Deciding
  <2>2. /\ b = 1 => (s >= t <=> a = 1 /\ x >= y)
        /\ b # 1 => (s >= t <=> a = 1 \/ x >= y)
    BY <1>1, <1>2
  <2>3. QED
    BY <1>3, <2>1, <2>2
<1>6. CASE op = "<"
  <2>1. /\ NumericCompareSatisfied(s, op, t) <=> s < t
        /\ NumericCompareSatisfied(x, op, y) <=> x < y
        /\ Deciding(op) = 0
    BY <1>6 DEF NumericCompareSatisfied, Deciding
  <2>2. /\ b = 0 => (s < t <=> a = 0 /\ x < y)
        /\ b # 0 => (s < t <=> a = 0 \/ x < y)
    BY <1>1, <1>2
  <2>3. QED
    BY <1>3, <2>1, <2>2
<1>7. CASE op = "<="
  <2>1. /\ NumericCompareSatisfied(s, op, t) <=> s <= t
        /\ NumericCompareSatisfied(x, op, y) <=> x <= y
        /\ Deciding(op) = 0
    BY <1>7 DEF NumericCompareSatisfied, Deciding
  <2>2. /\ b = 0 => (s <= t <=> a = 0 /\ x <= y)
        /\ b # 0 => (s <= t <=> a = 0 \/ x <= y)
    BY <1>1, <1>2
  <2>3. QED
    BY <1>3, <2>1, <2>2
<1>8. QED
  BY <1>4, <1>5, <1>6, <1>7 DEF Compares

\* The bits that a comparison drops below the lowest one it asks for.
Run(op) == IF op \in {">", "<="} THEN 1 ELSE 0

LEMMA LowestBitIs ==
  ASSUME NEW op, NEW v, NEW k, k = LowestBit(op, v)
  PROVE  \/ k = NBit /\ \A i \in 0..NBit - 1 : Bit(v, i) = Run(op)
         \/ /\ k \in 0..NBit - 1 /\ Bit(v, k) # Run(op)
            /\ \A i \in 0..k - 1 : Bit(v, i) = Run(op)
<1> DEFINE b    == Run(op)
           Q(n) == Bit(v, n) # b /\ \A i \in 0..n - 1 : Bit(v, i) = b
           T    == {n \in 0..NBit - 1 : Bit(v, n) # b}
<1>1. k = IF \A i \in 0..NBit - 1 : Bit(v, i) = b THEN NBit ELSE CHOOSE n \in 0..NBit - 1 : Q(n)
  BY DEF LowestBit, TrailingRun, Run
<1>2. CASE T = {}
  <2>1. \A i \in 0..NBit - 1 : Bit(v, i) = b
    BY <1>2
  <2>2. QED
    BY <1>1, <2>1
<1>3. CASE T # {}
  <2>1. T \subseteq Nat
    OBVIOUS
  <2>2. PICK n \in T : \A m \in T : n <= m
    <3> HIDE DEF T
    <3>1. QED
      BY <1>3, <2>1, LeastNatural
  <2>3. n \in 0..NBit - 1 /\ Q(n)
    BY <2>2, WidthAssumption
  <2>4. ~\A i \in 0..NBit - 1 : Bit(v, i) = b
    BY <1>3
  <2> HIDE DEF Q
  <2>5. k \in 0..NBit - 1 /\ Q(k)
    BY <1>1, <2>3, <2>4
  <2>6. QED
    BY <2>5 DEF Q
<1>4. QED
  BY <1>2, <1>3

\* The lowest bit asked for decides alone: v ends in bits that no number can do
\* better, or worse, than.
LEMMA LowestCompared ==
  ASSUME NEW op \in Compares \ {"=="}, NEW u \in Nat, NEW v \in Nat,
         NEW k, k = LowestBit(op, v), k # NBit
  PROVE  k \in 0..NBit - 1 /\ (Holds(u, op, v, k + 1) <=> Bit(u, k) = Deciding(op))
<1> DEFINE b == Run(op)
<1>1. k \in 0..NBit - 1 /\ Bit(v, k) # b /\ \A i \in 0..k - 1 : Bit(v, i) = b
  BY LowestBitIs
<1>2. k \in Nat /\ b \in {0, 1}
  BY <1>1 DEF Run
<1> DEFINE s == u % 2^(k + 1)
           t == v % 2^(k + 1)
           a == Bit(u, k)
<1>3. s \in Nat /\ t \in Nat /\ a \in {0, 1}
  <2>1. k + 1 \in Nat /\ 2^(k + 1) \in Nat \ {0}
    BY <1>2, PowersOfTwo
  <2>2. s \in 0..2^(k + 1) - 1 /\ t \in 0..2^(k + 1) - 1 /\ a \in {0, 1}
    BY <1>2, <2>1, Digits DEF Bit
  <2>3. QED
    BY <2>1, <2>2
<1>4. IF a = 1 THEN IF b = 1 THEN t < s ELSE t <= s
                ELSE IF b = 1 THEN s <= t ELSE s < t
  <2> HIDE DEF b
  <2>1. (\A i \in 0..k - 1 : (v \div 2^i) % 2 = b) /\ (v \div 2^k) % 2 # b
    BY <1>1 DEF Bit
  <2>2. QED
    BY <1>2, <2>1, RunDecides DEF Bit
<1>5. Holds(u, op, v, k + 1) <=> NumericCompareSatisfied(s, op, t)
  BY DEF Holds
<1> HIDE DEF s, t, a
<1>6. NumericCompareSatisfied(s, op, t) <=> a = Deciding(op)
  <2>1. op \in {">", ">=", "<", "<="}
    BY DEF Compares
  <2>2. CASE op = ">"
    <3>1. (NumericCompareSatisfied(s, op, t) <=> s > t) /\ Deciding(op) = 1 /\ b = 1
      BY <2>2 DEF Run, NumericCompareSatisfied, Deciding
    <3>2. QED
      BY <1>3, <1>4, <3>1
  <2>3. CASE op = ">="
    <3>1. (NumericCompareSatisfied(s, op, t) <=> s >= t) /\ Deciding(op) = 1 /\ b = 0
      BY <2>3 DEF Run, NumericCompareSatisfied, Deciding
    <3>2. QED
      BY <1>3, <1>4, <3>1
  <2>4. CASE op = "<"
    <3>1. (NumericCompareSatisfied(s, op, t) <=> s < t) /\ Deciding(op) = 0 /\ b = 0
      BY <2>4 DEF Run, NumericCompareSatisfied, Deciding
    <3>2. QED
      BY <1>3, <1>4, <3>1
  <2>5. CASE op = "<="
    <3>1. (NumericCompareSatisfied(s, op, t) <=> s <= t) /\ Deciding(op) = 0 /\ b = 1
      BY <2>5 DEF Run, NumericCompareSatisfied, Deciding
    <3>2. QED
      BY <1>3, <1>4, <3>1
  <2>6. QED
    BY <2>1, <2>2, <2>3, <2>4, <2>5
<1>7. QED
  BY <1>1, <1>5, <1>6 DEF a

\* A user has the bits of his number.
LEMMA BitHeld ==
  ASSUME NEW a, NEW u, NEW i \in 0..NBit - 1, NEW b
  PROVE  <<a, i, b>> \in BagOfBits(a, u) <=> Bit(u, i) = b
  BY DEF BagOfBits

\* What the tree of a comparison is and whom it opens for.
FollowsNumbers(t, a, op, u, v, H) ==
  /\ IsTree(t) /\ Lean(t)
  /\ H \cap Labels(t) \subseteq BagOfBits(a, u) =>
       (Opens(t, H) => NumericCompareSatisfied(u, op, v))
  /\ Labels(t) \cap BagOfBits(a, u) \subseteq H =>
       (NumericCompareSatisfied(u, op, v) => Opens(t, H))

LEMMA InequalityTrees ==
  ASSUME NEW a, NEW op \in Compares \ {"=="}, NEW u \in Values, NEW v \in Values, NEW t,
         CompareTrees(a, op, v) = <<t>>, NEW H
  PROVE  FollowsNumbers(t, a, op, u, v, H)
<1> DEFINE low   == LowestBit(op, v)
           b     == Deciding(op)
           n     == NBit - low
           leafs == [k \in 1..n |-> <<a, NBit - k, b>>]
           joins == [k \in 1..n - 1 |-> IF Bit(v, NBit - k) = b THEN <<"and">> ELSE <<"or">>]
<1>1. low # NBit /\ t = Comb(leafs, joins)
  <2>1. CompareTrees(a, op, v) = IF low = NBit THEN <<>> ELSE <<Comb(leafs, joins)>>
    BY DEF CompareTrees, Chain
  <2> DEFINE x == Comb(leafs, joins)
  <2> HIDE DEF x, low
  <2>2. <<t>> = IF low = NBit THEN <<>> ELSE <<x>>
    BY <2>1 DEF x
  <2>3. Len(<<t>>) = 1 /\ Len(<<>>) = 0 /\ <<t>>[1] = t /\ <<x>>[1] = x
    OBVIOUS
  <2>4. low # NBit /\ t = x
    BY <2>2, <2>3
  <2>5. QED
    BY <2>4 DEF x
<1>2. u \in Nat /\ v \in Nat /\ NBit \in Nat /\ u % 2^NBit = u /\ v % 2^NBit = v
  <2>1. NBit \in Nat /\ 2^NBit \in Nat \ {0}
    BY WidthAssumption, PowersOfTwo
  <2>2. u \in 0..2^NBit - 1 /\ v \in 0..2^NBit - 1
    BY DEF Values
  <2>3. QED
    BY <2>1, <2>2, AllDigits
<1>3. low \in 0..NBit - 1 /\ (Holds(u, op, v, low + 1) <=> Bit(u, low) = b)
  <2> HIDE DEF low
  <2>1. low = LowestBit(op, v)
    BY DEF low
  <2>2. QED
    BY <1>1, <1>2, <2>1, LowestCompared
<1>4. n \in Nat \ {0} /\ n <= NBit /\ NBit - n = low /\ NBit - (n - 1) = low + 1
  BY <1>2, <1>3
<1> HIDE DEF low, n, b
<1>5. /\ Len(leafs) = n /\ \A j \in 1..n : leafs[j] = <<a, NBit - j, b>>
      /\ \A j \in 1..n - 1 : joins[j] = (IF Bit(v, NBit - j) = b THEN <<"and">> ELSE <<"or">>)
      /\ \A j \in 1..n - 1 : joins[j] \in {<<"and">>, <<"or">>}
  <2>1. Len(leafs) = n
    BY <1>4
  <2>2. \A j \in 1..n : leafs[j] = <<a, NBit - j, b>>
    OBVIOUS
  <2>3. \A j \in 1..n - 1 : joins[j] = (IF Bit(v, NBit - j) = b THEN <<"and">> ELSE <<"or">>)
    OBVIOUS
  <2> HIDE DEF leafs, joins
  <2>4. QED
    BY <2>1, <2>2, <2>3
<1>6. <<"and">> # <<"or">>
  OBVIOUS
<1> HIDE DEF leafs, joins
<1>7. IsTree(t) /\ Lean(t) /\ Labels(t) = {leafs[i] : i \in 1..n}
  BY <1>1, <1>4, <1>5, CombIsLean
<1> DEFINE Q == {j \in 0..n - 1 : Holds(u, op, v, NBit - j)}
           at(j) == OpensAt(leafs, joins, H, Q, n, j)
           has(j) == Bit(u, NBit - j - 1) = b
<1>8. 0 \in Q <=> NumericCompareSatisfied(u, op, v)
  <2>1. 0 \in 0..n - 1 /\ NBit - 0 = NBit
    BY <1>2, <1>4
  <2>2. QED
    BY <1>2, <2>1 DEF Holds
<1>9. ASSUME NEW j \in 0..n - 1
      PROVE  /\ j \in Q <=> IF j = n - 1 THEN has(j)
                            ELSE IF joins[j + 1] = <<"and">> THEN has(j) /\ j + 1 \in Q
                            ELSE has(j) \/ j + 1 \in Q
             /\ leafs[j + 1] \in Labels(t)
             /\ leafs[j + 1] \in BagOfBits(a, u) <=> has(j)
  <2>1. /\ j + 1 \in 1..n /\ NBit - j - 1 \in 0..NBit - 1 /\ NBit - (j + 1) = NBit - j - 1
        /\ (NBit - j - 1) + 1 = NBit - j /\ NBit - j - 1 \in Nat
    BY <1>2, <1>4
  <2>2. leafs[j + 1] = <<a, NBit - j - 1, b>> /\ leafs[j + 1] \in Labels(t)
    BY <1>5, <1>7, <2>1
  <2>3. leafs[j + 1] \in BagOfBits(a, u) <=> has(j)
    BY <2>1, <2>2, BitHeld
  <2>4. CASE j = n - 1
    <3>1. NBit - j = low + 1 /\ NBit - j - 1 = low
      BY <1>3, <1>4, <2>4
    <3>2. QED
      BY <1>3, <2>2, <2>3, <2>4, <3>1
  <2>5. CASE j # n - 1
    <3>1. j + 1 \in 0..n - 1 /\ j + 1 \in 1..n - 1
      BY <1>4, <2>5
    <3>2. joins[j + 1] = <<"and">> <=> Bit(v, NBit - j - 1) = b
      BY <1>5, <1>6, <2>1, <3>1
    <3> DEFINE i == NBit - j - 1
    <3>3. /\ Bit(v, i) = b => (Holds(u, op, v, i + 1) <=> Bit(u, i) = b /\ Holds(u, op, v, i))
          /\ Bit(v, i) # b => (Holds(u, op, v, i + 1) <=> Bit(u, i) = b \/ Holds(u, op, v, i))
      BY <1>2, <2>1, ComparedDigits DEF b
    <3>4. (j + 1 \in Q <=> Holds(u, op, v, i)) /\ (j \in Q <=> Holds(u, op, v, i + 1))
      BY <2>1, <3>1
    <3> HIDE DEF Q
    <3>5. QED
      BY <2>2, <2>3, <2>5, <3>2, <3>3, <3>4
  <2>6. QED
    BY <2>4, <2>5
<1> HIDE DEF Q
<1>10. ASSUME H \cap Labels(t) \subseteq BagOfBits(a, u), Opens(t, H)
       PROVE  NumericCompareSatisfied(u, op, v)
  <2>1. \A j \in 0..n - 1 : at(j) => j \in Q
    <3> SUFFICES ASSUME NEW j \in 0..n - 1, at(j) PROVE j \in Q
      OBVIOUS
    <3>1. leafs[j + 1] \in H => has(j)
      BY <1>9, <1>10
    <3>2. j = n - 1 => leafs[n] = leafs[j + 1]
      BY <1>4
    <3>3. QED
      BY <1>9, <3>1, <3>2 DEF OpensAt
  <2>2. Opens(t, H) => 0 \in Q
    BY <1>1, <1>4, <1>5, <2>1, CombOpens
  <2>3. QED
    BY <1>8, <1>10, <2>2
<1>11. ASSUME Labels(t) \cap BagOfBits(a, u) \subseteq H, NumericCompareSatisfied(u, op, v)
       PROVE  Opens(t, H)
  <2>1. \A j \in 0..n - 1 : j \in Q => at(j)
    <3> SUFFICES ASSUME NEW j \in 0..n - 1, j \in Q PROVE at(j)
      OBVIOUS
    <3>1. has(j) => leafs[j + 1] \in H
      BY <1>9, <1>11
    <3>2. j = n - 1 => leafs[n] = leafs[j + 1]
      BY <1>4
    <3>3. QED
      BY <1>9, <3>1, <3>2 DEF OpensAt
  <2>2. 0 \in Q => Opens(t, H)
    BY <1>1, <1>4, <1>5, <2>1, CombOpens
  <2>3. QED
    BY <1>8, <1>11, <2>2
<1>12. QED
  BY <1>7, <1>10, <1>11 DEF FollowsNumbers

\* A number none of whose digits is above the other's is not above it.
LEMMA NoDigitAbove ==
  ASSUME NEW u \in Nat, NEW v \in Nat, NEW n \in Nat,
         \A i \in 0..n - 1 : (u \div 2^i) % 2 <= (v \div 2^i) % 2
  PROVE  u % 2^n <= v % 2^n
<1>1. 0 \in Nat /\ 0 <= n /\ 2^0 = 1
  OBVIOUS
<1>2. u % 2^0 = 0 /\ v % 2^0 = 0
  <2>1. u % 2^0 \in 0..2^0 - 1 /\ v % 2^0 \in 0..2^0 - 1
    BY <1>1, Digits
  <2>2. QED
    BY <1>1, <2>1
<1> DEFINE k == 0
<1> HIDE DEF k
<1>3. /\ k \in Nat /\ k <= n /\ u % 2^k <= v % 2^k
      /\ \A i \in k..n - 1 : (u \div 2^i) % 2 <= (v \div 2^i) % 2
  BY <1>1, <1>2 DEF k
<1>4. QED
  BY <1>3, DigitsDominate

LEMMA EqualityTrees ==
  ASSUME NEW a, NEW u \in Values, NEW v \in Values, NEW t,
         CompareTrees(a, "==", v) = <<t>>, NEW H
  PROVE  FollowsNumbers(t, a, "==", u, v, H)
<1> DEFINE leafs == [k \in 1..NBit |-> <<a, k - 1, Bit(v, k - 1)>>]
           joins == [k \in 1..NBit - 1 |-> <<"and">>]
<1>1. t = Comb(leafs, joins)
  <2>1. CompareTrees(a, "==", v) = <<Comb(leafs, joins)>>
    BY DEF CompareTrees, AllBits
  <2> DEFINE x == Comb(leafs, joins)
  <2> HIDE DEF x
  <2>2. <<t>> = <<x>>
    BY <2>1 DEF x
  <2>3. <<t>>[1] = t /\ <<x>>[1] = x
    OBVIOUS
  <2>4. QED
    BY <2>2, <2>3 DEF x
<1>2. /\ u \in Nat /\ v \in Nat /\ NBit \in Nat \ {0} /\ NBit \in Nat
      /\ u % 2^NBit = u /\ v % 2^NBit = v
  <2>1. NBit \in Nat \ {0} /\ 2^NBit \in Nat \ {0}
    BY WidthAssumption, PowersOfTwo
  <2>2. u \in 0..2^NBit - 1 /\ v \in 0..2^NBit - 1
    BY DEF Values
  <2>3. QED
    BY <2>1, <2>2, AllDigits
<1>3. /\ Len(leafs) = NBit /\ \A j \in 1..NBit : leafs[j] = <<a, j - 1, Bit(v, j - 1)>>
      /\ \A j \in 1..NBit - 1 : joins[j] = <<"and">>
      /\ \A j \in 1..NBit - 1 : joins[j] \in {<<"and">>, <<"or">>}
  <2>1. Len(leafs) = NBit
    BY <1>2
  <2>2. \A j \in 1..NBit : leafs[j] = <<a, j - 1, Bit(v, j - 1)>>
    OBVIOUS
  <2>3. \A j \in 1..NBit - 1 : joins[j] = <<"and">>
    OBVIOUS
  <2> HIDE DEF leafs, joins
  <2>4. QED
    BY <2>1, <2>2, <2>3
<1> HIDE DEF leafs, joins
<1>4. IsTree(t) /\ Lean(t) /\ Labels(t) = {leafs[i] : i \in 1..NBit}
  BY <1>1, <1>2, <1>3, CombIsLean
<1> DEFINE same(j) == Bit(u, j) = Bit(v, j)
           Q == {j \in 0..NBit - 1 : \A i \in j..NBit - 1 : same(i)}
           at(j) == OpensAt(leafs, joins, H, Q, NBit, j)
<1>5. 0 \in Q <=> u = v
  <2>1. ASSUME 0 \in Q PROVE u = v
    <3>1. \A i \in 0..NBit - 1 : /\ (u \div 2^i) % 2 <= (v \div 2^i) % 2
                                 /\ (v \div 2^i) % 2 <= (u \div 2^i) % 2
      <4> SUFFICES ASSUME NEW i \in 0..NBit - 1
                   PROVE  /\ (u \div 2^i) % 2 <= (v \div 2^i) % 2
                          /\ (v \div 2^i) % 2 <= (u \div 2^i) % 2
        OBVIOUS
      <4>1. (u \div 2^i) % 2 = (v \div 2^i) % 2
        BY <2>1 DEF Bit
      <4>2. (v \div 2^i) % 2 \in {0, 1}
        BY <1>2, Digits
      <4>3. QED
        BY <4>1, <4>2
    <3>2. u % 2^NBit <= v % 2^NBit
      BY <1>2, <3>1, NoDigitAbove
    <3>3. v % 2^NBit <= u % 2^NBit
      BY <1>2, <3>1, NoDigitAbove
    <3>4. QED
      BY <1>2, <3>2, <3>3
  <2>2. ASSUME u = v PROVE 0 \in Q
    <3>1. 0 \in 0..NBit - 1
      BY <1>2
    <3>2. QED
      BY <2>2, <3>1
  <2>3. QED
    BY <2>1, <2>2
<1>6. ASSUME NEW j \in 0..NBit - 1
      PROVE  /\ j \in Q <=> IF j = NBit - 1 THEN same(j) ELSE same(j) /\ j + 1 \in Q
             /\ leafs[j + 1] \in Labels(t)
             /\ leafs[j + 1] \in BagOfBits(a, u) <=> same(j)
             /\ j # NBit - 1 => joins[j + 1] = <<"and">>
  <2>1. j + 1 \in 1..NBit /\ (j + 1) - 1 = j
    BY <1>2
  <2>2. leafs[j + 1] = <<a, j, Bit(v, j)>> /\ leafs[j + 1] \in Labels(t)
    BY <1>3, <1>4, <2>1
  <2>3. leafs[j + 1] \in BagOfBits(a, u) <=> same(j)
    BY <2>2, BitHeld
  <2>4. CASE j = NBit - 1
    <3>1. \A i \in j..NBit - 1 : i = j
      BY <2>4
    <3>2. j \in j..NBit - 1
      BY <2>4
    <3>3. j \in Q <=> same(j)
      BY <3>1, <3>2
    <3> HIDE DEF Q
    <3>4. QED
      BY <2>2, <2>3, <2>4, <3>3
  <2>5. CASE j # NBit - 1
    <3>1. j + 1 \in 0..NBit - 1 /\ j + 1 \in 1..NBit - 1
      BY <1>2, <2>5
    <3>2. /\ \A i \in j..NBit - 1 : i = j \/ i \in j + 1..NBit - 1
          /\ \A i \in j + 1..NBit - 1 : i \in j..NBit - 1
          /\ j \in j..NBit - 1
      BY <1>2
    <3>3. j \in Q <=> same(j) /\ j + 1 \in Q
      BY <3>1, <3>2
    <3>4. joins[j + 1] = <<"and">>
      BY <1>3, <3>1
    <3> HIDE DEF Q
    <3>5. QED
      BY <2>2, <2>3, <2>5, <3>3, <3>4
  <2>6. QED
    BY <2>4, <2>5
<1>7. NumericCompareSatisfied(u, "==", v) <=> u = v
  BY DEF NumericCompareSatisfied
<1> HIDE DEF Q
<1>8. ASSUME H \cap Labels(t) \subseteq BagOfBits(a, u), Opens(t, H)
      PROVE  NumericCompareSatisfied(u, "==", v)
  <2>1. \A j \in 0..NBit - 1 : at(j) => j \in Q
    <3> SUFFICES ASSUME NEW j \in 0..NBit - 1, at(j) PROVE j \in Q
      OBVIOUS
    <3>1. leafs[j + 1] \in H => same(j)
      BY <1>6, <1>8
    <3>2. j = NBit - 1 => leafs[NBit] = leafs[j + 1]
      BY <1>2
    <3>3. QED
      BY <1>6, <3>1, <3>2 DEF OpensAt
  <2>2. Opens(t, H) => 0 \in Q
    BY <1>1, <1>2, <1>3, <2>1, CombOpens
  <2>3. QED
    BY <1>5, <1>7, <1>8, <2>2
<1>9. ASSUME Labels(t) \cap BagOfBits(a, u) \subseteq H, NumericCompareSatisfied(u, "==", v)
      PROVE  Opens(t, H)
  <2>1. \A j \in 0..NBit - 1 : j \in Q => at(j)
    <3> SUFFICES ASSUME NEW j \in 0..NBit - 1, j \in Q PROVE at(j)
      OBVIOUS
    <3>1. same(j) => leafs[j + 1] \in H
      BY <1>6, <1>9
    <3>2. j = NBit - 1 => leafs[NBit] = leafs[j + 1]
      BY <1>2
    <3>3. QED
      BY <1>6, <3>1, <3>2 DEF OpensAt
  <2>2. 0 \in Q => Opens(t, H)
    BY <1>1, <1>2, <1>3, <2>1, CombOpens
  <2>3. QED
    BY <1>5, <1>7, <1>9, <2>2
<1>10. QED
  BY <1>4, <1>8, <1>9 DEF FollowsNumbers

\* The tree of a comparison means the comparison (gt, gteq, lt, lteq, eq): the
\* bits of a number open it just where the number satisfies it, and nothing
\* else of the same attribute is needed or does.
THEOREM ComparisonTreesMean ==
  ASSUME NEW a, NEW op \in Compares, NEW u \in Values, NEW v \in Values, NEW t,
         CompareTrees(a, op, v) = <<t>>, NEW H
  PROVE  FollowsNumbers(t, a, op, u, v, H)
<1>1. CASE op = "=="
  BY <1>1, EqualityTrees
<1>2. CASE op # "=="
  BY <1>2, InequalityTrees
<1>3. QED
  BY <1>1, <1>2

\* A comparison has no lowest bit where its number is the greatest, or 0.
LEMMA NoLowestBit ==
  ASSUME NEW op, NEW v \in Values
  PROVE  LowestBit(op, v) = NBit <=> v = IF Run(op) = 1 THEN 2^NBit - 1 ELSE 0
<1> DEFINE b == Run(op)
           k == LowestBit(op, v)
<1>1. NBit \in Nat /\ v \in Nat /\ v % 2^NBit = v /\ b \in {0, 1}
  <2>1. NBit \in Nat /\ 2^NBit \in Nat \ {0}
    BY WidthAssumption, PowersOfTwo
  <2>2. v \in 0..2^NBit - 1
    BY DEF Values
  <2>3. QED
    BY <2>1, <2>2, AllDigits DEF Run
<1>2. \/ k = NBit /\ \A i \in 0..NBit - 1 : Bit(v, i) = b
      \/ k \in 0..NBit - 1 /\ Bit(v, k) # b /\ \A i \in 0..k - 1 : Bit(v, i) = b
  BY LowestBitIs
<1> HIDE DEF b, k
<1>3. ASSUME k = NBit
      PROVE  v = IF b = 1 THEN 2^NBit - 1 ELSE 0
  <2>1. \A i \in 0..NBit - 1 : (v \div 2^i) % 2 = b
    BY <1>1, <1>2, <1>3 DEF Bit
  <2>2. v % 2^NBit = IF b = 1 THEN 2^NBit - 1 ELSE 0
    BY <1>1, <2>1, EqualDigits
  <2>3. QED
    BY <1>1, <2>2
<1>4. ASSUME v = IF b = 1 THEN 2^NBit - 1 ELSE 0
      PROVE  k = NBit
  <2>1. v % 2^NBit = IF b = 1 THEN 2^NBit - 1 ELSE 0
    BY <1>1, <1>4
  <2>2. \A i \in 0..NBit - 1 : (v \div 2^i) % 2 = b
    BY <1>1, <2>1, DigitsOfExtremes
  <2>3. QED
    BY <1>2, <2>2 DEF Bit
<1>5. QED
  BY <1>3, <1>4 DEF b, k

\* No tree is left (gt, gteq, lt, lteq return without a leaf) just for the
\* comparisons that all numbers satisfy or none does; == always has one.
THEOREM NoTreeWhereConstant ==
  ASSUME NEW a, NEW op \in Compares, NEW v \in Values
  PROVE  CompareTrees(a, op, v) = <<>> <=>
           /\ op # "=="
           /\ \/ \A u \in Values : NumericCompareSatisfied(u, op, v)
              \/ \A u \in Values : ~NumericCompareSatisfied(u, op, v)
<1> DEFINE low == LowestBit(op, v)
           max == 2^NBit - 1
<1>1. max \in Nat /\ Values = 0..max
  BY WidthAssumption, PowersOfTwo DEF Values
<1>2. CASE op = "=="
  <2> DEFINE x == Comb([k \in 1..NBit |-> <<a, k - 1, Bit(v, k - 1)>>],
                       [k \in 1..NBit - 1 |-> <<"and">>])
  <2>1. CompareTrees(a, op, v) = <<x>>
    BY <1>2 DEF CompareTrees, AllBits
  <2> HIDE DEF x
  <2>2. Len(<<>>) = 0 /\ Len(<<x>>) = 1
    OBVIOUS
  <2>3. QED
    BY <1>2, <2>1, <2>2
<1>3. CASE op # "=="
  <2>1. CompareTrees(a, op, v) = <<>> <=> low = NBit
    <3> DEFINE x == Comb([k \in 1..NBit - low |-> <<a, NBit - k, Deciding(op)>>],
                         [k \in 1..NBit - low - 1 |->
                            IF Bit(v, NBit - k) = Deciding(op) THEN <<"and">> ELSE <<"or">>])
    <3>1. CompareTrees(a, op, v) = IF low = NBit THEN <<>> ELSE <<x>>
      BY <1>3 DEF CompareTrees, Chain
    <3> HIDE DEF x, low
    <3>2. Len(<<>>) = 0 /\ Len(<<x>>) = 1
      OBVIOUS
    <3>3. QED
      BY <3>1, <3>2
  <2>2. low = NBit <=> v = IF Run(op) = 1 THEN max ELSE 0
    BY NoLowestBit
  <2> DEFINE Constant == \/ \A u \in Values : NumericCompareSatisfied(u, op, v)
                         \/ \A u \in Values : ~NumericCompareSatisfied(u, op, v)
  <2>3. v = (IF Run(op) = 1 THEN max ELSE 0) <=> Constant
    <3> HIDE DEF max
    <3>1. 0 \in 0..max /\ max \in 0..max /\ v \in 0..max
      BY <1>1
    <3>2. CASE op = ">"
      <4>1. Run(op) = 1 /\ \A u : NumericCompareSatisfied(u, op, v) <=> u > v
        BY <3>2 DEF Run, NumericCompareSatisfied
      <4>2. QED
        BY <1>1, <3>1, <4>1
    <3>3. CASE op = ">="
      <4>1. Run(op) = 0 /\ \A u : NumericCompareSatisfied(u, op, v) <=> u >= v
        BY <3>3 DEF Run, NumericCompareSatisfied
      <4>2. QED
        BY <1>1, <3>1, <4>1
    <3>4. CASE op = "<"
      <4>1. Run(op) = 0 /\ \A u : NumericCompareSatisfied(u, op, v) <=> u < v
        BY <3>4 DEF Run, NumericCompareSatisfied
      <4>2. QED
        BY <1>1, <3>1, <4>1
    <3>5. CASE op = "<="
      <4>1. Run(op) = 1 /\ \A u : NumericCompareSatisfied(u, op, v) <=> u <= v
        BY <3>5 DEF Run, NumericCompareSatisfied
      <4>2. QED
        BY <1>1, <3>1, <4>1
    <3>6. QED
      BY <1>3, <3>2, <3>3, <3>4, <3>5 DEF Compares
  <2>4. QED
    BY <1>3, <2>1, <2>2, <2>3
<1>4. QED
  BY <1>2, <1>3

\* So the bits of a number that does not satisfy a comparison never reconstruct
\* the secret shared along it, for any attribute, number and width.
THEOREM ComparisonsShared == Spec => []ComparisonsSound
<1>1. LeanSound => ComparisonsSound
  <2> SUFFICES ASSUME LeanSound, held # {}, Reconstructs,
                      NEW a \in NumericAttrs, NEW u \in Values, held \subseteq BagOfBits(a, u),
                      NEW op \in Compares, NEW v \in Values, CompareTrees(a, op, v) = <<tree>>
               PROVE  NumericCompareSatisfied(u, op, v)
    BY DEF ComparisonsSound
  <2>1. FollowsNumbers(tree, a, op, u, v, held)
    BY ComparisonTreesMean
  <2>2. Opens(tree, held)
    BY <2>1 DEF LeanSound, FollowsNumbers
  <2>3. QED
    BY <2>1, <2>2 DEF FollowsNumbers
<1>2. QED
  BY <1>1, LeanTreesSound, PTL
=============================================================================
