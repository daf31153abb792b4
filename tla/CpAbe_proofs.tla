---------------------------- MODULE CpAbe_proofs -----------------------------
(***************************************************************************)
(* What a decryption returns, for all policies, keys and exponents: the    *)
(* rows of an attribute, what one row gives, what the rows give together,  *)
(* and that keys and ciphertexts keep their forms.                         *)
(***************************************************************************)
EXTENDS CpAbe, FiniteInduction

-----------------------------------------------------------------------------
(***************************************************************************)
(* The rows of an attribute.                                               *)
(***************************************************************************)
RowsOf(p, a) == {i \in DOMAIN Vars[p] : Vars[p][i] = a}

\* buildAccessPolicy: the positions of an attribute name each of its rows once.
LEMMA RowNamesRows ==
  ASSUME NEW p \in Policies, NEW a
  PROVE  /\ Row(p, a) \in Bijection(1..Cardinality(RowsOf(p, a)), RowsOf(p, a))
         /\ Cardinality(RowsOf(p, a)) \in 0..Len(M[p])
<1> DEFINE S == RowsOf(p, a)
           n == Cardinality(S)
           m == Len(M[p])
           I == {s \in [1..n -> S] : \A j, k \in DOMAIN s : j < k => s[j] < s[k]}
<1>1. m \in Nat /\ S \in SUBSET (1..m)
  <2>1. DOMAIN M[p] = DOMAIN Vars[p] /\ M[p] \in Seq([1..Width(p) -> -1..1])
    BY CpAbeAssumption
  <2>2. m \in Nat /\ DOMAIN M[p] = 1..m
    BY <2>1
  <2>3. S \subseteq DOMAIN Vars[p]
    BY DEF RowsOf
  <2>4. QED
    BY <2>1, <2>2, <2>3
<1>2. IsFiniteSet(S) /\ n \in Nat /\ n <= m
  <2>1. IsFiniteSet(1..m) /\ Cardinality(1..m) = m
    BY <1>1, FS_Interval, SMTT(30)
  <2> HIDE DEF S, m
  <2>2. QED
    BY <1>1, <2>1, FS_Subset, FS_CardinalityType
<1>3. Row(p, a) = CHOOSE s \in I : TRUE
  BY DEF Row, RowsOf
<1> HIDE DEF S, m
<1>4. Increasing(n, S) # {}
  BY <1>1, Enumerated
<1>5. Row(p, a) \in I
  <2>1. PICK s : s \in Increasing(n, S)
    BY <1>4
  <2>2. s \in I
    BY <2>1 DEF Increasing
  <2> HIDE DEF I
  <2>3. QED
    BY <1>3, <2>2
<1> DEFINE r == Row(p, a)
<1>6. r \in [1..n -> S] /\ \A j, k \in 1..n : j < k => r[j] < r[k]
  BY <1>5
<1> HIDE DEF r, n
<1>7. \A j \in 1..n : r[j] \in Int
  <2>1. \A j \in 1..n : r[j] \in S
    BY <1>6
  <2>2. \A i \in S : i \in Int
    <3>1. \A i \in 1..m : i \in Int
      BY <1>1
    <3>2. QED
      BY <1>1, <3>1
  <2>3. QED
    BY <2>1, <2>2
<1>8. r \in Injection(1..n, S)
  <2>1. ASSUME NEW j \in 1..n, NEW k \in 1..n, r[j] = r[k]
        PROVE  j = k
    <3>1. ~(j < k) /\ ~(k < j)
      BY <1>6, <1>7, <2>1
    <3>2. QED
      BY <1>2, <3>1
  <2>2. QED
    BY <1>6, <2>1 DEF Injection, IsInjective
<1>9. Cardinality(1..n) = Cardinality(S)
  <2>1. Cardinality(1..n) = n
    BY <1>2, FS_Interval
  <2>2. QED
    BY <2>1 DEF n
<1>10. r \in Surjection(1..n, S)
  BY <1>2, <1>8, <1>9, FS_Injection
<1>11. QED
  BY <1>1, <1>2, <1>8, <1>10 DEF r, n, S, m, Bijection

-----------------------------------------------------------------------------
\* crypto.go:149-152, 184-187: the randomness of the row and of the key, and the
\* authority's secrets, cancel; what is left are the row's shares, the second
\* one raised to the user's hash.  This is why a second sharing, of zero, ties
\* the rows to one user and leaves the secret alone.
THEOREM RowGivesShares ==
  ASSUME NEW a \in Attrs, NEW t \in Int, NEW tx \in Int, NEW shs \in Int, NEW shw \in Int
  PROVE  RowValue(Component(a, shs, shw, tx), Userkey(a, t)) = shs + HashUser * shw
<1> DEFINE al == Alpha[a]
           y  == Y[a]
           h  == HashAttr[a]
           hu == HashUser
<1>1. al \in Int /\ y \in Int /\ h \in Int /\ hu \in Int
  BY CpAbeAssumption
<1>2. RowValue(Component(a, shs, shw, tx), Userkey(a, t)) =
        (shs + al * tx) + (-tx) * (al + hu * y + h * t) + (shw + y * tx) * hu + t * (h * tx)
  BY DEF RowValue, Component, Userkey
<1> HIDE DEF al, y, h, hu
<1>3. (-tx) * (al + hu * y + h * t) = -(al * tx) - hu * (y * tx) - t * (h * tx)
  BY <1>1
<1>4. (shw + y * tx) * hu = hu * shw + hu * (y * tx)
  BY <1>1
<1>5. al * tx \in Int /\ y * tx \in Int /\ h * tx \in Int /\ hu * (y * tx) \in Int
        /\ t * (h * tx) \in Int /\ hu * shw \in Int
  BY <1>1
<1>6. QED
  BY <1>1, <1>2, <1>3, <1>4, <1>5 DEF hu

-----------------------------------------------------------------------------
(***************************************************************************)
(* One decryption.                                                         *)
(***************************************************************************)

LEMMA MatrixTypes ==
  ASSUME NEW p \in Policies
  PROVE  /\ Len(M[p]) \in Nat /\ DOMAIN M[p] = 1..Len(M[p]) /\ DOMAIN Vars[p] = DOMAIN M[p]
         /\ Width(p) \in Nat \ {0}
         /\ \A i \in DOMAIN M[p] : \A j \in 1..Width(p) : M[p][i][j] \in Int
         /\ \A i \in DOMAIN M[p] : Vars[p][i] \in Attrs
         /\ IsFiniteSet(DOMAIN M[p]) /\ IsFiniteSet(1..Width(p))
<1>1. /\ DOMAIN M[p] = DOMAIN Vars[p] /\ Vars[p] \in Seq(Attrs)
      /\ Width(p) \in Nat \ {0} /\ M[p] \in Seq([1..Width(p) -> -1..1])
  BY CpAbeAssumption
<1> DEFINE w == Width(p)
           N == DOMAIN M[p]
<1> HIDE DEF w
<1>2. Len(M[p]) \in Nat /\ N = 1..Len(M[p]) /\ \A i \in N : M[p][i] \in [1..w -> -1..1]
  BY <1>1 DEF w
<1>3. \A i \in N : \A j \in 1..w : M[p][i][j] \in -1..1
  BY <1>2
<1>4. \A x \in -1..1 : x \in Int
  OBVIOUS
<1>5. \A i \in N : Vars[p][i] \in Attrs
  BY <1>1
<1>6. IsFiniteSet(N) /\ IsFiniteSet(1..w)
  <2>1. IsFiniteSet(1..Len(M[p]))
    BY <1>2, FS_Interval
  <2>2. IsFiniteSet(1..w)
    BY <1>1, FS_Interval DEF w
  <2>3. QED
    BY <1>2, <2>1, <2>2
<1>7. QED
  BY <1>1, <1>2, <1>3, <1>4, <1>5, <1>6 DEF w

LEMMA SharesTyped ==
  ASSUME NEW p \in Policies, NEW v \in [1..Width(p) -> Int], NEW i \in DOMAIN M[p]
  PROVE  computeShares(v, p)[i] \in Int
<1> DEFINE W == 1..Width(p)
           f == [j \in W |-> M[p][i][j] * v[j]]
<1>1. computeShares(v, p)[i] = Total(f, W)
  BY DEF computeShares
<1>2. \A j \in W : M[p][i][j] \in Int /\ v[j] \in Int
  BY MatrixTypes
<1>3. IsFiniteSet(W)
  BY MatrixTypes
<1> HIDE DEF W
<1>4. \A j \in W : f[j] \in Int
  BY <1>2
<1> HIDE DEF f
<1>5. QED
  BY <1>1, <1>3, <1>4, TotalTyped

\* linCombMatches: the coefficients put the shares of a secret together to the
\* first entry of what was shared.
LEMMA SharesCombine ==
  ASSUME NEW p \in Policies, NEW v \in [1..Width(p) -> Int], NEW c \in Coefficients(p), NEW A,
         \A i \in DOMAIN M[p] : A[i] = c[i] * computeShares(v, p)[i]
  PROVE  Total(A, DOMAIN M[p]) = v[1]
<1> DEFINE N == DOMAIN M[p]
           W == 1..Width(p)
           col(j) == [i \in N |-> c[i] * M[p][i][j]]
           F == [i \in N |-> [j \in W |-> c[i] * (M[p][i][j] * v[j])]]
           G == [j \in W |-> [i \in N |-> c[i] * (M[p][i][j] * v[j])]]
           B == [j \in W |-> Total(G[j], N)]
<1>1. /\ IsFiniteSet(N) /\ IsFiniteSet(W) /\ 1 \in W /\ \A j \in W : v[j] \in Int
      /\ \A i \in N : c[i] \in Int
      /\ \A i \in N : \A j \in W : M[p][i][j] \in Int
  <2>1. c \in [N -> Factors] /\ Factors \subseteq Int
    BY CpAbeAssumption DEF Coefficients
  <2>2. 1 \in W
    BY MatrixTypes
  <2>3. QED
    BY <2>1, <2>2, MatrixTypes
<1>2. \A j \in W : Total(col(j), N) = IF j = 1 THEN 1 ELSE 0
  BY DEF Coefficients, linCombMatches
<1>3. \A i \in N : A[i] = c[i] * Total([j \in W |-> M[p][i][j] * v[j]], W)
  BY DEF computeShares
<1> HIDE DEF W, N
<1>4. \A i \in N : \A j \in W : F[i][j] \in Int /\ G[j][i] = F[i][j]
  BY <1>1
<1>5. ASSUME NEW i \in N
      PROVE  A[i] = Total(F[i], W)
  <2> DEFINE f == [j \in W |-> M[p][i][j] * v[j]]
             h == F[i]
  <2>1. A[i] = c[i] * Total(f, W)
    BY <1>3
  <2>2. \A j \in W : f[j] \in Int /\ h[j] = c[i] * f[j]
    BY <1>1
  <2>3. c[i] \in Int
    BY <1>1
  <2> HIDE DEF f, h
  <2>4. Total(h, W) = c[i] * Total(f, W)
    <3>1. Multiplied(W, c[i], f, h)
      BY <1>1, <2>2, <2>3 DEF Multiplied
    <3>2. QED
      BY <3>1, TotalOfMultiple
  <2>5. QED
    BY <2>1, <2>4 DEF h
<1>6. ASSUME NEW j \in W
      PROVE  B[j] = IF j = 1 THEN v[1] ELSE 0
  <2> DEFINE f == col(j)
             h == G[j]
  <2>1. \A i \in N : f[i] \in Int /\ h[i] = v[j] * f[i]
    <3>1. ASSUME NEW i \in N
          PROVE  f[i] \in Int /\ h[i] = v[j] * f[i]
      <4> DEFINE x == c[i]
                 y == M[p][i][j]
                 z == v[j]
      <4>1. x \in Int /\ y \in Int /\ z \in Int
        BY <1>1
      <4>2. f[i] = x * y /\ h[i] = x * (y * z)
        OBVIOUS
      <4> HIDE DEF x, y, f, h
      <4>3. x * (y * z) = z * (x * y) /\ x * y \in Int
        <5> HIDE DEF z
        <5>1. QED
          BY <4>1
      <4>4. QED
        BY <4>2, <4>3
    <3>2. QED
      BY <3>1
  <2>2. Total(f, N) = IF j = 1 THEN 1 ELSE 0
    BY <1>2
  <2>3. v[j] \in Int
    BY <1>1
  <2> HIDE DEF f, h
  <2>4. Total(h, N) = v[j] * Total(f, N)
    <3>1. Multiplied(N, v[j], f, h)
      BY <1>1, <2>1, <2>3 DEF Multiplied
    <3>2. QED
      BY <3>1, TotalOfMultiple
  <2>5. B[j] = Total(h, N)
    BY DEF h
  <2>6. QED
    BY <2>2, <2>3, <2>4, <2>5
<1> HIDE DEF F, G
<1>7. \A j \in W : B[j] = Total(G[j], N)
  OBVIOUS
<1> HIDE DEF B
<1>8. Total(A, N) = Total(B, W)
  <2>1. IsFiniteSet(N) /\ IsFiniteSet(W)
    BY <1>1
  <2>2. \A i \in N : A[i] = Total(F[i], W)
    BY <1>5
  <2>3. Table(N, W, F, G, A, B)
    BY <1>4, <1>7, <2>1, <2>2 DEF Table
  <2>4. QED
    BY <2>3, TotalExchanged
<1>9. Total(B, W) = v[1]
  <2>1. \A j \in W : B[j] \in Int
    BY <1>1, <1>6
  <2>2. Total(B, W) = B[1] + Total(B, W \ {1})
    BY <1>1, <2>1, TotalOfAny
  <2>3. Total(B, W \ {1}) = 0
    <3> DEFINE V == W \ {1}
    <3>1. IsFiniteSet(V)
      BY <1>1, FS_RemoveElement
    <3>2. \A j \in V : B[j] = 0
      BY <1>6
    <3> HIDE DEF V
    <3>3. Total(B, V) = 0
      BY <3>1, <3>2, TotalOfZeros
    <3>4. QED
      BY <3>3 DEF V
  <2>4. B[1] = v[1] /\ v[1] \in Int
    BY <1>1, <1>6
  <2>5. QED
    BY <2>2, <2>3, <2>4
<1>10. QED
  BY <1>8, <1>9 DEF N

\* crypto.go:165-196: with coefficients for the policy and keys of one user, a
\* decryption of the policy's ciphertext computes its secret.
LEMMA DecryptedSecret ==
  ASSUME NEW p \in Policies, NEW c \in Coefficients(p), NEW secret \in Int,
         NEW s \in [1..Width(p) -> Int], NEW w \in [1..Width(p) -> Int], w[1] = 0,
         NEW tx \in [DOMAIN M[p] -> Int],
         ct[p] = Ciphertext(p, secret, s, w, tx),
         ToSet(Vars[p]) \subseteq DOMAIN coeff,
         \A a \in ToSet(Vars[p]) : \E t \in Int : userkey[a] = Userkey(a, t),
         Fits(ct[p].C, SelectUserAttrs(p, c))
  PROVE  Decrypted(p, SelectUserAttrs(p, c)) = secret
<1> DEFINE N == DOMAIN M[p]
           cs == SelectUserAttrs(p, c)
           at == {x \in (DOMAIN cs) \X (1..Len(M[p])) :
                    x[2] \in DOMAIN cs[x[1]] /\ cs[x[1]][x[2]] # 0}
           g == [x \in at |-> cs[x[1]][x[2]] * RowValue(ct[p].C[x[1]][x[2]], userkey[x[1]])]
           I == {i \in N : c[i] # 0}
           shs == computeShares(s, p)
           shw == computeShares(w, p)
           f == [i \in N |-> c[i] * (shs[i] + HashUser * shw[i])]
           n(a) == Cardinality(RowsOf(p, a))
           r(a) == Row(p, a)
           K == [i \in N |-> CHOOSE k \in 1..n(Vars[p][i]) : r(Vars[p][i])[k] = i]
           h == [i \in I |-> <<Vars[p][i], K[i]>>]
<1>1. /\ N = 1..Len(M[p]) /\ DOMAIN Vars[p] = N /\ IsFiniteSet(N) /\ Len(M[p]) \in Nat
      /\ \A i \in N : Vars[p][i] \in Attrs /\ Vars[p][i] \in ToSet(Vars[p])
      /\ ToSet(Vars[p]) \subseteq Attrs
  BY MatrixTypes DEF ToSet
<1>2. \A i \in N : c[i] \in Int
  BY CpAbeAssumption DEF Coefficients
<1>3. \A i \in N : shs[i] \in Int /\ shw[i] \in Int
  BY SharesTyped
<1>4. ASSUME NEW a \in Attrs
      PROVE  /\ DOMAIN r(a) = 1..n(a) /\ n(a) \in Nat /\ n(a) <= Len(M[p])
             /\ \A k \in 1..n(a) : r(a)[k] \in N /\ Vars[p][r(a)[k]] = a
             /\ \A j, k \in 1..n(a) : r(a)[j] = r(a)[k] => j = k
             /\ \A i \in N : Vars[p][i] = a => \E k \in 1..n(a) : r(a)[k] = i
  <2>1. r(a) \in Bijection(1..n(a), RowsOf(p, a)) /\ n(a) \in 0..Len(M[p])
    BY RowNamesRows
  <2>2. /\ r(a) \in [1..n(a) -> RowsOf(p, a)]
        /\ \A j, k \in 1..n(a) : r(a)[j] = r(a)[k] => j = k
        /\ \A i \in RowsOf(p, a) : \E k \in 1..n(a) : r(a)[k] = i
    BY <2>1 DEF Bijection, Injection, Surjection, IsInjective
  <2>3. RowsOf(p, a) = {i \in N : Vars[p][i] = a}
    BY <1>1 DEF RowsOf
  <2>4. n(a) \in Nat /\ n(a) <= Len(M[p])
    BY <1>1, <2>1
  <2> HIDE DEF N, n, r
  <2>5. QED
    BY <2>2, <2>3, <2>4
<1>5. \A i \in N : K[i] \in 1..n(Vars[p][i]) /\ r(Vars[p][i])[K[i]] = i
  <2>1. ASSUME NEW i \in N
        PROVE  \E k \in 1..n(Vars[p][i]) : r(Vars[p][i])[k] = i
    BY <1>1, <1>4
  <2> HIDE DEF N, n, r
  <2>2. QED
    BY <2>1
<1> HIDE DEF K, N, n, r
<1>6. /\ DOMAIN cs = DOMAIN coeff
      /\ \A a \in ToSet(Vars[p]) : a \in DOMAIN cs /\ cs[a] = [k \in 1..n(a) |-> c[r(a)[k]]]
  BY <1>1, <1>4 DEF SelectUserAttrs, r
<1>7. ct[p].C0 = secret + s[1] /\ DOMAIN ct[p].C = ToSet(Vars[p])
  BY DEF Ciphertext
<1>8. \A a \in ToSet(Vars[p]) : \A k \in 1..n(a) :
        ct[p].C[a][k] = Component(a, shs[r(a)[k]], shw[r(a)[k]], tx[r(a)[k]])
  BY <1>1, <1>4 DEF Ciphertext, r
<1> HIDE DEF cs
<1>9. \A a \in DOMAIN cs : \A k \in DOMAIN cs[a] : cs[a][k] # 0 => a \in ToSet(Vars[p])
  BY <1>7 DEF Fits, cs
<1>10. Decrypted(p, cs) = ct[p].C0 - Total(g, at)
  BY DEF Decrypted
<1>11. \A a \in ToSet(Vars[p]) : \A k : <<a, k>> \in at <=> k \in 1..n(a) /\ c[r(a)[k]] # 0
  <2>1. ASSUME NEW a \in ToSet(Vars[p]), NEW k
        PROVE  <<a, k>> \in at <=> k \in 1..n(a) /\ c[r(a)[k]] # 0
    <3>1. a \in DOMAIN cs /\ DOMAIN cs[a] = 1..n(a) /\ \A l \in 1..n(a) : cs[a][l] = c[r(a)[l]]
      BY <1>6, ZenonT(60)
    <3>2. \A l \in 1..n(a) : l \in 1..Len(M[p])
      BY <1>1, <1>4
    <3>3. QED
      BY <3>1, <3>2
  <2>2. QED
    BY <2>1
<1>12. ASSUME NEW x \in at
       PROVE  x[1] \in ToSet(Vars[p]) /\ x = <<x[1], x[2]>>
  BY <1>9
<1> HIDE DEF at
<1>13. h \in Bijection(I, at)
  <2>1. ASSUME NEW i \in I
        PROVE  h[i] \in at /\ h[i] = <<Vars[p][i], K[i]>> /\ r(h[i][1])[h[i][2]] = i
    <3>1. i \in N /\ c[i] # 0
      OBVIOUS
    <3>2. <<Vars[p][i], K[i]>> \in at
      BY <1>1, <1>5, <1>11, <3>1
    <3>3. QED
      BY <1>5, <3>1, <3>2
  <2>2. ASSUME NEW x \in at
        PROVE  \E i \in I : h[i] = x
    <3> DEFINE a == x[1]
               k == x[2]
               i == r(a)[k]
    <3>1. a \in ToSet(Vars[p]) /\ x = <<a, k>>
      BY <1>12
    <3>2. a \in Attrs /\ k \in 1..n(a) /\ c[i] # 0
      BY <1>1, <1>11, <3>1
    <3>3. i \in N /\ Vars[p][i] = a
      BY <1>4, <3>2
    <3> HIDE DEF i, a, k
    <3>4. K[i] \in 1..n(a) /\ r(a)[K[i]] = r(a)[k]
      BY <1>5, <3>3 DEF i
    <3>5. K[i] = k
      BY <1>4, <3>2, <3>4
    <3>6. QED
      BY <3>1, <3>2, <3>3, <3>5
  <2>3. ASSUME NEW i \in I, NEW j \in I, h[i] = h[j]
        PROVE  i = j
    <3>1. r(h[i][1])[h[i][2]] = i /\ r(h[j][1])[h[j][2]] = j
      BY <2>1
    <3> HIDE DEF h
    <3>2. QED
      BY <2>3, <3>1
  <2>4. h \in [I -> at]
    BY <2>1
  <2> HIDE DEF h, I
  <2>5. QED
    BY <2>2, <2>3, <2>4 DEF Bijection, Injection, Surjection, IsInjective
<1>14. ASSUME NEW i \in I
       PROVE  g[h[i]] = f[i]
  <2> DEFINE a == Vars[p][i]
             k == K[i]
  <2>1. i \in N /\ c[i] # 0 /\ a \in ToSet(Vars[p]) /\ a \in Attrs
    BY <1>1
  <2>2. k \in 1..n(a) /\ r(a)[k] = i
    BY <1>5, <2>1
  <2>3. h[i] = <<a, k>> /\ <<a, k>> \in at
    BY <1>11, <2>1, <2>2
  <2>4. g[<<a, k>>] = cs[a][k] * RowValue(ct[p].C[a][k], userkey[a])
    BY <2>3
  <2> HIDE DEF a, k, g, h
  <2>5. cs[a][k] = c[i] /\ ct[p].C[a][k] = Component(a, shs[i], shw[i], tx[i])
    BY <1>6, <1>8, <2>1, <2>2, ZenonT(60)
  <2>6. PICK t \in Int : userkey[a] = Userkey(a, t)
    BY <2>1
  <2>7. tx[i] \in Int /\ shs[i] \in Int /\ shw[i] \in Int
    BY <1>3, <2>1 DEF N
  <2>8. RowValue(Component(a, shs[i], shw[i], tx[i]), Userkey(a, t)) = shs[i] + HashUser * shw[i]
    BY <2>1, <2>7, RowGivesShares
  <2>9. QED
    BY <2>1, <2>3, <2>4, <2>5, <2>6, <2>8
<1> HIDE DEF g, h
<1> DEFINE A == [i \in N |-> c[i] * shs[i]]
           B == [i \in N |-> c[i] * shw[i]]
           D == [i \in N |-> HashUser * B[i]]
<1>15. ASSUME NEW i \in N
       PROVE  /\ A[i] \in Int /\ B[i] \in Int /\ D[i] = HashUser * B[i] /\ D[i] \in Int
              /\ f[i] = A[i] + D[i] /\ f[i] \in Int /\ (i \notin I => f[i] = 0)
  <2> DEFINE x == c[i]
             y == shs[i]
             z == shw[i]
  <2>1. x \in Int /\ y \in Int /\ z \in Int /\ HashUser \in Int
    BY <1>2, <1>3, CpAbeAssumption
  <2>2. /\ A[i] = x * y /\ B[i] = x * z /\ D[i] = HashUser * B[i]
        /\ f[i] = x * (y + HashUser * z) /\ (i \notin I => x = 0)
    OBVIOUS
  <2> HIDE DEF x, y, z, A, B, D, f, I
  <2>3. x * (y + HashUser * z) = x * y + HashUser * (x * z) /\ x * y \in Int /\ x * z \in Int
    BY <2>1
  <2>4. HashUser * (x * z) \in Int
    BY <2>1, <2>3
  <2>5. x = 0 => x * (y + HashUser * z) = 0
    BY <2>1
  <2>6. QED
    BY <2>2, <2>3, <2>4, <2>5
<1>16. I \in SUBSET N /\ IsFiniteSet(I)
  BY <1>1, FS_Subset
<1>17. A = [i \in N |-> c[i] * shs[i]] /\ B = [i \in N |-> c[i] * shw[i]]
  OBVIOUS
<1> HIDE DEF A, B, D, f, I
<1>18. Total(g, at) = Total(f, I)
  <2>1. \A i \in I : f[i] \in Int /\ g[h[i]] = f[i]
    BY <1>14, <1>15, <1>16
  <2>2. QED
    BY <1>13, <1>16, <2>1, TotalRenamed, SMTT(30)
<1>19. Total(f, I) = Total(f, N)
  BY <1>1, <1>15, <1>16, TotalWithoutZeros
<1>20. Total(f, N) = Total(A, N) + Total(D, N)
  <2>1. Added(N, A, D, f)
    BY <1>1, <1>15 DEF Added
  <2>2. QED
    BY <2>1, TotalOfSum
<1>21. Total(D, N) = HashUser * Total(B, N)
  <2>1. HashUser \in Int
    BY CpAbeAssumption
  <2>2. Multiplied(N, HashUser, B, D)
    BY <1>1, <1>15, <2>1 DEF Multiplied
  <2>3. QED
    BY <2>2, TotalOfMultiple
<1>22. Total(A, N) = s[1] /\ Total(B, N) = 0
  BY <1>17, SharesCombine DEF N
<1>23. s[1] \in Int /\ HashUser * 0 = 0
  <2>1. 1 \in 1..Width(p)
    BY MatrixTypes
  <2> DEFINE W == 1..Width(p)
  <2> HIDE DEF W
  <2>2. s[1] \in Int
    BY <2>1 DEF W
  <2>3. HashUser * 0 = 0
    BY CpAbeAssumption
  <2>4. QED
    BY <2>2, <2>3
<1>24. Total(g, at) = s[1]
  BY <1>18, <1>19, <1>20, <1>21, <1>22, <1>23
<1>25. QED
  BY <1>7, <1>10, <1>23, <1>24 DEF cs

-----------------------------------------------------------------------------
(***************************************************************************)
(* The inductive invariant.                                                *)
(***************************************************************************)

\* Every key is one of this user's, with whatever was drawn for it, and has its
\* coefficients beside it.
KeysIssued ==
  /\ DOMAIN coeff = DOMAIN userkey
  /\ \A a \in DOMAIN userkey : a \in Attrs /\ \E t \in Draws : userkey[a] = Userkey(a, t)

\* A ciphertext was made under its policy, with a sharing of zero beside that of
\* the secret's mask.
Made(p) ==
  \E secret \in Secrets, s, w \in [1..Width(p) -> Draws], tx \in [DOMAIN M[p] -> Draws] :
    ct[p] = Ciphertext(p, secret, s, [w EXCEPT ![1] = 0], tx)

CiphertextsMade ==
  /\ DOMAIN ct = Policies
  /\ \A p \in Policies : ct[p] # None => Made(p)

ResultIsSecret ==
  result.kept => \E p \in Policies : ct[p] # None /\ result.policy = {p} /\ result.value = ct[p].secret

AbeInv == KeysIssued /\ CiphertextsMade /\ ResultIsSecret

LEMMA AbeInvInit == Init => AbeInv
BY DEF Init, AbeInv, KeysIssued, CiphertextsMade, ResultIsSecret, None, Refused

LEMMA ZeroFirst ==
  ASSUME NEW W, 1 \in W, NEW v \in [W -> Int]
  PROVE  [v EXCEPT ![1] = 0] \in [W -> Int] /\ [v EXCEPT ![1] = 0][1] = 0
OBVIOUS

LEMMA CiphertextsKept ==
  ASSUME CiphertextsMade, ct' = ct
  PROVE  CiphertextsMade'
<1>1. ASSUME NEW p \in Policies, ct'[p] # None
      PROVE  Made(p)'
  <2>1. Made(p) /\ ct'[p] = ct[p]
    BY <1>1 DEF CiphertextsMade
  <2>2. QED
    BY <2>1 DEF Made
<1>2. QED
  BY <1>1 DEF CiphertextsMade

LEMMA KeyKeepsInv ==
  ASSUME AbeInv, NEW a \in Attrs, NEW t \in Draws, NewRandomUserkey(a, t)
  PROVE  AbeInv'
<1>1. KeysIssued'
  <2>1. /\ userkey' = Extended(userkey, a, Userkey(a, t))
        /\ coeff' = Extended(coeff, a, <<>>)
    BY DEF NewRandomUserkey
  <2>2. DOMAIN userkey' = DOMAIN userkey \cup {a} /\ DOMAIN coeff' = DOMAIN userkey'
    BY <2>1 DEF Extended, AbeInv, KeysIssued
  <2>3. ASSUME NEW b \in DOMAIN userkey'
        PROVE  b \in Attrs /\ \E u \in Draws : userkey'[b] = Userkey(b, u)
    <3>1. CASE b = a
      BY <2>1, <2>2, <3>1 DEF Extended
    <3>2. CASE b # a
      BY <2>1, <2>2, <3>2 DEF Extended, AbeInv, KeysIssued
    <3>3. QED
      BY <3>1, <3>2
  <2>4. QED
    BY <2>2, <2>3 DEF KeysIssued, Userkey
<1>2. CiphertextsMade' /\ ResultIsSecret'
  BY CiphertextsKept DEF NewRandomUserkey, AbeInv, ResultIsSecret
<1>3. QED
  BY <1>1, <1>2 DEF AbeInv

LEMMA EncryptKeepsInv ==
  ASSUME AbeInv, NEW q \in Policies, NEW secret \in Secrets, Encrypt(q, secret)
  PROVE  AbeInv'
<1>1. KeysIssued'
  BY DEF Encrypt, AbeInv, KeysIssued, Userkey
<1>2. PICK s \in [1..Width(q) -> Draws], w \in [1..Width(q) -> Draws], tx \in [DOMAIN M[q] -> Draws] :
        ct' = [ct EXCEPT ![q] = Ciphertext(q, secret, s, [w EXCEPT ![1] = 0], tx)]
  BY DEF Encrypt
<1>3. /\ DOMAIN ct = Policies /\ DOMAIN ct' = Policies
      /\ ct'[q] = Ciphertext(q, secret, s, [w EXCEPT ![1] = 0], tx)
      /\ \A p \in Policies : p # q => ct'[p] = ct[p]
  BY <1>2 DEF AbeInv, CiphertextsMade
<1>4. CiphertextsMade'
  <2>1. ASSUME NEW p \in Policies, ct'[p] # None
        PROVE  Made(p)'
    <3>1. CASE p = q
      BY <1>3, <3>1 DEF Made
    <3>2. CASE p # q
      <4>1. Made(p)
        BY <1>3, <2>1, <3>2 DEF AbeInv, CiphertextsMade
      <4>2. QED
        BY <1>3, <3>2, <4>1, ZenonT(60) DEF Made
    <3>3. QED
      BY <3>1, <3>2
  <2>2. QED
    BY <1>3, <2>1 DEF CiphertextsMade
<1>5. ResultIsSecret'
  BY <1>3 DEF Encrypt, AbeInv, ResultIsSecret
<1>6. QED
  BY <1>1, <1>4, <1>5 DEF AbeInv

LEMMA DecryptKeepsInv ==
  ASSUME AbeInv, NEW p \in Policies, Decrypt(p)
  PROVE  AbeInv'
<1>1. /\ ct[p] # None /\ ToSet(Vars[p]) \subseteq DOMAIN userkey
      /\ userkey' = userkey /\ ct' = ct
  BY DEF Decrypt
<1>2. PICK c \in Coefficients(p) :
        /\ coeff' = SelectUserAttrs(p, c)
        /\ result' = IF Fits(ct[p].C, coeff')
                     THEN [policy |-> {p}, value |-> Decrypted(p, coeff'), kept |-> TRUE]
                     ELSE [Refused EXCEPT !.policy = {p}]
  BY DEF Decrypt
<1>3. KeysIssued'
  BY <1>1, <1>2 DEF AbeInv, KeysIssued, SelectUserAttrs, Userkey
<1>4. CiphertextsMade'
  BY <1>1, CiphertextsKept DEF AbeInv
<1>5. ResultIsSecret'
  <2>1. CASE ~Fits(ct[p].C, coeff')
    BY <1>2, <2>1 DEF ResultIsSecret, Refused
  <2>2. CASE Fits(ct[p].C, coeff')
    <3>1. Made(p)
      BY <1>1 DEF AbeInv, CiphertextsMade
    <3>2. PICK secret \in Secrets, s \in [1..Width(p) -> Draws], w0 \in [1..Width(p) -> Draws],
               tx \in [DOMAIN M[p] -> Draws] :
            ct[p] = Ciphertext(p, secret, s, [w0 EXCEPT ![1] = 0], tx)
      BY <3>1 DEF Made
    <3> DEFINE w == [w0 EXCEPT ![1] = 0]
               W == 1..Width(p)
    <3>3. 1 \in W /\ Draws \subseteq Int /\ Secrets \subseteq Int
      BY MatrixTypes, CpAbeAssumption
    <3>4. s \in [W -> Int] /\ w \in [W -> Int] /\ w[1] = 0
      <4> HIDE DEF W
      <4>1. s \in [W -> Draws] /\ w0 \in [W -> Draws]
        BY DEF W
      <4>2. s \in [W -> Int]
        BY <3>3, <4>1
      <4>3. w0 \in [W -> Int] /\ 1 \in W
        BY <3>3, <4>1
      <4>4. w \in [W -> Int] /\ w[1] = 0
        BY <4>3, ZeroFirst
      <4>5. QED
        BY <4>2, <4>4
    <3>5. tx \in [DOMAIN M[p] -> Int] /\ secret \in Int
      BY <3>3
    <3>6. ToSet(Vars[p]) \subseteq DOMAIN coeff
      BY <1>1 DEF AbeInv, KeysIssued
    <3>7. \A a \in ToSet(Vars[p]) : \E t \in Int : userkey[a] = Userkey(a, t)
      BY <1>1, <3>3 DEF AbeInv, KeysIssued
    <3>8. ct[p] = Ciphertext(p, secret, s, w, tx)
      BY <3>2
    <3>9. Fits(ct[p].C, SelectUserAttrs(p, c))
      BY <1>2, <2>2
    <3> HIDE DEF w
    <3>10. Decrypted(p, SelectUserAttrs(p, c)) = secret
      BY <3>4, <3>5, <3>6, <3>7, <3>8, <3>9, DecryptedSecret, ZenonT(60)
    <3>11. ct[p].secret = secret
      BY <3>8 DEF Ciphertext
    <3>12. result' = [policy |-> {p}, value |-> secret, kept |-> TRUE]
      BY <1>2, <2>2, <3>10
    <3>13. QED
      BY <1>1, <3>11, <3>12 DEF ResultIsSecret
  <2>3. QED
    BY <2>1, <2>2
<1>6. QED
  BY <1>3, <1>4, <1>5 DEF AbeInv

LEMMA AbeInvNext == AbeInv /\ [Next]_vars => AbeInv'
<1> SUFFICES ASSUME AbeInv, [Next]_vars PROVE AbeInv'
  OBVIOUS
<1>1. CASE UNCHANGED vars
  <2>1. KeysIssued' /\ ResultIsSecret'
    BY <1>1 DEF vars, AbeInv, KeysIssued, Userkey, ResultIsSecret
  <2>2. CiphertextsMade'
    BY <1>1, CiphertextsKept DEF vars, AbeInv
  <2>3. QED
    BY <2>1, <2>2 DEF AbeInv
<1>2. CASE Next
  BY <1>2, KeyKeepsInv, EncryptKeepsInv, DecryptKeepsInv DEF Next
<1>3. QED
  BY <1>1, <1>2

\* Whatever is drawn, and in whatever order keys are issued and ciphertexts are
\* made and decrypted, keys, ciphertexts and results are of their forms.
THEOREM AbeInvariant == Spec => []AbeInv
BY AbeInvInit, AbeInvNext, PTL DEF Spec

LEMMA AbeInvGivesSecret == AbeInv => DecryptReturnsSecret
<1> SUFFICES ASSUME AbeInv, result.kept, NEW p \in result.policy
             PROVE  (result.value - ct[p].secret) % Order = 0
  BY DEF DecryptReturnsSecret
<1>1. ct[p] # None /\ p \in Policies /\ result.value = ct[p].secret
  BY DEF AbeInv, ResultIsSecret
<1>2. ct[p].secret \in Int
  <2>1. Made(p)
    BY <1>1 DEF AbeInv, CiphertextsMade
  <2>2. PICK secret \in Secrets : ct[p].secret = secret
    BY <2>1 DEF Made, Ciphertext
  <2>3. QED
    BY <2>2, CpAbeAssumption
<1> DEFINE x == ct[p].secret
<1>3. x - x = 0 /\ 0 % Order = 0
  BY <1>2, CpAbeAssumption
<1>4. QED
  BY <1>1, <1>3

\* crypto.go:118-196: what a decryption returns is the secret the ciphertext was
\* made for, for all policies, matrices, coefficients, attributes with any
\* number of rows, exponents and keys.
THEOREM DecryptionsReturnSecret == Spec => []DecryptReturnsSecret
BY AbeInvariant, AbeInvGivesSecret, PTL
=============================================================================
