--------------------------- MODULE SecretSharing ----------------------------
(***************************************************************************)
(* pkg/mosaic/abe/sss.go: the matrix that shares a secret along an access  *)
(* tree, and the coefficients that put the shares of a user's attributes   *)
(* together again (SelectUserAttrs in policy.go).                          *)
(*                                                                         *)
(* btreeLabeling walks the tree from the root, left child first, and hands *)
(* each node a vector.  The vectors are Go slices: an append within the    *)
(* capacity writes into an array that other slices may share, so memory is *)
(* modelled as a sequence of arrays and a slice as [arr, len].             *)
(***************************************************************************)
EXTENDS AccessTree, Totals

CONSTANT Trees     \* the access trees to share along

ASSUME SharingAssumption == \A t \in Trees : IsTree(t)

ASSUME WidthAssumption == NBit \in Nat \ {0}

VARIABLES
  tree,
  todo,      \* nodes still to be labelled, next one last
  leaves,    \* the leaves, from left to right
  vec,       \* the slice t.v of every node labelled so far or next
  mem,       \* the arrays behind the slices
  c,         \* the counter: columns in use
  coeff,     \* once attributes are selected: their coefficients
  held,      \* ... and the attributes
  short,     \* history: padding has stopped short of the counter
  clobbered  \* history: an append has overwritten an entry of another slice

vars == <<tree, todo, leaves, vec, mem, c, coeff, held, short, clobbered>>

-----------------------------------------------------------------------------
(***************************************************************************)
(* Slices.                                                                 *)
(***************************************************************************)
Content(m, s) == SubSeq(m[s.arr], 1, s.len)

Zeros(n) == [i \in 1..n |-> 0]

\* append(s, x): in place where the capacity allows, else into an array of
\* twice the capacity.
AppendTo(m, s, x) ==
  IF s.len < Len(m[s.arr])
  THEN [mem |-> [m EXCEPT ![s.arr][s.len + 1] = x],
        slice |-> [s EXCEPT !.len = @ + 1]]
  ELSE [mem |-> Append(m, Append(Content(m, s), x) \o Zeros(s.len - 1)),
        slice |-> [arr |-> Len(m) + 1, len |-> s.len + 1]]

\* padWithZeros(&s, n): the loop compares its index with a distance that
\* shrinks as the slice grows, so half of it is covered.
padWithZeros(m, s, n) ==
  LET round[i \in 0..n] ==
        IF i = 0 THEN [mem |-> m, slice |-> s]
        ELSE LET x == round[i-1]
             IN IF i - 1 < n - x.slice.len THEN AppendTo(x.mem, x.slice, 0) ELSE x
  IN round[n]

-----------------------------------------------------------------------------
Init ==
  /\ tree \in Trees
  /\ todo = << <<>> >> /\ leaves = <<>>
  /\ mem = << <<1>> >>
  /\ vec = [p \in {<<>>} |-> [arr |-> 1, len |-> 1]]
  /\ c = 1
  /\ coeff = <<>> /\ held = {}
  /\ short = FALSE /\ clobbered = FALSE

Next1 == Last(todo)
Kid(k) == Append(Next1, k)

\* The slices once the next node and its children have theirs.
Labelled(own, left, right) ==
  [p \in DOMAIN vec \cup {Kid(1), Kid(2)} |->
     CASE p = Kid(1) -> left [] p = Kid(2) -> right
       [] p = Next1  -> own  [] OTHER      -> vec[p]]

\* Some slice in use reads differently in the new memory.
Clobbers(m) == \E p \in DOMAIN vec : Content(m, vec[p]) # Content(mem, vec[p])

LabelLeaf ==
  /\ todo # <<>> /\ IsLeaf(tree, Next1)
  /\ todo' = Front(todo)
  /\ leaves' = Append(leaves, Next1)
  /\ UNCHANGED <<tree, vec, mem, c, coeff, held, short, clobbered>>

\* Both children of an OR get the very slice of their parent.
LabelOr ==
  /\ todo # <<>> /\ ~IsLeaf(tree, Next1) /\ tree[Next1] = <<"or">>
  /\ LET p == padWithZeros(mem, vec[Next1], c) IN
       /\ vec' = Labelled(p.slice, p.slice, p.slice)
       /\ mem' = p.mem
       /\ short' = (short \/ p.slice.len < c)
       /\ clobbered' = (clobbered \/ Clobbers(p.mem))
  /\ todo' = Front(todo) \o <<Kid(2), Kid(1)>>
  /\ UNCHANGED <<tree, leaves, c, coeff, held>>

\* Faulty variant: an AND takes no column of its own.
LabelAndNoColumn ==
  /\ todo # <<>> /\ ~IsLeaf(tree, Next1) /\ tree[Next1] = <<"and">>
  /\ LET p == padWithZeros(mem, vec[Next1], c)
         l == AppendTo(p.mem, p.slice, 1)
         zeros == Append(l.mem, Zeros(p.slice.len))
         r == AppendTo(zeros, [arr |-> Len(zeros), len |-> p.slice.len], -1)
     IN /\ vec' = Labelled(p.slice, l.slice, r.slice)
        /\ mem' = r.mem
        /\ short' = (short \/ p.slice.len < c)
        /\ clobbered' = (clobbered \/ Clobbers(r.mem))
  /\ c' = IF c = 1 THEN 2 ELSE c
  /\ todo' = Front(todo) \o <<Kid(2), Kid(1)>>
  /\ UNCHANGED <<tree, leaves, coeff, held>>

\* The left child of an AND gets its parent's vector and a 1, the right child
\* zeros and a -1, in a column of their own.
LabelAnd ==
  /\ todo # <<>> /\ ~IsLeaf(tree, Next1) /\ tree[Next1] = <<"and">>
  /\ LET p == padWithZeros(mem, vec[Next1], c)
         l == AppendTo(p.mem, p.slice, 1)
         zeros == Append(l.mem, Zeros(p.slice.len))
         r == AppendTo(zeros, [arr |-> Len(zeros), len |-> p.slice.len], -1)
     IN /\ vec' = Labelled(p.slice, l.slice, r.slice)
        /\ mem' = r.mem
        /\ short' = (short \/ p.slice.len < c)
        /\ clobbered' = (clobbered \/ Clobbers(r.mem))
  /\ c' = c + 1
  /\ todo' = Front(todo) \o <<Kid(2), Kid(1)>>
  /\ UNCHANGED <<tree, leaves, coeff, held>>

-----------------------------------------------------------------------------
(***************************************************************************)
(* The matrix: a row for every leaf, in their order, filled up with zeros. *)
(***************************************************************************)
encodeAccessPolicy ==
  [i \in DOMAIN leaves |->
     LET v == vec[leaves[i]] IN
       [j \in 1..c |-> IF j <= v.len THEN Content(mem, v)[j] ELSE 0]]

\* The rows of the attributes a user holds.
Rows(attrs) ==
  LET m == encodeAccessPolicy
      upTo[i \in 0..Len(leaves)] ==
        IF i = 0 THEN <<>>
        ELSE IF tree[leaves[i]] \in attrs THEN Append(upTo[i-1], m[i]) ELSE upTo[i-1]
  IN upTo[Len(leaves)]

-----------------------------------------------------------------------------
(***************************************************************************)
(* Coefficients.  Rows are a[1..n], each of m entries.                     *)
(***************************************************************************)
Unit(m, k) == [j \in 1..m |-> IF j = k THEN 1 ELSE 0]

linCombMatches(k, a) ==
  \A j \in 1..Len(a[1]) :
    Total([i \in DOMAIN a |-> k[i] * a[i][j]], DOMAIN a) = Unit(Len(a[1]), 1)[j]

Minus(x, b, y) == [j \in DOMAIN x |-> x[j] - b * y[j]]

\* One column of hermiteNormalForm: st holds the rows a, the unit rows u that
\* undergo the same operations, and the pivot k.
HermiteColumn(st, i) ==
  LET n   == Len(st.a)
      nz  == {j \in 1..(st.k - 1) : st.a[j][i] # 0}
      j0  == IF nz = {} THEN st.k ELSE CHOOSE j \in nz : \A l \in nz : j <= l
      swap(x) == [x EXCEPT ![j0] = x[st.k], ![st.k] = x[j0]]
      neg == swap(st.a)[st.k][i] < 0
      signed(x) == [swap(x) EXCEPT ![st.k] = IF neg THEN [l \in DOMAIN @ |-> -@[l]] ELSE @]
      a   == signed(st.a)
      p   == a[st.k][i]
      by(j) == IF j < st.k /\ nz # {} THEN (2 * a[j][i] + p) \div (2 * p)
               ELSE IF j > st.k /\ p # 0 THEN a[j][i] \div p ELSE 0
      reduce(x) == [j \in 1..n |-> IF by(j) = 0 THEN x[j] ELSE Minus(x[j], by(j), x[st.k])]
  IN [a |-> reduce(a), u |-> reduce(signed(st.u)), k |-> IF p = 0 THEN st.k ELSE st.k - 1]

\* The columns from the last one on, as many as there are rows at most.
hermiteNormalForm(a, q) ==
  LET n == Len(a)
      after[s \in 0..q] ==
        IF s = 0 THEN [a |-> a, u |-> [i \in 1..n |-> Unit(n, i)], k |-> n]
                 ELSE HermiteColumn(after[s-1], Len(a[1]) + 1 - s)
  IN after[q]

computeCoefficientsHNF(a) ==
  LET q == IF Len(a[1]) > Len(a) THEN Len(a) ELSE Len(a[1])
  IN hermiteNormalForm(a, q).u[Len(a) - q + 1]

\* computeCoefficientsSolve: Gauss-Jordan elimination on one equation for each
\* column of a.  Equations are kept in integers, up to a factor.
Eliminate(st, col) ==
  LET nz == {r \in st.pivot..Len(st.eq) : st.eq[r][col] # 0}
      r0 == CHOOSE r \in nz : \A s \in nz : r <= s
      e  == [st.eq EXCEPT ![st.pivot] = st.eq[r0], ![r0] = st.eq[st.pivot]]
      pv == e[st.pivot]
  IN IF nz = {} THEN st
     ELSE [pivot |-> st.pivot + 1,
           eq |-> [r \in DOMAIN e |->
                     IF r = st.pivot THEN pv
                     ELSE [j \in DOMAIN pv |-> pv[col] * e[r][j] - e[r][col] * pv[j]]]]

\* Back substitution solves an equation for its last variable, not for the one
\* it was the pivot of; num / den are the values so far.
Substitute(eq, st, r) ==
  LET n  == Len(st.num)
      nz == {j \in 1..n : eq[r][j] # 0}
      p  == CHOOSE j \in nz : \A l \in nz : l <= j
      v  == eq[r][n+1] * st.den
              - Total([j \in 1..n |-> eq[r][j] * st.num[j]], (p+1)..n)
  IN IF nz = {} THEN st
     ELSE [num |-> [j \in 1..n |-> IF j = p THEN v ELSE st.num[j] * eq[r][p]],
           den |-> st.den * eq[r][p]]

Elimination(eqs, n) ==
  LET after[s \in 0..n] ==
        IF s = 0 THEN [pivot |-> 1, eq |-> eqs] ELSE Eliminate(after[s-1], s)
  IN after[n]

BackSubstitution(eqs, r, n) ==
  LET after[s \in 0..r] ==
        IF s = 0 THEN [num |-> Zeros(n), den |-> 1]
                 ELSE Substitute(eqs, after[s-1], r + 1 - s)
  IN after[r]

\* num / den times the least common denominator.
CommonDenominator(num, den) ==
  LET abs == IF den < 0 THEN -den ELSE den
      gcd == Max({d \in 1..abs : abs % d = 0 /\ \A j \in DOMAIN num : num[j] % d = 0})
  IN [j \in DOMAIN num |-> (IF den < 0 THEN -num[j] ELSE num[j]) \div gcd]

computeCoefficientsSolve(a) ==
  LET n    == Len(a)
      m    == Len(a[1])
      eqs  == [j \in 1..m |->
                 [i \in 1..(n+1) |-> IF i <= n THEN a[i][j] ELSE Unit(m, 1)[j]]]
      el   == Elimination(eqs, n)
      back == BackSubstitution(el.eq, el.pivot - 1, n)
  IN CommonDenominator(back.num, back.den)

\* Faulty variant: the solver has no second method.
HermiteOnly(a) == computeCoefficientsHNF(a)

computeCoefficients(a) ==
  LET hnf   == computeCoefficientsHNF(a)
      solve == computeCoefficientsSolve(a)
  IN IF linCombMatches(hnf, a) THEN hnf
     ELSE IF linCombMatches(solve, a) THEN solve ELSE hnf

\* SelectUserAttrs.
Select(attrs) ==
  /\ todo = <<>> /\ held = {}
  /\ Rows(attrs) # <<>>
  /\ held' = attrs
  /\ coeff' = computeCoefficients(Rows(attrs))
  /\ UNCHANGED <<tree, todo, leaves, vec, mem, c, short, clobbered>>

Next ==
  \/ LabelLeaf \/ LabelOr \/ LabelAnd
  \/ \E attrs \in SUBSET Labels(tree) : Select(attrs)

Spec == Init /\ [][Next]_vars
-----------------------------------------------------------------------------
(***************************************************************************)
(* Properties.                                                             *)
(***************************************************************************)
Reconstructs == linCombMatches(coeff, Rows(held))

\* A user with every attribute of the tree gets the secret back: the
\* coefficients found combine his rows to (1, 0, ..., 0), whatever has become of
\* the padding.  The engine asks for all of them (PolicyMissingUserKeys), an OR
\* notwithstanding, unless they are bits of a compared number.
CompleteWithAllKeys ==
  held = Labels(tree) => Reconstructs

\* Nobody gets it whose attributes do not satisfy the tree, as long as every
\* vector was padded in full and none was overwritten.
SoundWhenAligned ==
  held # {} /\ ~short /\ ~clobbered /\ ~Opens(tree, held) => ~Reconstructs

\* The trees with a single attribute, or bit of one, on at least one side of
\* every AND and OR; those of comparisons are, alone or joined with one
\* attribute.
Lean(t) ==
  \A p \in DOMAIN t : \/ IsLeaf(t, p)
                      \/ IsLeaf(t, Append(p, 1)) \/ IsLeaf(t, Append(p, 2))

\* There the labelling goes wrong in neither way: attributes that do not satisfy
\* the tree, such as the bits of a number that does not satisfy a comparison,
\* never reconstruct the secret.
LeanSound ==
  held # {} /\ Lean(tree) /\ ~Opens(tree, held) => ~Reconstructs

\* Of a comparison: whoever reconstructs the secret with bits of his number has
\* one that NumericCompareSatisfied (abe/policy.go) accepts.
ComparisonsSound ==
  held # {} /\ Reconstructs =>
    \A a \in NumericAttrs, u \in Values : held \subseteq BagOfBits(a, u) =>
      \A op \in Compares, v \in Values :
        CompareTrees(a, op, v) = <<tree>> => NumericCompareSatisfied(u, op, v)

\* The tree of a comparison: every leaf is a bit.
IsComparison(t) == \A label \in Labels(t) : Len(label) = 3

\* The bits of a number that satisfies a comparison always reconstruct the
\* secret: NumericCompareSatisfied decides "用户数值是否满足比较子句"
\* (abe/policy.go:53), and a key is issued to whoever it accepts.
ComparisonsComplete ==
  held # {} /\ IsComparison(tree) /\ Opens(tree, held) => Reconstructs

\* The secret is shared along the policy: "encrypt a secret according to a
\* given policy" (pkg/mosaic/abe/crypto.go:116).
SharesFollowPolicy == held # {} /\ ~Opens(tree, held) => ~Reconstructs
=============================================================================
