----------------------------- MODULE AccessTree -----------------------------
(***************************************************************************)
(* What a policy means to the engine: the binary tree of ANDs and ORs that *)
(* pkg/mosaic/abe/policy.go makes of it.  A comparison with a number       *)
(* becomes a chain over the bits of the attribute.                         *)
(*                                                                         *)
(* A node is its path from the root, a sequence of 1 for a left and 2 for  *)
(* a right child; a tree is the function from its nodes to their labels.   *)
(* An inner node has the label <<"and">> or <<"or">>, a leaf <<attribute>> *)
(* or <<attribute, bit, its value>>.                                       *)
(***************************************************************************)
EXTENDS NumericBits, Sequences, SequencesExt

CONSTANTS
  BoolAttrs,     \* names of plain attributes
  NumericAttrs   \* names of attributes with a number

Attrs == BoolAttrs \cup NumericAttrs

-----------------------------------------------------------------------------
IsLeaf(t, p) == Append(p, 1) \notin DOMAIN t

IsTree(t) ==
  /\ <<>> \in DOMAIN t /\ DOMAIN t \subseteq Seq({1, 2})
  /\ \A p \in DOMAIN t :
       /\ p # <<>> => Front(p) \in DOMAIN t
       /\ Append(p, 1) \in DOMAIN t <=> Append(p, 2) \in DOMAIN t
       /\ ~IsLeaf(t, p) => t[p] \in {<<"and">>, <<"or">>}

Leaf(label) == [p \in {<<>>} |-> label]

Node(label, l, r) ==
  [p \in {<<>>} \cup {<<1>> \o q : q \in DOMAIN l} \cup {<<2>> \o q : q \in DOMAIN r} |->
     CASE p = <<>> -> label
       [] p # <<>> -> IF Head(p) = 1 THEN l[Tail(p)] ELSE r[Tail(p)]]

Labels(t) == {t[p] : p \in {q \in DOMAIN t : IsLeaf(t, q)}}

\* The tree that grows to the right: the left child of its k-th node, which has
\* the k-th join, is the k-th leaf, and the last leaf is the last right child.
Twos(n) == [i \in 1..n |-> 2]

Comb(leaves, joins) ==
  LET n == Len(leaves) IN
  [p \in {Twos(k) : k \in 0..(n-1)} \cup {Append(Twos(k), 1) : k \in 0..(n-2)} |->
     IF p = Twos(Len(p)) /\ Len(p) < n - 1 THEN joins[Len(p) + 1]
     ELSE leaves[IF p = Twos(n - 1) THEN n ELSE Len(p)]]

\* gt, gteq, lt, lteq: from the highest bit down to the last one that counts,
\* a bit of the attribute equal to b decides where v has the other bit.
Chain(a, v, b, low) ==
  IF low = NBit THEN <<>>
  ELSE << Comb([k \in 1..(NBit - low) |-> <<a, NBit - k, b>>],
               [k \in 1..(NBit - low - 1) |->
                  IF Bit(v, NBit - k) = b THEN <<"and">> ELSE <<"or">>]) >>

\* eq: all the bits, the lowest outermost.
AllBits(a, v) ==
  << Comb([k \in 1..NBit |-> <<a, k - 1, Bit(v, k - 1)>>],
          [k \in 1..(NBit - 1) |-> <<"and">>]) >>

\* Faulty variant: gt drops the trailing zeros, as gteq does.
CompareTreesGt(a, op, v) ==
  IF op = "==" THEN AllBits(a, v)
  ELSE Chain(a, v, Deciding(op), LowestBit(IF op = ">" THEN ">=" ELSE op, v))

\* The trees a comparison puts on the stack: none where it can never hold, or
\* always holds.
CompareTrees(a, op, v) ==
  IF op = "==" THEN AllBits(a, v)
  ELSE Chain(a, v, Deciding(op), LowestBit(op, v))

-----------------------------------------------------------------------------
\* Who can decrypt: whoever holds the labels of enough leaves.
Opened(t, held) ==
  LET opens[p \in DOMAIN t] ==
        IF IsLeaf(t, p) THEN t[p] \in held
        ELSE IF t[p] = <<"and">> THEN opens[Append(p, 1)] /\ opens[Append(p, 2)]
        ELSE opens[Append(p, 1)] \/ opens[Append(p, 2)]
  IN opens

Opens(t, held) == Opened(t, held)[<<>>]
=============================================================================
