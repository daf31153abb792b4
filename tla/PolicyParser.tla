---------------------------- MODULE PolicyParser ----------------------------
(***************************************************************************)
(* From the text of a policy to its tree: pkg/mosaic/abe/policy.go with    *)
(* the parser generated from Policy.g4.  Walking the parse tree, a         *)
(* listener builds the tree on a stack.                                    *)
(*                                                                         *)
(* A text is the sequence of its tokens, each a string.  The parser is     *)
(* modelled on well-formed expressions, where the error recovery of ANTLR  *)
(* plays no part.                                                          *)
(***************************************************************************)
EXTENDS AccessTree, FiniteSets

Joins == {"/\\", "\\/"}

IsNumber(tok) == \E v \in Values : tok = ToString(v)

\* strconv.Atoi with its error dropped: 0 for what is not a number.
Atoi(tok) == IF IsNumber(tok) THEN CHOOSE v \in Values : tok = ToString(v) ELSE 0

\* The leaves from left to right: two of them part at a node.
LeftOf(p, q) ==
  \E i \in DOMAIN p \cap DOMAIN q :
    p[i] < q[i] /\ SubSeq(p, 1, i - 1) = SubSeq(q, 1, i - 1)

LeafPaths(t) ==
  LET leaves == {p \in DOMAIN t : IsLeaf(t, p)}
  IN [i \in 1..Cardinality(leaves) |->
        CHOOSE p \in leaves : Cardinality({q \in leaves : LeftOf(q, p)}) = i - 1]

Leaves(t) == LET paths == LeafPaths(t) IN [i \in DOMAIN paths |-> t[paths[i]]]

-----------------------------------------------------------------------------
(***************************************************************************)
(* The listener: a stack of trees, the variables in the order their leaves *)
(* were added, the next token, and whether no step has panicked.           *)
(***************************************************************************)
NewListener == [s |-> <<>>, vars |-> <<>>, at |-> 1, ok |-> TRUE]

Panic(ln) == [ln EXCEPT !.ok = FALSE]

AddLeaf(ln, tok) ==
  [ln EXCEPT !.s = Append(@, Leaf(<<tok>>)), !.at = @ + 1,
             !.vars = IF IsNumber(tok) THEN @ ELSE Append(@, <<tok>>)]

Pop2(s) == SubSeq(s, 1, Len(s) - 2)

AddNode(ln, label) ==
  IF ~ln.ok \/ Len(ln.s) < 2 THEN Panic(ln)
  ELSE [ln EXCEPT !.s = Append(Pop2(@), Node(label, @[Len(@)-1], @[Len(@)]))]

\* ExitExpr_linear takes the labels of the two topmost trees, whatever they
\* are, for the attribute and the number; only the format of an attribute
\* tells it that one is not.
Linear(ln, op) ==
  LET n == Len(ln.s)
      a == ln.s[n-1][<<>>]
      v == ln.s[n][<<>>]
  IN IF ~ln.ok \/ n < 2 \/ ln.vars = <<>> THEN Panic(ln)
     ELSE IF a[1] \notin Attrs \/ Len(a) # 1 THEN Panic(ln)
     ELSE LET trees == CompareTrees(a[1], op, Atoi(v[1])) IN
          [ln EXCEPT !.s = Pop2(@) \o trees,
                     !.vars = Front(@) \o (IF trees = <<>> THEN <<>>
                                           ELSE Leaves(trees[1]))]

\* expr of the generated parser: a join binds tighter (5) than a comparison
\* (3), and both associate to the left.
RECURSIVE Expr(_, _, _), Operators(_, _, _)
Expr(t, prec, ln) ==
  Operators(t, prec,
    IF t[ln.at] = "("
    THEN LET inner == Expr(t, 0, [ln EXCEPT !.at = @ + 1])
         IN [inner EXCEPT !.at = @ + 1]
    ELSE AddLeaf(ln, t[ln.at]))

Operators(t, prec, ln) ==
  LET op == IF ln.at <= Len(t) THEN t[ln.at] ELSE ")"
      operand(p) == Expr(t, p, [ln EXCEPT !.at = @ + 1])
  IN IF op \in Joins /\ prec <= 5
     THEN Operators(t, prec, AddNode(operand(6), IF op = "/\\" THEN <<"and">> ELSE <<"or">>))
     ELSE IF op \in Compares /\ prec <= 3
     THEN Operators(t, prec, Linear(operand(4), op))
     ELSE ln

ParsePolicy(t) == Expr(t, 0, NewListener)

-----------------------------------------------------------------------------
\* CheckPolicyEncryptable and ValidateAccessPolicy: building the matrix does
\* not panic, and every variable has a row.  The tree is the stack's first.
Encryptable(t) ==
  LET ln == ParsePolicy(t) IN
    /\ ln.ok /\ ln.s # <<>> /\ ln.vars # <<>>
    /\ Len(ln.vars) <= Len(Leaves(ln.s[1]))

\* Row i of the matrix, the i-th leaf of the tree, is encrypted for the i-th
\* variable.
Relabel(tree, vars) ==
  LET paths == LeafPaths(tree)
      row(p) == CHOOSE i \in DOMAIN paths : paths[i] = p
  IN [p \in DOMAIN tree |-> IF IsLeaf(tree, p) THEN vars[row(p)] ELSE tree[p]]

AccessPolicy(t) ==
  LET ln == ParsePolicy(t) IN Relabel(ln.s[1], ln.vars)
=============================================================================
