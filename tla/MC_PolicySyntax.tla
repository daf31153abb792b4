-------------------------- MODULE MC_PolicySyntax ---------------------------
(***************************************************************************)
(* Policies for TLC: every way to join leaves from a few small sets, with  *)
(* and without parentheses around the operands.                            *)
(***************************************************************************)
EXTENDS PolicySyntax

MCLower    == [a \in NumericAttrs |-> "score"]
MCMaxValue == [a \in NumericAttrs |-> 5]

Comparing(a, values) == {<<a, op, v>> : op \in Compares, v \in values}

Operands(S) == S \cup {Parens(p) : p \in S}

\* The policies whose i-th leaf is one of leaves[i].
RECURSIVE Policies(_)
Policies(leaves) ==
  IF Len(leaves) = 1 THEN leaves[1]
  ELSE UNION {LET left  == Operands(Policies(SubSeq(leaves, 1, k)))
                  right == Operands(Policies(SubSeq(leaves, k+1, Len(leaves))))
              IN {l \o <<op>> \o r : l \in left, op \in Joins, r \in right}
                : k \in 1..(Len(leaves)-1)}

Numbers == {"0", "1", "2", "3", "4", "5", "6"}

MCTexts ==
  LET one   == Policies(<<Comparing("score", Numbers)>>)
      two   == Policies(<<{<<"a">>, <<"b">>} \cup Comparing("Score", {"0", "3", "6"}),
                          {<<"b">>, <<"Score", ">", "2">>, <<"score", "==", "5">>}>>)
      three == Policies(<<{<<"a">>, <<"Score", "<", "3">>},
                          {<<"b">>, <<"score", "<=", "4">>}, {<<"c">>, <<"a">>}>>)
      four  == Policies(<<{<<"a">>}, {<<"b">>}, {<<"c">>}, {<<"a">>, <<"b">>}>>)
  IN one \cup two \cup three \cup four \cup {Parens(Parens(p)) : p \in one \cup two}
       \cup {<<"c", "/\\">> \o Parens(Parens(Parens(p))) : p \in two}
=============================================================================
