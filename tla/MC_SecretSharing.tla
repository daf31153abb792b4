-------------------------- MODULE MC_SecretSharing --------------------------
(***************************************************************************)
(* Access trees for TLC: every tree over a few sequences of leaves, and    *)
(* the trees of comparisons.                                               *)
(***************************************************************************)
EXTENDS SecretSharing

\* The trees with these leaves, in this order.
RECURSIVE TreesOver(_)
TreesOver(labels) ==
  IF Len(labels) = 1 THEN {Leaf(<<labels[1]>>)}
  ELSE UNION {{Node(<<op>>, l, r) : op \in {"and", "or"},
                 l \in TreesOver(SubSeq(labels, 1, k)),
                 r \in TreesOver(SubSeq(labels, k+1, Len(labels)))}
                : k \in 1..(Len(labels)-1)}

ComparisonTrees(ops, values) ==
  {CompareTrees("n", op, v)[1] : op \in ops, v \in values}

MCTrees ==
  TreesOver(<<"a">>) \cup TreesOver(<<"a", "b">>) \cup TreesOver(<<"a", "b", "c">>)
    \cup TreesOver(<<"a", "b", "a", "c">>) \cup TreesOver(<<"a", "b", "c", "d", "e">>)
    \cup {Node(<<"and">>, Node(<<"and">>, t, Leaf(<<"e">>)), Leaf(<<"f">>)) :
            t \in TreesOver(<<"a", "b", "c", "d">>)}
    \cup ComparisonTrees(Compares, 1..30)
    \cup {Node(<<op>>, t, Leaf(<<"a">>)) :
            op \in {"and", "or"}, t \in ComparisonTrees({">", "<"}, 8..12)}
=============================================================================
