---------------------------- MODULE PolicySyntax ----------------------------
(***************************************************************************)
(* abe/policy.go: a policy text on its way from the user to the rows of a  *)
(* ciphertext and back.  putEncrypted normalizes and validates what the    *)
(* user typed, the engine normalizes it again when it encrypts, and a      *)
(* decryption rebuilds the rows from the stored text, normalized once more *)
(* (user_client/service/file_service.go, abe/engine.go).                   *)
(*                                                                         *)
(* Texts are sequences of tokens, as in PolicyParser; spelling, white space  *)
(* and the words "and", "or" are left out, the case of numeric attributes  *)
(* is not.                                                                 *)
(***************************************************************************)
EXTENDS PolicyParser, FiniteSets

CONSTANTS
  Texts,      \* the policies users type
  Lower,      \* [NumericAttrs -> NumericAttrs]: names in lower case
  MaxValue    \* [NumericAttrs -> Values]: 23 for hours, 65535 otherwise

ASSUME PolicySyntaxAssumption ==
  /\ Lower \in [NumericAttrs -> NumericAttrs]
  /\ MaxValue \in [NumericAttrs -> 0..(2^NBit - 2)]

VARIABLES
  stage,      \* how far the policy has come
  text,       \* as typed
  stored,     \* as putEncrypted and the ciphertext hold it
  tree,       \* whom the rows of the ciphertext were made for
  rebuilt     \* the rows a decryption computes its coefficients for

vars == <<stage, text, stored, tree, rebuilt>>

-----------------------------------------------------------------------------
(***************************************************************************)
(* Splitting.                                                              *)
(***************************************************************************)
Count(t, n, tok) == Cardinality({i \in 1..n : t[i] = tok})
Depth(t, n)      == Count(t, n, "(") - Count(t, n, ")")

isWrappedClause(t) ==
  /\ Len(t) >= 2 /\ Head(t) = "(" /\ Last(t) = ")"
  /\ \A i \in 1..(Len(t)-1) : Depth(t, i) > 0
  /\ Depth(t, Len(t)) = 0

Inner(t)  == SubSeq(t, 2, Len(t) - 1)
Parens(t) == <<"(">> \o t \o <<")">>

\* Where the joins outside all parentheses are.
TopJoins(t) ==
  SetToSortSeq({i \in 1..Len(t) : t[i] \in Joins /\ Depth(t, i) = 0}, <)

Parts(t) ==
  LET cut == <<0>> \o TopJoins(t) \o <<Len(t) + 1>>
  IN [i \in 1..(Len(cut)-1) |-> SubSeq(t, cut[i] + 1, cut[i+1] - 1)]

JoinsOf(t) == LET at == TopJoins(t) IN [i \in DOMAIN at |-> t[at[i]]]

joinPolicyParts(parts, joins) ==
  parts[1] \o FlattenSeq([i \in DOMAIN joins |-> <<joins[i]>> \o parts[i+1]])

AllAnd(t) == \A i \in DOMAIN JoinsOf(t) : JoinsOf(t)[i] = "/\\"

\* rePolicyNumericClause: what ends in attribute, comparison, number.
IsNumeric(t) == /\ Len(t) >= 3 /\ t[Len(t)-2] \in NumericAttrs
                /\ t[Len(t)-1] \in Compares /\ IsNumber(Last(t))

-----------------------------------------------------------------------------
(***************************************************************************)
(* NormalizePolicySyntax.                                                  *)
(***************************************************************************)

\* The attribute of a comparison is written in lower case.
normalizePolicyAttrCase(t) ==
  [i \in DOMAIN t |-> IF t[i] \in NumericAttrs /\ i < Len(t)
                      THEN IF t[i+1] \in Compares THEN Lower[t[i]] ELSE t[i]
                      ELSE t[i]]

\* Faulty variant: parentheses come off one pair at a time.
FlattenPartOnce(part) ==
  IF isWrappedClause(part) THEN <<Inner(part)>> ELSE <<part>>

\* The parts that one part of a conjunction dissolves into: all parentheses
\* around it come off, and if a conjunction is left, around its parts too.
RECURSIVE FlattenPart(_)
FlattenPart(part) ==
  IF ~isWrappedClause(part) THEN <<part>>
  ELSE LET inner == Inner(part)
           sub   == Parts(inner)
       IN IF Len(sub) > 1 /\ AllAnd(inner)
          THEN FlattenSeq([i \in DOMAIN sub |-> FlattenPart(sub[i])])
          ELSE FlattenPart(inner)

\* Faulty variant: of the joins only the first is looked at.
RECURSIVE flattenByFirstJoin(_)
flattenByFirstJoin(t) ==
  LET parts == Parts(t)
      flat  == FlattenSeq([i \in DOMAIN parts |-> FlattenPart(parts[i])])
  IN IF isWrappedClause(t) THEN Parens(flattenByFirstJoin(Inner(t)))
     ELSE IF Len(parts) = 1 THEN t
     ELSE IF JoinsOf(t)[1] = "/\\"
     THEN joinPolicyParts(flat, [i \in 1..(Len(flat)-1) |-> "/\\"])
     ELSE joinPolicyParts(
            [i \in DOMAIN parts |-> flattenByFirstJoin(parts[i])], JoinsOf(t))

RECURSIVE flattenNestedAndGroups(_)
flattenNestedAndGroups(t) ==
  LET parts == Parts(t)
      flat  == FlattenSeq([i \in DOMAIN parts |-> FlattenPart(parts[i])])
  IN IF isWrappedClause(t) THEN Parens(flattenNestedAndGroups(Inner(t)))
     ELSE IF Len(parts) = 1 THEN t
     ELSE IF AllAnd(t)
     THEN joinPolicyParts(flat, [i \in 1..(Len(flat)-1) |-> "/\\"])
     ELSE joinPolicyParts(
            [i \in DOMAIN parts |-> flattenNestedAndGroups(parts[i])], JoinsOf(t))

\* A comparison that is joined with something gets parentheses of its own.
RECURSIVE normalizeNumericPrecedence(_)
normalizeNumericPrecedence(t) ==
  LET parts == Parts(t)
      next(i) == LET p == normalizeNumericPrecedence(parts[i])
                 IN IF IsNumeric(p) THEN Parens(p) ELSE p
  IN IF isWrappedClause(t) THEN Parens(normalizeNumericPrecedence(Inner(t)))
     ELSE IF Len(parts) = 1 THEN t
     ELSE joinPolicyParts([i \in DOMAIN parts |-> next(i)], JoinsOf(t))

NormalizePolicySyntax(t) ==
  normalizeNumericPrecedence(flattenNestedAndGroups(normalizePolicyAttrCase(t)))

-----------------------------------------------------------------------------
(***************************************************************************)
(* ValidateUIPolicy.                                                       *)
(***************************************************************************)

\* splitPolicyParts: a text that does not start with a parenthesis is one
\* part; of one that does, only the first group counts.
RECURSIVE ClauseParts(_)
ClauseParts(t) ==
  IF t = <<>> THEN <<>> ELSE IF Head(t) # "(" THEN <<t>>
  ELSE LET close == CHOOSE i \in 1..Len(t) :
                      Depth(t, i) = 0 /\ \A j \in 1..(i-1) : Depth(t, j) > 0
           parts == Parts(SubSeq(t, 2, close - 1))
       IN FlattenSeq([i \in DOMAIN parts |-> ClauseParts(parts[i])])

\* The comparisons parsePolicyClauses finds.
Comparisons(t) ==
  LET parts == ClauseParts(t) IN
    {[at |-> i, attr |-> p[Len(p)-2], op |-> p[Len(p)-1], value |-> Atoi(Last(p))] :
       <<i, p>> \in {<<j, parts[j]>> : j \in {k \in DOMAIN parts : IsNumeric(parts[k])}}}

ValidateNumericCompare(c) ==
  /\ c.value <= MaxValue[c.attr]
  /\ c.op \in {">=", "<"} => c.value >= 1

ValidateUIPolicy(t) ==
  LET cs == Comparisons(NormalizePolicySyntax(t)) IN
    /\ \A c \in cs : ValidateNumericCompare(c)
    /\ Cardinality(cs) <= 1
    /\ Encryptable(NormalizePolicySyntax(t))

-----------------------------------------------------------------------------
Init ==
  /\ text \in Texts
  /\ stage = "typed"
  /\ stored = <<>>
  /\ tree = Leaf(<<>>)
  /\ rebuilt = Leaf(<<>>)

\* putEncrypted.
Submit ==
  /\ stage = "typed"
  /\ stored' = NormalizePolicySyntax(text)
  /\ stage' = IF ValidateUIPolicy(stored') THEN "valid" ELSE "refused"
  /\ UNCHANGED <<text, tree, rebuilt>>

\* Engine.Encrypt; what it normalizes becomes the ciphertext's policy.
Encrypt ==
  /\ stage = "valid"
  /\ stored' = NormalizePolicySyntax(stored)
  /\ IF Encryptable(stored') THEN stage' = "encrypted" /\ tree' = AccessPolicy(stored')
                             ELSE stage' = "refused" /\ UNCHANGED tree
  /\ UNCHANGED <<text, rebuilt>>

\* Decrypt of the file service and of the engine.
Decrypt ==
  /\ stage = "encrypted"
  /\ stage' = "decrypted"
  /\ rebuilt' = AccessPolicy(NormalizePolicySyntax(NormalizePolicySyntax(stored)))
  /\ UNCHANGED <<text, stored, tree>>

Next == Submit \/ Encrypt \/ Decrypt

Spec == Init /\ [][Next]_vars
-----------------------------------------------------------------------------
(***************************************************************************)
(* What a reader of a policy takes it to mean: comparisons first, joins    *)
(* from left to right, parentheses as written.                             *)
(***************************************************************************)
Users == [has : SUBSET BoolAttrs, number : [{Lower[a] : a \in NumericAttrs} -> Values]]

RECURSIVE Reads(_, _)
Reads(t, u) ==
  LET parts == Parts(t)
      upTo[i \in DOMAIN parts] ==
        IF i = 1 THEN Reads(parts[1], u)
        ELSE IF JoinsOf(t)[i-1] = "/\\" THEN upTo[i-1] /\ Reads(parts[i], u)
                                       ELSE upTo[i-1] \/ Reads(parts[i], u)
  IN IF isWrappedClause(t) THEN Reads(Inner(t), u)
     ELSE IF Len(parts) > 1 THEN upTo[Len(parts)]
     ELSE IF Len(t) = 1 THEN t[1] \in u.has
     ELSE NumericCompareSatisfied(u.number[Lower[t[1]]], t[2], Atoi(t[3]))

\* The attribute keys of a user who has asked for all of his.
Keys(u) == {<<a>> : a \in u.has}
             \cup UNION {BagOfBits(a, u.number[a]) : a \in DOMAIN u.number}

Encrypted == stage \in {"encrypted", "decrypted"}

\* No conjunction has a disjunction among its operands.
RECURSIVE NoOrUnderAnd(_)
NoOrUnderAnd(t) ==
  LET parts == Parts(t) IN
    IF isWrappedClause(t) THEN NoOrUnderAnd(Inner(t))
    ELSE IF Len(parts) > 1 /\ AllAnd(t) THEN ~Contains(t, "\\/")
    ELSE Len(parts) > 1 => \A i \in DOMAIN parts : NoOrUnderAnd(parts[i])

-----------------------------------------------------------------------------
(***************************************************************************)
(* Properties.                                                             *)
(***************************************************************************)

\* The rows of a ciphertext open for exactly the users whose attributes and
\* numbers satisfy the stored policy as a reader takes it, although the parser
\* lets joins bind tighter than comparisons and knows numbers only as bits.
AccessAsStored ==
  Encrypted => \A u \in Users : Opens(tree, Keys(u)) = Reads(stored, u)

\* A decryption computes its coefficients for the rows the ciphertext was made
\* with, although it rebuilds them from a text that has since been normalized
\* twice more.
RowsRebuilt == stage = "decrypted" => rebuilt = tree

\* Of policies in which no conjunction contains a disjunction, what is
\* encrypted means what was typed.
AccessAsTyped ==
  Encrypted /\ NoOrUnderAnd(text)
    => \A u \in Users : Opens(tree, Keys(u)) = Reads(text, u)

\* Normalization repairs the syntax of a policy and leaves its meaning
\* ("修正 UI/旧数据里不符合 ABE 语法的片段", abe/policy.go:85).
NormalizationKeepsMeaning ==
  stage # "typed" => \A u \in Users : Reads(stored, u) = Reads(text, u)

\* A policy that was accepted has at most one comparison, and its number is in
\* range ("策略只能包含一条数值比较", abe/policy.go:421).
ComparisonsValidated ==
  Encrypted =>
    LET at == {i \in 1..Len(text) : text[i] \in Compares} IN
      /\ Cardinality(at) <= 1
      /\ \A i \in at : Atoi(text[i+1]) <= MaxValue[text[i-1]]
=============================================================================
