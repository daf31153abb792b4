---------------------------- MODULE NumericBits ----------------------------
(***************************************************************************)
(* Numbers as CP-ABE knows them (pkg/mosaic/abe/policy.go): an attribute   *)
(* with a value is one key for each of its bits, and a comparison asks for *)
(* some of them.  A bit is <<attribute, position, 0 or 1>>.                *)
(***************************************************************************)
EXTENDS Integers

CONSTANT NBit      \* width of a number: 32 in the code

Values   == 0..(2^NBit - 1)
Compares == {"==", ">", ">=", "<", "<="}

Bit(v, i) == (v \div 2^i) % 2

\* getBagOfBitsAttrs: the keys that come with an attribute and its value.
BagOfBits(a, v) == {<<a, i, Bit(v, i)>> : i \in 0..(NBit-1)}

\* The length of the run of bits b that v ends with.
TrailingRun(v, b) ==
  IF \A i \in 0..(NBit-1) : Bit(v, i) = b THEN NBit
  ELSE CHOOSE n \in 0..(NBit-1) : /\ Bit(v, n) # b
                                  /\ \A i \in 0..(n-1) : Bit(v, i) = b

\* gt, gteq, lt, lteq ask for bits equal to Deciding(op), from the highest
\* down to the one at LowestBit(op, v); eq asks for all bits of v.
Deciding(op) == IF op \in {">", ">="} THEN 1 ELSE 0

LowestBit(op, v) == TrailingRun(v, IF op \in {">", "<="} THEN 1 ELSE 0)

ComparedBits(a, op, v) ==
  IF op = "==" THEN BagOfBits(a, v)
  ELSE {<<a, i, Deciding(op)>> : i \in LowestBit(op, v)..(NBit-1)}

\* NumericCompareSatisfied: what a comparison is meant to say.
NumericCompareSatisfied(u, op, v) ==
  CASE op = "==" -> u = v
    [] op = ">"  -> u > v
    [] op = ">=" -> u >= v
    [] op = "<"  -> u < v
    [] op = "<=" -> u <= v
=============================================================================
