------------------------------ MODULE MC_CpAbe ------------------------------
(***************************************************************************)
(* A policy that names an attribute twice, and one with an attribute of    *)
(* its own, in groups of order 5.                                          *)
(***************************************************************************)
EXTENDS CpAbe

MCAttrs    == {"a", "b", "c"}
MCHash     == [x \in MCAttrs |-> CASE x = "a" -> 1 [] x = "b" -> 2 [] x = "c" -> 4]
MCAlpha    == [x \in MCAttrs |-> IF x = "c" THEN 4 ELSE 3]
MCY        == [x \in MCAttrs |-> IF x = "c" THEN 2 ELSE 1]

\* "a \/ (b /\ a)" and "c"
MCPolicies == {"twice", "other"}
MCVars == [p \in MCPolicies |-> IF p = "twice" THEN <<"a", "b", "a">> ELSE <<"c">>]
MCM    == [p \in MCPolicies |->
             IF p = "twice" THEN << <<1, 0>>, <<1, 1>>, <<0, -1>> >> ELSE << <<1>> >>]
MCFactors == -1..1
=============================================================================
