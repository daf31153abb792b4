----------------------------- MODULE MC_KeyRing -----------------------------
(***************************************************************************)
(* A small key ring for TLC.                                               *)
(***************************************************************************)
EXTENDS KeyRing, TLC

\* Labels in the order of the database, where only hours matter: by operator,
\* then by hour.
MCRank(label) ==
  IF ~IsComparison(label) THEN 0
  ELSE LET ops == <<"<", "<=", "==", ">", ">=">>
       IN 10 * (CHOOSE i \in 1..5 : ops[i] = label[2]) + label[3]

MCRegistered == << <<"a">>, <<"score", 2>> >>
MCScoreOnly  == << <<"score", 2>> >>
MCAsked      == {<<"score", 2>>, <<"score", "==", 2>>}
MCUnparsed   == {<<"score", "==", 2>>}
MCAutoAsked  == {<<"hour", "==", 1>>}
MCPolicies   == {<< <<"score", ">", 1>> >>, << <<"hour", "==", 2>>, <<"lochome">> >>}
MCLocations  == {"lochome"}

\* The registered number compared by ==.
MCEqualPolicies == {<< <<"score", "==", 2>> >>}
MCRacePolicies  == MCEqualPolicies \cup {<< <<"hour", ">=", 1>> >>}

\* A registered hour beside the one a policy names.
MCHourRegistered == << <<"hour", 1>> >>
MCHourPolicies   == {<< <<"hour", "==", 2>> >>}

\* A number other than the registered one.
MCOtherAsked == {<<"score", 2>>, <<"score", 3>>}

\* Failed queries are followed where only two requests are made.
FaultsOfTwo == faults > 0 => Cardinality({r \in Req : req[r].pc # "idle"}) <= 2

None == {}

\* At most two requests at a time: two that collide, then one that must cope.
AtMostTwo == Cardinality({r \in Req : Active(r)}) <= 2

Symmetry == Permutations(Req)
=============================================================================
