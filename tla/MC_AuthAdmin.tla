---------------------------- MODULE MC_AuthAdmin ----------------------------
(***************************************************************************)
(* Two organizations and a few requests for TLC, all interchangeable.      *)
(***************************************************************************)
EXTENDS AuthAdmin, TLC

Symmetry == Permutations(Requests) \cup Permutations(Orgs)

Begun == {r \in Requests : req[r].pc # "idle"}

\* What follows the disturbance of an organization, of which most properties
\* say nothing, is explored for three requests of one organization, at most
\* two at a time; transactions given up, late or lost do not count.
Explored ==
  disturbed # {} =>
    /\ Cardinality(Begun) <= 3
    /\ Cardinality({r \in Requests : Active(r)}) <= 2
    /\ \A q, r \in Begun : req[q].org = req[r].org
=============================================================================
