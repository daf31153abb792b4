--------------------------- MODULE MC_FileService ---------------------------
(***************************************************************************)
(* A small file service for TLC: requests are interchangeable, and users.   *)
(***************************************************************************)
EXTENDS FileService, TLC

Symmetry == Permutations(Requests) \cup Permutations(Users)

OneUser ==
  \A q, r \in Requests :
    req[q].op # "none" /\ req[r].op # "none" => req[q].user = req[r].user

AtMostTwo == Cardinality({r \in Requests : Active(r)}) <= 2

\* Three requests overlap where they are one user's and nothing fails; two at a
\* time, and then a third, where a second user or a fault comes in.
Explored ==
  \/ OneUser /\ faults = 0
  \/ OneUser /\ AtMostTwo
  \/ faults = 0 /\ AtMostTwo
=============================================================================
