---------------------------- MODULE MC_UserClient ----------------------------
(***************************************************************************)
(* Two registrations; those of one name are interchangeable.               *)
(***************************************************************************)
EXTENDS UserClient, TLC

Symmetry == Permutations(Requests) \cup Permutations(Users)
=============================================================================
