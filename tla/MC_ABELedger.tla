---------------------------- MODULE MC_ABELedger ----------------------------
(***************************************************************************)
(* A small ledger for TLC: its transactions are interchangeable.           *)
(***************************************************************************)
EXTENDS ABELedger, TLC

Symmetry == Permutations(Tx)
=============================================================================
