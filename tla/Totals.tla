------------------------------- MODULE Totals -------------------------------
(***************************************************************************)
(* Sums over finite sets, of which shares and the products of rows and     *)
(* coefficients are made.                                                  *)
(***************************************************************************)
EXTENDS Integers, FiniteSetsExt

Total(f, S) == MapThenSumSet(LAMBDA x : f[x], S)
=============================================================================
