--------------------------- MODULE MC_Orchestrator ---------------------------
(***************************************************************************)
(* The menu and the faults of each run are chosen in its configuration.    *)
(***************************************************************************)
EXTENDS Orchestrator
=============================================================================
