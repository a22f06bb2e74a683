------------------------- MODULE MC_ServiceLifecycle -------------------------
(***************************************************************************)
(* ServiceLifecycle for TLC.                                               *)
(***************************************************************************)
EXTENDS ServiceLifecycle, TLC

CONSTANTS t1

=============================================================================
