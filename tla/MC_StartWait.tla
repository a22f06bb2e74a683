---------------------------- MODULE MC_StartWait ----------------------------
(* Parked starts for TLC.                                                  *)
EXTENDS StartWait
=============================================================================
