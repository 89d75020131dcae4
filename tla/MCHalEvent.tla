---------------------------- MODULE MCHalEvent ----------------------------
(* Values of the constants of HalEvent for TLC. *)
EXTENDS HalEvent

CONSTANTS b1, b2, o1
=============================================================================
