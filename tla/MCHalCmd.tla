----------------------------- MODULE MCHalCmd -----------------------------
(* Values of the constants of HalCmd for TLC. *)
EXTENDS HalCmd

CONSTANTS c1, c2, t1, r1, p1

OnePool == [d \in RxDesc |-> p1]
=============================================================================
