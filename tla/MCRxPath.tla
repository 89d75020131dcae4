------------------------------ MODULE MCRxPath ------------------------------
(* Values of the constants of RxPath for TLC. *)
EXTENDS RxPath

(* A pool of two buffers and one of a single buffer. *)
TwoPools == [p \in 0..1 |-> IF p = 0 THEN 2 ELSE 1]
=============================================================================
