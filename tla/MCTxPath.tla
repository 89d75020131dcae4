------------------------------ MODULE MCTxPath ------------------------------
(* Values of the constants of TxPath for TLC. *)
EXTENDS TxPath

CONSTANTS f1, f2, f3, f4, f5, s1, s2, m1, m2

(* f1 and f2 aggregate, f3 has other addresses. *)
OddFlow == [f \in Frames |-> IF f = f3 THEN m2 ELSE m1]
Small == [f \in Frames |-> 1]
Big == [f \in Frames |-> IF f = f1 THEN 3 ELSE 1]

(* Two stations; or two frames for one and one for the group. *)
TwoStations == [f \in Frames |-> IF f = f3 THEN s2 ELSE s1]
SomeGroup == [f \in Frames |-> IF f = f3 THEN Group ELSE s1]

OneAc == {BE}
TwoAcs == {BK, VO}
=============================================================================
