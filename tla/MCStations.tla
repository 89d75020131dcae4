----------------------------- MODULE MCStations -----------------------------
(* Values of the constants of Stations for TLC. *)
EXTENDS Stations, TLC

Indices == {0, 1, 4}
StaSymmetry == Permutations(Sta)
=============================================================================
