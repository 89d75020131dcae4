---------------------------- MODULE MCVifControl ----------------------------
(* Values of the constants of VifControl for TLC. *)
EXTENDS VifControl

TwoVifs == 0..1
=============================================================================
