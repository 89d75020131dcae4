----------------------------- MODULE MCFmacDev -----------------------------
(* Both builds, three probes, one step that fails. *)
EXTENDS FmacDev

BuildsMC == {"regular", "radio_test"}
=============================================================================
