------------------------------- MODULE MCMlme -------------------------------
(* Values of the constants of Mlme for TLC. *)
EXTENDS Mlme

NamedFirst == {<<>>, <<"a", Wildcard>>, <<"a", "b">>}
=============================================================================
