----------------------------- MODULE MCSettings -----------------------------
(* The debug file "conf" in both builds, and the radio test's other calls.   *)
EXTENDS Settings, RadioTest

MaxCallsMC == [regular |-> 4, radio_test |-> 5, application |-> 3]

\* A channel of each kind that the checks tell apart, one that is none, and
\* one that is 36 in its low byte.
PrimariesMC == {1, 14, 15, 36, 38, 40, 292}

Init ==
  /\ build \in {"regular", "radio_test", "application"}
  /\ ConfInit /\ SettingsInit /\ RtInit

Next ==
  \/ build = "regular" /\ SettingsNext /\ UNCHANGED rtVars
  \/ build # "regular" /\ RtNext /\ UNCHANGED settingsVars

Spec == Init /\ [][Next]_<<confVars, settingsVars, rtVars>>
=============================================================================
