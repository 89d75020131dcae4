SPECIFICATION Spec
CONSTANTS
  Builds <- BuildsMC
  MaxProbes = 3
  MaxFails = 1

INVARIANT HeldWhole
INVARIANT FaultsAreKnown
PROPERTY ProbesEnd
CHECK_DEADLOCK FALSE
