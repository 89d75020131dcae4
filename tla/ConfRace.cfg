SPECIFICATION Spec
CONSTANTS
  Writer = {w1, w2}
  Reader = {r1}
  MaxCalls <- MaxCallsMC
  Primaries <- PrimariesMC
  QuietCost = 3
  MaxQuiet3 = 1
  MaxFails = 0
CHECK_DEADLOCK FALSE
INVARIANT RateOrMcs
