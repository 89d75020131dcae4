SPECIFICATION Spec
CONSTANTS
  Writer = {w1}
  Reader = {r1}
  MaxCalls <- MaxCallsMC
  Primaries <- PrimariesMC
  QuietCost = 3
  MaxQuiet3 = 1
  MaxFails = 1

INVARIANT AnswersAreOwn
INVARIANT ShownIsTold
INVARIANT RadioTold
INVARIANT SuccessIsOwn
CHECK_DEADLOCK FALSE
