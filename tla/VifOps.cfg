SPECIFICATION Spec

CONSTANTS
    Vif <- TwoVifs
    Context = {x1, x2, x3}
    NULL = NULL
    MAX_NUM_STAS = 2
    MAX_NUM_APS = 1
    MaxCalls = 4
    MaxFails = 1
    MaxCarrier = 1

INVARIANT InterfacesHeld
INVARIANT AnswersMatch
INVARIANT TypesAgree
CHECK_DEADLOCK FALSE
