SPECIFICATION FairSpec

CONSTANTS
    b1 = b1
    b2 = b2
    o1 = o1
    EventBuf = {b1, b2}
    OwnBuf = {o1}
    MaxFrag = 2
    MaxEvents = 2
    MaxAllocFails = 1
    MaxLostIrqs = 1
    MaxWdog = 1
    NoAddr = NoAddr

INVARIANT BuffersKept
INVARIANT NoEventForgotten
INVARIANT EventsInOrder
PROPERTY EventsReachFmac
CHECK_DEADLOCK FALSE
