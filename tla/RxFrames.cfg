SPECIFICATION FairSpec

CONSTANTS
    NumPools = 2
    NumBufs <- TwoPools
    MaxPkts = 2
    MaxFrames = 3
    MaxAllocFails = 1
    MaxUnknown = 1
    MayStop = TRUE

INVARIANT DescriptorsKept
INVARIANT BuffersOwned
INVARIANT FramesInOrder
INVARIANT CleanStop
PROPERTY FramesReachStack
CHECK_DEADLOCK FALSE
