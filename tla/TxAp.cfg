SPECIFICATION Spec

CONSTANTS
    Frames = {f1, f2, f3}
    f1 = f1
    f2 = f2
    f3 = f3
    f4 = f4
    f5 = f5
    s1 = s1
    s2 = s2
    m1 = m1
    m2 = m2
    Stations = {s1, s2}
    Group = Group
    None = None
    Vifs = {v1}
    PerAc = 1
    NumTokens = 6
    MaxPeers = 2
    MaxAggr = 2
    MaxQLen = 2
    AvailLen = 10
    UintMod = 16
    Dest <- SomeGroup
    Flow <- OddFlow
    Size <- Small
    Emergency = {}
    Legacy = {}
    TrafficAcs <- OneAc
    ApVif = TRUE
    ApMode = TRUE
    PeersLeave = FALSE
    HalMayFail = FALSE
    MaxPsTokens = 1
    MaxWakeup = 2

INVARIANT PendBmpAccurate
PROPERTY DozingHeld
