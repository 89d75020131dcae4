SPECIFICATION Spec

CONSTANTS
    Sta = {s1, s2}
    None = None
    MaxPeers = 2
    KeyIdx <- Indices
    MaxCalls = 6
    MaxQueue = 2
    MaxFails = 1

SYMMETRY StaSymmetry

INVARIANT OneEntryPerPeer
INVARIANT KeysInPlace
INVARIANT PeersMatch
CHECK_DEADLOCK FALSE
