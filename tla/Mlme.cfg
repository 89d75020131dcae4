SPECIFICATION FairSpec

CONSTANTS
    Bss = {b1, b2}
    None = None
    SsidLists <- NamedFirst
    MaxCalls = 3
    MaxFails = 1
    MaxLosses = 1

INVARIANT ScansAsAsked
INVARIANT CookiesMatch
INVARIANT ConnectedIsTrue
PROPERTY ScanEnds
CHECK_DEADLOCK FALSE
