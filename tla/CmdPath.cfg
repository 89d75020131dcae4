SPECIFICATION FairSpec

CONSTANTS
    c1 = c1
    c2 = c2
    t1 = t1
    r1 = r1
    p1 = p1
    Caller = {c1, c2}
    CmdBuf = {b1}
    TxDesc = {t1}
    RxDesc = {r1}
    Pool = {p1}
    PoolOf <- OnePool
    MaxFrag = 2
    NoCaller = NoCaller
    NoAddr = NoAddr
    MaxCmds = 3
    MaxTimeouts = 1
    MaxAllocFails = 1

INVARIANT BuffersAccounted
INVARIANT DoorbellCovers
INVARIANT QueueIsOfThisCall
INVARIANT FragmentsInOrder
PROPERTY CommandsReachRpu
CHECK_DEADLOCK FALSE
