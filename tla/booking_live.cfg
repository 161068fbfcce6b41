SPECIFICATION FairSpec
CONSTANTS
    Holds = {h1, h2}
    Seats = {s1, s2}
    Tiers = {t1, t2}
    Requests <- FewRequests
    Paintings <- OnePainting
    Allocations = {1, 2}
    MaxPerOrder = 2
    Releases = {r1}
    FaultKinds = {"call", "reply", "crash", "release", "restart"}
    MaxFaults = 1
    MaxEdits = 1
    None = None
PROPERTY EveryLockLapses
CHECK_DEADLOCK FALSE
