SPECIFICATION Spec
CONSTANTS
    Holds = {h1, h2, h3}
    Seats = {s1, s2}
    Tiers = {t1, t2}
    Requests <- MixedRequests
    Paintings <- OnePainting
    Allocations = {2}
    MaxPerOrder = 0
    Releases = {r1}
    FaultKinds = {"call", "reply", "crash", "release"}
    MaxFaults = 2
    MaxEdits = 0
    None = None
SYMMETRY HoldSeatSymmetry
INVARIANTS
    LockInv
    AllOrNothing
    NoOversell
PROPERTIES
    OnlyTheOwnerUnlocks
    ImplementsAtomicHolds
CHECK_DEADLOCK FALSE
