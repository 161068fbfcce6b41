SPECIFICATION Spec
CONSTANTS
    Holds = {h1}
    Seats = {}
    Tiers = {t1}
    Requests <- GARequests
    Paintings <- FullPaintings
    Allocations = {2}
    MaxPerOrder = 0
    Releases = {r1}
    FaultKinds = {}
    MaxFaults = 0
    MaxEdits = 0
    None = None
INVARIANT EndedHoldsGiveBack
CHECK_DEADLOCK FALSE
