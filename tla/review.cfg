SPECIFICATION Spec
CONSTANTS
    Points = {p1, p2}
    Calls = {c1, c2, c3}
    Verdicts = {"Resolved", "Sent", "Rejected", "Viewed", "Verified"}
    None = None
SYMMETRY PointCallSymmetry
CONSTRAINT MarkedOrListed
INVARIANTS
    StatusFitsThePoints
    RevisionIsAnswerable
    AcceptedIsApproved
    FlagsFitTheStatus
