SPECIFICATION Spec
CONSTANTS
    Payouts = {p1, p2, p3}
    Calls = {c1, c2}
    Items = {i1}
    Accounts = {a1, a2}
    Kinds = {"request", "settle", "check", "approve", "verify", "edit", "profile"}
    MaxSales = 2
    None = None
SYMMETRY CallSymmetry
CONSTRAINT MoneyOrReview
INVARIANTS
    SettledOnce
    PendingFitsUnlessCrowded
    ApprovalRecordsTheChecklist
    VerifiedWasShownUnlessSlipped
PROPERTIES
    ChecklistFreezes
