SPECIFICATION Spec
CONSTANTS
    la = la
    lb = lb
    Layouts = {la, lb}
    Given <- OneGiven
    Calls = {c1, c2}
    Looks = {x, y}
    MaxPast = 2
    MaxRows = 3
    MaxSeats = 1
    MaxActs = 5
    None = None
SYMMETRY CallSymmetry
INVARIANTS
    TypeOK
    OneRowPerSeat
    SavableWhenCurrent
PROPERTIES
    NoLostUpdate
    RowsKeepIdentity
    UndoRestoresTheGesture
CHECK_DEADLOCK FALSE
