SPECIFICATION FairSpec
CONSTANTS
    Seats = {s1}
    MaxHolds = 2
    MaxCalls = 2
    MaxPerOrder = 1
    MaxQty = 1
    MaxActs = 4
    MaxFaults = 1
    None = None
INVARIANTS
    ForgottenHoldHasACause
    ShownHoldIsHeld
    ButtonComesBack
PROPERTIES
    DeadTokenIsForgotten
CHECK_DEADLOCK FALSE
