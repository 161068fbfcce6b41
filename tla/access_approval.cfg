SPECIFICATION AccessSpec
CONSTANTS
    Users = {a, o}
    Events = {e1}
    Owners = {o}
    Founders = {o}
    Applicants = {a}
    Calls = {c1}
    MaxWrites = 5
    NoUser = NoUser
    Unborn = Unborn
    Gone = Gone
INVARIANT SeparationOfDuties
CHECK_DEADLOCK FALSE
