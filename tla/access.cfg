SPECIFICATION AccessSpec
CONSTANTS
    Users = {a, o}
    Events = {e1, e2}
    Owners = {o}
    Founders = {a, o}
    Applicants = {a}
    Calls = {c1, c2}
    MaxWrites = 5
    NoUser = NoUser
    Unborn = Unborn
    Gone = Gone
SYMMETRY CallSymmetry
INVARIANTS
    AccessTypeOK
    SeparationUnlessRaced
    AdminRemains
CHECK_DEADLOCK FALSE
