SPECIFICATION Spec
CONSTANTS
    Tickets = {k1, k2}
    Scans = {s1, s2, s3}
    Devices = {d1}
    Entrances = {"app", "console"}
    FaultKinds = {"call", "crash", "reply"}
    MaxFaults = 2
    None = None
SYMMETRY ScanSymmetry
INVARIANTS
    UsedIsRecorded
    AdmissionsAreRecorded
    AdmitsOnceUnlessRaced
CHECK_DEADLOCK FALSE
