SPECIFICATION Spec
CONSTANTS
    t1 = t1
    t2 = t2
    t3 = t3
    b1 = b1
    b2 = b2
    Families = {f1, f2}
    Tabs = {t1, t2, t3}
    Browsers = {b1, b2}
    JarOf <- ThreeTabs
    Requests = {"login", "refresh", "logout", "logoutAll"}
    MaxGen = 2
    MaxLost = 1
    None = None
SYMMETRY SessionTabSymmetry
INVARIANTS
    CookieIsCurrent
    AlarmHasACause
    SessionsAreIndexed
PROPERTIES
    TokensWinOnce
    EndedSessionsStayEnded
CHECK_DEADLOCK FALSE
