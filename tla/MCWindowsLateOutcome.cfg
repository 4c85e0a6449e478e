CONSTANTS
    Calls = {c1, c2}
    Ifaces = {i1}
    Ssids = {s1, s2}
    Names = {n1}
    ProfileName <- OneName
    Reasons = {"SUCCESS", "USER_CANCELLED"}
    MaxScans = 1
    MaxReports = 1
    MaxPending = 2
    None = None
    Kinds = {"connect", "stored"}
    OsMayFail = FALSE
SPECIFICATION Spec
CHECK_DEADLOCK FALSE
INVARIANTS
    NoForeignOutcome
