CONSTANTS
    Calls = {c1, c2}
    Ifaces = {i1}
    Ssids = {s1}
    Names = {n1}
    ProfileName <- OneName
    Reasons = {"SUCCESS", "USER_CANCELLED"}
    MaxScans = 1
    MaxReports = 1
    MaxPending = 2
    None = None
    Kinds = {"connect", "stored", "disconnect", "remove", "list", "list_cached"}
    OsMayFail = FALSE
SPECIFICATION FairSpec
CHECK_DEADLOCK FALSE
PROPERTIES
    CallsReturn
