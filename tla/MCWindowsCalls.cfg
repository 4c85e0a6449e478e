CONSTANTS
    Calls = {c1, c2}
    Ifaces = {i1}
    Ssids = {s1}
    Names = {n1}
    ProfileName <- OneName
    Reasons = {"SUCCESS", "USER_CANCELLED"}
    MaxScans = 2
    MaxReports = 1
    MaxPending = 1
    None = None
    Kinds = {"connect", "stored", "disconnect", "remove", "list", "list_cached"}
    OsMayFail = TRUE
SPECIFICATION Spec
SYMMETRY Symmetry
CHECK_DEADLOCK FALSE
PROPERTY CallsAreSerialized
INVARIANTS
    TypeOK
    
    WaiterIsReachable
    RegistryIsOwned
    OnlyCancelledCallsDetach
    AttemptHasWaiter
    ResultMatchesOutcome
