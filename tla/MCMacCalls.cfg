CONSTANTS
    Calls = {c1, c2}
    Ssids = {s1, s2}
    Timeouts = {0, 6}
    PreflightCap = 5
    POLL_INTERVAL = 2
    MaxElapsed = 7
    Threads = {1, 2}
    None = None
SPECIFICATION Spec
SYMMETRY Symmetry
CHECK_DEADLOCK FALSE
INVARIANTS
    TypeOK
    ClientIsExclusive
    TimeoutCoversPreflight
PROPERTIES
    PausesFitBudget
    OnlyOrphansInterfere
    DisconnectIsTargeted
    CallsAreSerialized
