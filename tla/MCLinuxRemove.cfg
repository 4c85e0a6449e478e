CONSTANTS
    Calls = {c1, c2}
    Devices = {d1}
    Ssids = {s1, s2}
    Reasons = {"USER_DISCONNECTED", "NO_SECRETS"}
    Autos = {n1}
    Stored = {p1}
    None = None
    Kinds = {"connect", "stored", "disconnect", "remove", "list"}
SPECIFICATION Spec
CHECK_DEADLOCK FALSE
PROPERTIES
    RemovedMeansGone
