CONSTANTS
    Calls = {c1, c2}
    Devices = {d1}
    Ssids = {s1}
    Reasons = {"USER_DISCONNECTED", "NO_SECRETS"}
    Autos = {}
    Stored = {p1}
    None = None
    Kinds = {"connect", "stored", "disconnect", "remove", "list"}
SPECIFICATION FairSpec
CHECK_DEADLOCK FALSE
PROPERTIES
    CallsReturn
