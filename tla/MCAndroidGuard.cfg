CONSTANTS
    Calls = {c1, c2}
    Others = {}
    None = None
    Kinds = {"connect"}
    MaxFaults = 0
SPECIFICATION Spec
CHECK_DEADLOCK FALSE
PROPERTIES
    OkIsOwnNetwork
