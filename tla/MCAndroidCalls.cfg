CONSTANTS
    Calls = {c1, c2}
    Others = {w1}
    None = None
    Kinds = {"connect", "stored", "disconnect", "remove", "list"}
    MaxFaults = 1
SPECIFICATION HSpec
SYMMETRY Symmetry
CHECK_DEADLOCK FALSE
INVARIANTS
    TypeOK
    RequestsHaveOwners
    BindingIsCleared
    ReceiversSpanScans
    AloneIsBound
PROPERTIES
    BindingIsStable
    CallsAreSerialized
