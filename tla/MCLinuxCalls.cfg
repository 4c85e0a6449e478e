CONSTANTS
    Calls = {c1, c2}
    Devices = {d1}
    Ssids = {s1, s2}
    Reasons = {"NO_SECRETS"}
    Autos = {n1}
    Stored = {p1}
    None = None
    Kinds = {"connect", "stored", "disconnect", "remove", "list"}
SPECIFICATION Spec
SYMMETRY Symmetry
CHECK_DEADLOCK FALSE
INVARIANTS
    TypeOK
    OkMeansOwnActivation
    NoOutcomeIsMissed
PROPERTIES
    FailureIsFinal
    RequestsAreTargeted
    CallsAreSerialized
