CONSTANTS
    Calls = {c1, c2}
    Ssids = {s1, s2, raw}
    Raw = {raw}
    Before = Before
    None = None
SPECIFICATION FairSpec
CHECK_DEADLOCK FALSE
INVARIANTS
    TypeOK
PROPERTIES
    FalseRemovesNothing
    RemovalIsAnswered
    NobodyTramples
    CallsReturn
    CallsAreSerialized
