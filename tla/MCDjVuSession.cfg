SPECIFICATION LiveSpec
CONSTANTS
    Reads = {r1, r2, r3}
    None = None
INVARIANTS
    DocumentOwned
PROPERTIES
    Draining
    AllAnswered
CHECK_DEADLOCK FALSE
