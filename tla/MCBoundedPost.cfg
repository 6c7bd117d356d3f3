SPECIFICATION LiveSpec
CONSTANTS
    MaxBytes = 3
    MaxChunk = 4
INVARIANTS
    SettledCleanly
    WholeBody
PROPERTIES
    Settles
CHECK_DEADLOCK FALSE
