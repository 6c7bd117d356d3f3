SPECIFICATION Spec
CONSTANTS
    MaxPos = 1
    MaxReports = 3
    MaxLoads = 2
    MaxFailures = 1
    None = None
INVARIANTS
    PositionKept
PROPERTIES
    LoadsNeverStale
    IsWriteBehind
    EverythingSettles
