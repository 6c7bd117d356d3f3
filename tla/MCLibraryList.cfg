SPECIFICATION Spec
CONSTANTS
    Books = {b1}
    Articles = {a1}
    Initial = {b1}
    HasReviews = FALSE
    Cards = {}
    MaxProgress = 1
    MaxTime = 0
    MaxFailures = 1
    MaxDeletes = 1
    MaxQueue = 1
    None = None
INVARIANTS
    ListMatchesStorage
    DeletesReported
PROPERTIES
    NoRevival
CHECK_DEADLOCK FALSE
