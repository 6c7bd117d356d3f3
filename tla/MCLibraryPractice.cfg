SPECIFICATION LiveSpec
CONSTANTS
    Books = {b1}
    Articles = {}
    Initial = {b1}
    HasReviews = TRUE
    Cards = {c1}
    MaxProgress = 0
    MaxTime = 1
    MaxFailures = 1
    MaxDeletes = 0
    MaxQueue = 1
    None = None
INVARIANTS
    TimerFollowsCounts
PROPERTIES
    CountsCatchUp
CHECK_DEADLOCK FALSE
