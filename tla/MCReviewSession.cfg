SPECIFICATION Spec
CONSTANTS
    TextHighlights = {h1}
    ImageAreas = {}
    Words = {w1}
    Sources = {s1}
    Notes = {}
    MaxReps = 2
    None = None
    SessionLimit = 2
    AheadLimit = 2
    NewCardsPerDay = 1
    ReviewHighlights = TRUE
    MaxSessions = 1
    MaxGestures = 2
    MaxRetryRevision = 1
INVARIANTS
    OncePerPresentation
    PassIsAccounted
    PreviewMatchesStored
    DailyNewLimit
