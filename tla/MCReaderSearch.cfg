SPECIFICATION SearchLiveSpec
CONSTANTS
    Queries = {q1, q2}
    Batches = 2
    Spots = {s1}
    HistoryLimit = 2
    MaxSearchInputs = 4
    Unset = Unset
INVARIANTS
    SearchTruthful
PROPERTIES
    MarksActive
    SearchEnds
CHECK_DEADLOCK FALSE
