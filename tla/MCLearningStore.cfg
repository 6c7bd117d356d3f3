SPECIFICATION StoreSpec
CONSTANTS
    TextHighlights = {h1, h2}
    ImageAreas = {a1}
    Words = {w1}
    Sources = {s1, s2}
    Notes = {n1}
    MaxReps = 1
    None = None
INVARIANTS
    ReviewsAgree
    NoDanglingOwner
PROPERTIES
    AbsorbedNotesKept
SYMMETRY Symmetry
