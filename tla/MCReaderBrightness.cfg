SPECIFICATION LiveSpec
CONSTANTS
    MaxLevel = 2
    DeviceLevels = {1,2}
    MaxInputs = 4
    None = None
INVARIANTS
    LastChoiceWins
PROPERTIES
    BaselineTruthful
    RestoredEventually
CHECK_DEADLOCK FALSE
