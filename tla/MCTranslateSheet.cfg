SPECIFICATION LiveSpec
CONSTANTS
    en = en
    de = de
    Langs = {en, de}
    Automatic = Automatic
    Hint = en
    Supported <- OnePair
    Answers <- EnglishAnswer
    MaxEntries = 1
    MaxSaves = 1
    MaxWaiting = 2
    None = None
INVARIANTS
    SheetTruthful
    SaveStatusTruthful
PROPERTIES
    CancelledNeverCached
    SpinnerEnds
CHECK_DEADLOCK FALSE
