SPECIFICATION Spec
CONSTANTS
    Requests = {r1, r2, r3}
    Pairs = {enRu, enDe}
    NoTranslator = NoTranslator
INVARIANTS
    NoUseAfterClose
    NoLeak
    TimerIffIdle
PROPERTIES
    EventuallyClosed
