SPECIFICATION Spec
CONSTANTS
    DUEL_ARM_COUNT = 2
    Threads = {c0, c1, c2}
    Sets <- MCSets
    kWindowMisses = 2
    MaxMisses = 6
    COUNTER_VALUES = 4
    SAMPLE_VALUES = 2
INVARIANTS
    EachWindowReportedOnce
    TransitionChain
    NoMissLost
    NothingLeftBehind
PROPERTIES
    UpsetOnlyByOverlap
