SPECIFICATION Spec
CONSTANTS
    DUEL_ARM_COUNT = 3
    Threads = {c0}
    Sets <- MCSets
    kWindowMisses = 4
    MaxMisses = 12
    COUNTER_VALUES = 8
    SAMPLE_VALUES = 4
PROPERTIES
    ImplementsSelector
