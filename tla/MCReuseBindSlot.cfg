SPECIFICATION SlotSpec
CONSTANTS
    Requestors = {0, 1}
    Contexts = {0, 1, 2}
    Sequences = {0, 1, 2}
    Data = {0, 1}
    MaxMerged = 3
INVARIANTS
    BoundSound
    BoundComplete
