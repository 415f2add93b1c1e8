SPECIFICATION Spec
CONSTANTS
    v1 = v1
    v2 = v2
    n = 6
    ne = 4
    LineVertices <- MCLine
    EPOCHS = 8
    rrpvMax = 2
    MaxPosition = 12
SYMMETRY Symmetry
INVARIANTS
    TypeOK
    NeverTooFar
    NeverTooNear
    HardwareOrder
    AdmissionKeepsOrder
PROPERTY
    FirstIsNearest
CHECK_DEADLOCK FALSE
