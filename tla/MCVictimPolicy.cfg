SPECIFICATION Spec
CONSTANTS
    n = 3
    rrpvMax = 2
    WayStates <- MCWayStates
    Variants <- MCVariants
INVARIANTS
    VictimIsHardwares
    AgingIsHardwares
PROPERTY
    Returns
CHECK_DEADLOCK FALSE
