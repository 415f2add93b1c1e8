SPECIFICATION RankSpec
CONSTANTS
    WAYS = 4
    MaxAccesses = 7
INVARIANTS
    RanksArePermutation
    RankIsAccessOrder
    SameVictim
PROPERTY
    OnlyAccessMakesNewer
