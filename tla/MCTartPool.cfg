CONSTANTS
    a = a
    b = b
    v1 = v1
    v2 = v2
    v3 = v3
    v4 = v4
    NoVM = NoVM
    Nobody = Nobody
    Sets <- MCTwoSets
    PoolSize <- MCPoolAndCold
    Limit = 2
    VMs <- MCFour
    Faults = 1
    Drains = TRUE
    Stops = TRUE

SPECIFICATION Spec

SYMMETRY MCSymmetry

INVARIANTS
    SlotsKept

PROPERTIES
    DrainSparesWarmRunners
