CONSTANTS
    a = a
    b = b
    v1 = v1
    v2 = v2
    v3 = v3
    v4 = v4
    NoVM = NoVM
    Nobody = Nobody
    Sets <- MCOneSet
    PoolSize <- MCCold
    Limit = 2
    VMs <- MCThree
    Faults = 0
    Drains = TRUE
    Stops = FALSE

SPECIFICATION Spec

PROPERTIES
    DrainSparesRunners

CHECK_DEADLOCK FALSE
