CONSTANTS
    a = a
    b = b
    v1 = v1
    v2 = v2
    v3 = v3
    v4 = v4
    NoVM = NoVM
    Nobody = Nobody
    Sets <- MCOneSet
    PoolSize <- MCPoolOfOne
    Limit = 2
    VMs <- MCThree
    Faults = 1
    Drains = TRUE
    Stops = TRUE

SPECIFICATION FairSpec

PROPERTIES
    PoolProgress
