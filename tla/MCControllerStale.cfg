CONSTANTS
    n1 = n1
    n2 = n2
    NoName = NoName
    Names <- MCNames
    MinRunners = 0
    MaxRunners = 1
    HostSlots = 2
    Watches = FALSE
    NeedsReadiness = FALSE
    MaxDemand = 2
    Faults = 1
    Stops = FALSE

SPECIFICATION MCWatchedSpec

SYMMETRY MCSymmetry

PROPERTIES
    ReplacesOnFreshDemand
