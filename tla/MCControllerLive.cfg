CONSTANTS
    n1 = n1
    n2 = n2
    NoName = NoName
    Names <- MCNames
    MinRunners = 1
    MaxRunners = 1
    HostSlots = 1
    Watches = FALSE
    NeedsReadiness = FALSE
    MaxDemand = 0
    Faults = 1
    Stops = TRUE

SPECIFICATION MCSpec

PROPERTIES
    WorkGetsDone
    DrainEnds
