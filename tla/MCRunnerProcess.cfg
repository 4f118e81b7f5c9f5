CONSTANTS
    first = first
    second = second
    moved = moved
    both = both
    doctor = doctor
    deleter = deleter
    s1 = s1
    s2 = s2
    here = here
    elsewhere = elsewhere
    Nobody = Nobody
    Contenders <- MCContenders
    Runners <- MCRunners
    Deleters = {deleter}
    Doctors = {doctor}
    Sets <- MCSets
    SetsOf <- MCSetsOf
    PlaceOf <- MCPlaceOf
    DoctorPlaces = {here}
    DrainTimeout = TRUE
    MaxJobs = 1
    MaxSignals = 3
    Faults = 1
    Crashes = 1

SPECIFICATION MCSpec

INVARIANTS
    OneHolder
    NoOrphanBesideRunner

PROPERTIES
    LiveRunnerSpared
    DrainSparesJobs
