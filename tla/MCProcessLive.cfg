CONSTANTS
    first = first
    second = second
    moved = moved
    both = both
    doctor = doctor
    deleter = deleter
    s1 = s1
    s2 = s2
    here = here
    elsewhere = elsewhere
    Nobody = Nobody
    Contenders = {first, second}
    Runners = {first, second}
    Deleters = {}
    Doctors = {}
    Sets = {s1}
    SetsOf <- MCSetsOf
    PlaceOf <- MCPlaceOf
    DoctorPlaces = {here}
    DrainTimeout = TRUE
    MaxJobs = 1
    MaxSignals = 2
    Faults = 0
    Crashes = 1

SPECIFICATION FairSpec

PROPERTIES
    SignalledRunnerEnds
    WaitingJobsTaken
