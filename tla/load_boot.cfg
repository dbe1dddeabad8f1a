SPECIFICATION FairSpec
CONSTANTS
    Component = {c1, c2}
    Faults = {"start", "remove", "secret"}
    MaxMishaps = 3
INVARIANTS
    TypeOK
    BootIsConsistent
    NothingOldRuns
PROPERTY
    BootEnds
CHECK_DEADLOCK FALSE
