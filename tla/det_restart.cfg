SPECIFICATION FairSpec
CONSTANTS
    detector = detector
    Service = {app}
    Restarter = {r1}
    WaitLimit = 1
    PostFails = TRUE
    StreamBreaks = TRUE
    MaxContainers = 4
    MaxCrashes = 1
INVARIANTS
    TypeOK
    OnlyCrashesRestart
    RegistrationCurrent
    CrashAnswered
PROPERTIES
    RegistrationForward
    DetectorReturns
CHECK_DEADLOCK FALSE
