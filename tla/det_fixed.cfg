SPECIFICATION Spec
CONSTANTS
    detector = detector
    Service = {app}
    Restarter = {}
    WaitLimit = 1
    PostFails = FALSE
    StreamBreaks = FALSE
    MaxContainers = 3
    MaxCrashes = 1
INVARIANT
    CrashIsFixed
CHECK_DEADLOCK FALSE
