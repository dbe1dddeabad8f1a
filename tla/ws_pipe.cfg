SPECIFICATION FairSpec
CONSTANTS
    Message = {m1, m2}
    MaxSent = 2
INVARIANTS
    TypeOK
    CloseIsComplete
PROPERTIES
    ImplementsPipe
    LeavingIsTold
    CopiersEnd
CHECK_DEADLOCK FALSE
