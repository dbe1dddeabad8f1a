SPECIFICATION FairSpec
CONSTANTS
    Phone = {p1, p2}
    Overrides = {TRUE, FALSE}
    Clears = {TRUE, FALSE}
    Faults = {"loader", "arbiter", "export", "component", "store"}
    MaxMishaps = 3
    MaxPasswords = 3
INVARIANTS
    TypeOK
    CertsMatchRoot
    QRShowsPassword
    PairedStaysPaired
    SessionsKnowPassword
PROPERTY
    ServesOrTorn
CHECK_DEADLOCK FALSE
