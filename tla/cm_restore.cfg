SPECIFICATION SerialFairSpec
CONSTANTS
    app = app
    driver = driver
    Component = {app, driver}
    App = {app}
    Driver = {driver}
    NeedsStore = {app}
    Whitelisted = {driver}
    Builtin = {driver}
    Longer <- Unrelated
    Kind = {"pem", "key"}
    Worker = {w1, w2}
    Faults = {}
    MaxInstalls = 1
    MaxCrashes = 1
INVARIANTS
    StartedWithDNS
    OnlyRunningConnected
    AllOrNothing
PROPERTY
    ImplementsRegistry
    SavedComesBack
