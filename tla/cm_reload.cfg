SPECIFICATION FairSpec
CONSTANTS
    app = app
    driver = driver
    Component = {app, driver}
    App = {app}
    Driver = {driver}
    NeedsStore = {}
    Whitelisted = {}
    Builtin = {}
    Longer <- Unrelated
    Kind = {"key"}
    Worker = {w1, w2}
    Faults = {"image", "arbiter", "core"}
    MaxInstalls = 0
    MaxCrashes = 0
INVARIANT
    DriversFirst
PROPERTY
    BootCompletes
