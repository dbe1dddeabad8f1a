SPECIFICATION SerialSpec
CONSTANTS
    app = app
    driver = driver
    Component = {app, driver, other}
    App = {app}
    Driver = {driver}
    NeedsStore = {app}
    Whitelisted = {driver}
    Builtin = {}
    Longer <- Unrelated
    Kind = {"key"}
    Worker = {w1, w2}
    Faults = {"service", "secret", "network", "store"}
    MaxInstalls = 1
    MaxCrashes = 0
SYMMETRY Symmetry
INVARIANTS
    StoreTokenAgreement
    InstalledIsRunning
