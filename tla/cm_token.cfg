SPECIFICATION SerialSpec
CONSTANTS
    app = app
    driver = driver
    Component = {app}
    App = {app}
    Driver = {}
    NeedsStore = {}
    Whitelisted = {}
    Builtin = {}
    Longer <- Unrelated
    Kind = {"key"}
    Worker = {w1, w2}
    Faults = {}
    MaxInstalls = 2
    MaxCrashes = 0
SYMMETRY Symmetry
INVARIANT
    TokenAgreement
