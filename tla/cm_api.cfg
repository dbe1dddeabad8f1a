SPECIFICATION Spec
CONSTANTS
    app = app
    driver = driver
    Component = {app}
    App = {app}
    Driver = {}
    NeedsStore = {app}
    Whitelisted = {}
    Builtin = {}
    Longer <- Unrelated
    Kind = {"key"}
    Worker = {w1, w2}
    Faults = {"remove", "cleanup"}
    MaxInstalls = 1
    MaxCrashes = 1
SYMMETRY Symmetry
INVARIANTS
    TypeOK
    ReadyBeforeStart
    UninstallSticks
