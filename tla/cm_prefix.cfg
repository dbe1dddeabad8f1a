SPECIFICATION SerialSpec
CONSTANTS
    app = app
    driver = driver
    Component = {app, driver}
    App = {app}
    Driver = {driver}
    NeedsStore = {}
    Whitelisted = {}
    Builtin = {}
    Longer <- AppIsPrefix
    Kind = {"key"}
    Worker = {w1, w2}
    Faults = {}
    MaxInstalls = 1
    MaxCrashes = 0
PROPERTY
    UninstallRemovesNamed
