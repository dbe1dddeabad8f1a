SPECIFICATION Spec
CONSTANTS
    Component = {c1}
    Faults = {}
    MaxMishaps = 1
PROPERTY
    SparesItself
CHECK_DEADLOCK FALSE
