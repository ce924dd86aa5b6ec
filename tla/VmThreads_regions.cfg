CONSTANTS
    Cpus = {c1}
    MaxResets = 0
SPECIFICATION Spec
CHECK_DEADLOCK FALSE
PROPERTY
    RegionsKept
