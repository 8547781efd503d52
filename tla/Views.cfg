SPECIFICATION Spec
CONSTANTS
    general = general
    work = work
    dm = dm
    helper = helper
    none = none
    None = 0
    Shapes <- MCShapes
    MaxRetries = 2
INVARIANTS TraceIsWatchedAndWhole
PROPERTIES CatchesUp ListSettles EndIsShown
CHECK_DEADLOCK FALSE
