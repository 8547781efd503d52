SPECIFICATION Spec
CONSTANTS
    Agents = {a1}
    Channels = {c1}
    Clicks <- NoClicks
    Ops <- NoOps
    MaxRuns = 3
    MaxPosts = 3
    TraceBudget = 2
    Faults = {}
    MayRestart = FALSE
PROPERTIES DeferredIsStarted
CHECK_DEADLOCK FALSE
