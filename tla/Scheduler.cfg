SPECIFICATION Spec
CONSTANTS
    Agents = {a1, a2}
    Channels = {c1}
    Clicks = {k1, k2}
    Ops <- AllOps
    MaxRuns = 2
    MaxPosts = 2
    TraceBudget = 1
    Faults = {}
    MayRestart = TRUE
INVARIANTS BookkeepingAgrees KilledIsCancelled StopWaitsForRun
PROPERTIES FeedbackKept StoppedStays
