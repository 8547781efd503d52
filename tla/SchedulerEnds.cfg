SPECIFICATION FairSpec
CONSTANTS
    Agents = {a1}
    Channels = {c1, c2}
    Clicks = {k1, k2}
    Ops <- AllOps
    MaxRuns = 2
    MaxPosts = 2
    TraceBudget = 1
    Faults <- AllFaults
    MayRestart = TRUE
PROPERTIES EveryRunEnds EveryClickAnswered
