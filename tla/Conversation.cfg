SPECIFICATION MCSpec
CONSTANTS
    a1 = a1
    a2 = a2
    a3 = a3
    general = general
    lounge = lounge
    dm = dm
    User = user
    System = system
    None = 0
    Agents = {a1, a2, a3}
    Channels = {general}
    Members <- MCMembers
    Dms = {}
    Mentions <- MCMentions
    Asking = {TRUE, FALSE}
    TurnTaking = TRUE
    ChatterBudget = 1
    TraceBudget = 5
    MaxConflicts = 1
    MaxPosts = 1
    MaxMessages = 4
    MaxTools = 0
    MayFail = FALSE
INVARIANTS ChainsWhole RoundCompletes
PROPERTIES TalkEnds
CHECK_DEADLOCK FALSE
