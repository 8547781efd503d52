SPECIFICATION Spec
CONSTANTS
    Actions <- MCActions
    Resources <- MCResources
    ChannelActions <- MCChannelActions
    ChannelNames <- MCChannelNames
    Star = "*"
    Covers <- MCCovers
    p1 = p1  q1 = q1
    Founders = {p1, q1}
    Lineage <- Family
    Spares = {s1}
    NoAgent = NoAgent
    Approvals = {i1}
    Clicks = {k1, k2}
    Authored <- Workers
    Capabilities <- MCCapabilities
    Delegations <- ShellAndGeneral
    MaxDepth = 2
    MaxRuns = 2
    MayRestart = TRUE
SYMMETRY Symmetry
INVARIANTS PrincipalOnce
PROPERTIES GrantServesOneRun ForeverTakesEffect SpawnDelegates ChildrenCloseFirst
