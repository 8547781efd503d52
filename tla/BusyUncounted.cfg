SPECIFICATION Spec
CONSTANTS
    a1 = a1  a2 = a2
    Agents <- MCAgents
    Slots = {slot}
    User = User  System = System
    Channel = Channel  Nobody = Nobody  NoKey = NoKey
    Cards <- NoCards
    ConflictLimit = 1
    PromptWindow = 9
    ReadLimit = 9
    MayRestart = FALSE
    DiskMayFail = FALSE
    MaxSeq = 3
PROPERTIES ToolConflictsCounted
