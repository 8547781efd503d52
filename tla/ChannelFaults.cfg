SPECIFICATION FairSpec
CONSTANTS
    a1 = a1  a2 = a2
    Agents = {a1}
    Slots = {slot, other}
    User = User  System = System
    Channel = Channel  Nobody = Nobody  NoKey = NoKey
    Cards <- OneCard
    ConflictLimit = 1
    PromptWindow = 1
    ReadLimit = 1
    MayRestart = TRUE
    DiskMayFail = TRUE
    MaxSeq = 3
INVARIANTS FaultsLeaveNoTrace
PROPERTIES PostsAnswered
