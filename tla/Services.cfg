SPECIFICATION Spec
CONSTANTS
    ann = ann
    bob = bob
    Agents = {ann, bob}
    Founders = {ann}
    Policies = {{}, {"general", "ops"}}
    Inherited = {{}, {"general", "ops"}}
    Names = {"ops"}
    GeneralName = "general"
    DmName <- MCDmName
    MaxChannels = 4
    Calls = {1, 2, 3}
    CallOps = {"create_channel", "delete_channel", "create_agent", "update_agent", "delete_agent", "post", "human_post"}
    MaxStarts = 2
    Integrations = {i1}
    LoginAgents = {ann}
    Shared = shared
    Requests = {r1, r2}
    NoLogin = none
    LoginOps = {"login", "logout", "remove", "discover"}
    MayRestart = TRUE
    DiskMayFail = TRUE
    MaxRuns = 2
    Cancels = {1, 2}
    MaxStops = 1
    EngineMayFail = TRUE
    Paths = {"sum", "test"}
    Nodes = {n1, n2}
    Ids = {d1}
    Readers = {k1}
    MaxFiles = 2
    MaxTotal = 3
    MaxResponse = 2
    MaxSize = 3
    MaxChanges = 2
    NoFile = noFile
INVARIANTS RegistryConsistent LoginsConsistent ContainersAccounted ArtifactsConsistent
PROPERTIES  LoginsEnd TimeIsBounded
CHECK_DEADLOCK FALSE
