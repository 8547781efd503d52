---------------------------- MODULE MCAuthority ----------------------------
EXTENDS Authority, TLC

Tool == {"capability:request", "principal:request", "agent:spawn", "agent:close"}

MCChannelNames == {"channel:read", "channel:post", "channel:create"}
MCActions == Tool \cup {"*", "shell:exec"} \cup MCChannelNames
MCResources == {"*", "cmd:git", "cmd:sudo", "channel:*", "channel:general"}
MCChannelActions == {"channel:read", "channel:post"}
MCCovers == {<<"channel:*", "channel:general">>}

\* The worker preset, as far as these names go.
Worker ==
    [statements |-> {Allow(MCChannelActions, {"channel:*"}), Allow({"shell:exec"} \cup Tool, {"*"}),
                     Deny({"shell:exec"}, {"cmd:sudo"})},
     delegable |-> {"channel:read", "channel:post", "shell:exec"}]

\* A policy the human may author: one command, which may be delegated.
GitOnly ==
    [statements |-> {Allow(Tool, {"*"}), Allow({"shell:exec"}, {"cmd:git"})},
     delegable |-> {"shell:exec"}]

Workers == {Worker}
Authors == {GitOnly}

Sudo == [action |-> "shell:exec", resource |-> "cmd:sudo"]
MCCapabilities == {Sudo}

Shell == [actions |-> {"shell:exec"}, channels |-> {}]
General == [actions |-> {"shell:exec", "channel:read"}, channels |-> {"channel:general"}]
JustShell == {Shell}
ShellAndGeneral == {General}

\* One principal, alone or with a session it spawned before.
CONSTANTS p1, q1    \* agents
Alone == p1 :> NoAgent
Family == p1 :> NoAgent @@ q1 :> p1

Symmetry == Permutations(Spares) \cup Permutations(Approvals) \cup Permutations(Clicks)
=============================================================================
