--------------------------- MODULE MCChannelSync ---------------------------
EXTENDS ChannelSync, TLC
CONSTANTS a1, a2
MCAgents == {a1, a2}
AgentSymmetry == Permutations(MCAgents)
NoCards == {}
AllCards == {"spawn", "approval"}
OneCard == {"spawn"}
=============================================================================
