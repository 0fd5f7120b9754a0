--------------------------- MODULE MCAgentLifecycle ---------------------------
EXTENDS AgentLifecycle, TLC
CONSTANTS a1, a2, a3, i1, i2, o1
Alike == Permutations(Attempts)
=============================================================================
