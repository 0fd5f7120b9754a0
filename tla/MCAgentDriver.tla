--------------------------- MODULE MCAgentDriver ---------------------------
(* Instances of AgentDriver for TLC.  The messages are interchangeable:    *)
(* nothing orders them but the queues they are put in.                     *)
EXTENDS AgentDriver, TLC

MessageSymmetry == Permutations(Messages)
=============================================================================
