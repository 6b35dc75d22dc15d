--------------------------- MODULE MCAgentEvents ----------------------------
EXTENDS AgentEvents, TLC

\* Streams are interchangeable, and so are executions.
Symmetry == Permutations(Streams) \cup Permutations(Execs)
=============================================================================
