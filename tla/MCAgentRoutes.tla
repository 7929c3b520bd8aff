--------------------------- MODULE MCAgentRoutes ---------------------------
(* Instances of AgentRoutes: an agent that creates another one.            *)
EXTENDS AgentRoutes
CONSTANTS a, b
=============================================================================
