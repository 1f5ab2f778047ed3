--------------------------- MODULE MCAgentPresence ---------------------------
(* Two members of a tenant, served by one or two threads. *)
EXTENDS AgentPresence

CONSTANTS a1, a2, p1, p2, None
=============================================================================
