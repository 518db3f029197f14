---------------------------- MODULE MCAgentClient ----------------------------
(* Two turns, a drive more, and a page whose run id outlives it. *)
EXTENDS AgentClient, TLC
=============================================================================
