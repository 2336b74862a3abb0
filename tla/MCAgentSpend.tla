---------------------------- MODULE MCAgentSpend ----------------------------
(* Small instances of AgentSpend for TLC. *)
EXTENDS AgentSpend
=============================================================================
