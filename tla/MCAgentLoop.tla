---------------------------- MODULE MCAgentLoop -----------------------------
(* A small instance of AgentLoop. *)
EXTENDS AgentLoop
=============================================================================
