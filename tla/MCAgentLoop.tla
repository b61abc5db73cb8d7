----------------------------- MODULE MCAgentLoop -----------------------------
(* Instances of AgentLoop for TLC: two tools, rounds that cost much or nothing. *)
EXTENDS AgentLoop

MCRoundTokens == {0, 3}
=============================================================================
