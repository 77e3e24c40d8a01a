---------------------------- MODULE MCAgentTurn ----------------------------
(* The instance of AgentTurn that TLC checks. *)
EXTENDS AgentTurn

const_MaxRounds == 3
const_MaxChunks == 2
const_MaxCalls == 2
=============================================================================
