---------------------------- MODULE MCAgentTurn ----------------------------
(* Final responses and responses of two tool calls, over two turns. *)
EXTENDS AgentTurn

MCSizes == {0, 2}
=============================================================================
