----------------------------- MODULE MCAgentLoop -----------------------------
(* AgentLoop with the fault sets of the runs.                              *)
EXTENDS AgentLoop

Unwinding == {"interrupt", "raise", "final"}
OnlyFinal == {"final"}
==============================================================================
