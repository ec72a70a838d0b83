-------------------------- MODULE MCAgentExecution --------------------------
(* TLC instances of AgentExecution. *)
EXTENDS AgentExecution, TLC

CONSTANTS tg, tu, r1, r2, r3, p1, p2

Interchangeable == Permutations(Slots) \cup Permutations(Approvers)
=============================================================================
