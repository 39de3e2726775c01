-------------------------- MODULE MCAgentLifecycle --------------------------
(* AgentLifecycle for TLC: requests, and entity ids, are interchangeable. *)
EXTENDS AgentLifecycle, TLC

Symmetry == Permutations(Requests) \cup Permutations(Entitys)
=============================================================================
