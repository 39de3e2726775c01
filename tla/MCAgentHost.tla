----------------------------- MODULE MCAgentHost -----------------------------
(* AgentHost for TLC: threads, endpoints and entities are interchangeable. *)
EXTENDS AgentHost, TLC

Symmetry == Permutations(Threads) \cup Permutations(Endpoints) \cup Permutations(Entitys)
=============================================================================
