-------------------------- MODULE MCAgentDirectory --------------------------
(***************************************************************************)
(* AgentDirectory for TLC: threads, values of metadata, and seconds, are   *)
(* interchangeable.                                                        *)
(***************************************************************************)
EXTENDS AgentDirectory, TLC

Symmetry == Permutations(Threads) \cup Permutations(Metadata) \cup Permutations(Seconds)
=============================================================================
