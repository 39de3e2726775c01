--------------------------- MODULE MCAsyncRequest ---------------------------
(* AsyncRequest for TLC: agents and deliveries are interchangeable. *)
EXTENDS AsyncRequest, TLC

Symmetry == Permutations(Agents) \cup Permutations(Handlers)
=============================================================================
