--------------------------- MODULE MCFernetKeys ----------------------------
(* FernetKeys for TLC: processes are interchangeable. *)
EXTENDS FernetKeys, TLC

Symmetry == Permutations(Procs)

\* Bound: after the last death one key less is made.
LastDeathIsEarly == deaths < MaxDeaths \/ made + 1 < MaxKeys
=============================================================================
