--------------------------- MODULE MCFileManager ---------------------------
(* FileManager for TLC: threads, and files, are interchangeable. *)
EXTENDS FileManager, TLC

Symmetry == Permutations(Threads) \cup Permutations(Files)
=============================================================================
