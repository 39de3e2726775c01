----------------------------- MODULE MCAppFlow -----------------------------
(* AppFlow for TLC. *)
EXTENDS AppFlow, TLC
=============================================================================
