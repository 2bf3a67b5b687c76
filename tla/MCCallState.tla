----------------------------- MODULE MCCallState -----------------------------
(* TLC's instances of CallState. *)
EXTENDS CallState, TLC

Symmetry == Permutations(Users)
=============================================================================
