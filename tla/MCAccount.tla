----------------------------- MODULE MCAccount -----------------------------
(* A small instance of Account for TLC. *)
EXTENDS Account, TLC

CONSTANTS s1, s2

Sym == Permutations(Slots)
=============================================================================
