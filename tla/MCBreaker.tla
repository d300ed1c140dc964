----------------------------- MODULE MCBreaker -----------------------------
(* Breaker for TLC: the callers are interchangeable.                       *)
EXTENDS Breaker, TLC

Symmetry == Permutations(Callers)
=============================================================================
