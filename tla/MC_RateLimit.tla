---------------------------- MODULE MC_RateLimit ----------------------------
(* Symmetry for the run of RateLimit. *)
EXTENDS RateLimit, TLC

Symmetry == Permutations(Caller)
=============================================================================
