---------------------------- MODULE MC_Sessions ----------------------------
(* Symmetry for the runs of Sessions. *)
EXTENDS Sessions, TLC

Symmetry == Permutations(User) \cup Permutations(Token) \cup Permutations(Thread)
=============================================================================
