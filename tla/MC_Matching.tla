---------------------------- MODULE MC_Matching ----------------------------
(* Symmetry for the runs of Matching. *)
EXTENDS Matching, TLC

Symmetry == Permutations(Member) \cup Permutations(Thread)
=============================================================================
