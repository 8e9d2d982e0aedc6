----------------------------- MODULE MC_SignIn -----------------------------
(* Symmetry for the run of SignIn. *)
EXTENDS SignIn, TLC

Symmetry == Permutations(User) \cup Permutations(Token) \cup Permutations(Thread)
=============================================================================
