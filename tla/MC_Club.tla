------------------------------ MODULE MC_Club ------------------------------
(* Model values and symmetry for the runs of Club. *)
EXTENDS ClubInvariant, TLC

Symmetry == Permutations(User) \cup Permutations(Photo) \cup Permutations(Key)
            \cup Permutations(Api) \cup Permutations(Bot)
=============================================================================
