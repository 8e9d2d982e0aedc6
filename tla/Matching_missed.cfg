\* Two members like each other at the same time.
SPECIFICATION Spec
CONSTANTS
    Member = {m1, m2}
    Thread = {t1, t2}
    Nobody = Nobody
SYMMETRY Symmetry
INVARIANTS MutualLikesMatch
