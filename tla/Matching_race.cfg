\* Two members and two requests at a time.
SPECIFICATION Spec
CONSTANTS
    Member = {m1, m2}
    Thread = {t1, t2}
    Nobody = Nobody
SYMMETRY Symmetry
INVARIANTS TypeOK MatchedBothLike BlocksRespected WithdrawnStaysPrivate
PROPERTIES LikeIsKept LateLikeMatches
