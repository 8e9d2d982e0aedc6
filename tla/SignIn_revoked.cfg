SPECIFICATION SignInSpec
CONSTANTS
    User = {u1, u2}
    Token = {k1, k2}
    Thread = {t1, t2}
    NoUser = NoUser
    Person = {p1}
    Staff = {p1}
    NoPerson = NoPerson
SYMMETRY Symmetry
INVARIANTS TypeOK RevokedUnlessMissed ClosedForGood SignInInv
PROPERTIES HeldLostByRevocation
