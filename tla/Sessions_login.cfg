SPECIFICATION Spec
CONSTANTS
    User = {u1}
    Token = {k1, k2}
    Thread = {t1, t2}
    NoUser = NoUser
SYMMETRY Symmetry
INVARIANTS AllRevoked
