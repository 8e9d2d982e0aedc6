SPECIFICATION Spec
CONSTANTS
    Caller = {c1, c2}
    Limit = 2
    Window = 2
    Grace = 1
    Horizon = 5
    MaxCount = 3
SYMMETRY Symmetry
INVARIANTS WindowLimit RefusedOnlyOverLimit RateLimitInv
