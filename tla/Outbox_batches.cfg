\* Three notices in batches of two, two attempts.
SPECIFICATION FairSpec
CONSTANTS
    User = {u1}
    MaxJobs = 3
    MaxAttempts = 2
    BatchSize = 2
    NoUser = NoUser
INVARIANTS TypeOK
PROPERTIES KeepsPromise EverySettled
