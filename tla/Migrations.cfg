SPECIFICATION FairSpec
CONSTANTS
    Servers = {s1, s2, s3}
    N = 3
    MaxRestarts = 1
    None = None
INVARIANTS TypeOK ExactlyOnce AppliedInOrder NoConflict
PROPERTY LockIsReleased
