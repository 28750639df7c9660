\* Three overlapping logins, two failures to a lock.
SPECIFICATION Spec
CONSTANTS
    r1 = r1  r2 = r2  r3 = r3
    Requests = {r1, r2, r3}
    MaxAttempts = 2  LockFor = 2  MaxLost = 2  MaxTime = 5
SYMMETRY Symmetry
INVARIANTS GuessesAreBounded
PROPERTIES NoSessionThroughLock
CHECK_DEADLOCK FALSE
