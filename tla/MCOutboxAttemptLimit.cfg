CONSTANTS
    Owners = {w1, w2}
    NumEvents = 2
    Lease = 2
    RetryBase = 1
    RetryMax = 2
    MaxAttempts = 2
    Nobody = Nobody
CHECK_DEADLOCK FALSE
CONSTANTS
    MaxFaults = 2
SPECIFICATION Spec
INVARIANTS
    AttemptLimitDeadLetters
