CONSTANTS
    Owners = {w1, w2}
    NumEvents = 2
    Lease = 2
    RetryBase = 1
    RetryMax = 2
    MaxAttempts = 2
    MaxFaults = 3
    Nobody = Nobody
SPECIFICATION FairSpec
CHECK_DEADLOCK FALSE
INVARIANTS
    AcknowledgedIsStored
    OneSenderPerEvent
    FirstAttemptsInOrder
PROPERTIES
    AcknowledgedIsFinal
    EveryEventSettles
