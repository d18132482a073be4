CONSTANTS
    a1 = a1
    a2 = a2
    ip1 = ip1
    Tx = {a1, a2}
    Addresses = {ip1}
    IPLimit = 3
    UserLimit = 3
    RateWindow = 2
    Threshold = 2
    LockWindow = 1
    LockDuration = 2
    Retention = 2
    MaxTime = 3
    MaxLogins = 4
    StatementsFail = FALSE
SPECIFICATION Spec
SYMMETRY Symmetry
CHECK_DEADLOCK FALSE
INVARIANT ThresholdLocks
