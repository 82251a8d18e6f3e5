SPECIFICATION Spec
CONSTANTS
    Alice = Alice
    Bob = Bob
    Secret = Secret
    None = None
    MaxSkip = 2
    MaxSend = 3
    MaxCalls = 6
    MaxKeys = 3
    MaxDeliveries = 7
    Redeliver = FALSE
    Damage = {}
    Forged = {}
CHECK_DEADLOCK FALSE
INVARIANTS TypeOK RootsAgree NothingLost SkippedKeysAreOutstanding ClosedFormIsRight
PROPERTIES SkipGrowth RefusedOnlyWhenFull
