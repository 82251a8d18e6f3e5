SPECIFICATION Spec
CONSTANTS
    Alice = Alice
    Bob = Bob
    Secret = Secret
    None = None
    MaxSkip = 100
    MaxSend = 2
    MaxCalls = 6
    MaxKeys = 4
    MaxDeliveries = 2
    Redeliver = TRUE
    Damage = {}
    Forged = {}
CHECK_DEADLOCK FALSE
INVARIANT RatchetsForwardOnly
