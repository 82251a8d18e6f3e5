SPECIFICATION FairSpec
CONSTANTS
    Alice = Alice
    Bob = Bob
    Secret = Secret
    None = None
    MaxSkip = 1
    MaxSend = 2
    MaxCalls = 6
    MaxKeys = 3
    MaxDeliveries = 7
    Redeliver = FALSE
    Damage = {}
    Forged = {}
CHECK_DEADLOCK FALSE
PROPERTY EveryMessageOpened
