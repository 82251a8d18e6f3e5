SPECIFICATION FairSpec
CONSTANTS
    Thread = {t1, t2}
    None = None
    Handles = 4
    MaxCalls = 4
    Malformed = TRUE
CHECK_DEADLOCK FALSE
INVARIANTS TypeOK MessageNumbers EncryptInOrder DestroyedForGood
PROPERTIES ImplementsStore EveryCallReturns
