SPECIFICATION Spec
CONSTANTS
    Thread = {t1, t2}
    None = None
    Handles = 8
    MaxCalls = 3
    Malformed = TRUE
CHECK_DEADLOCK FALSE
INVARIANT NoCallPanics
