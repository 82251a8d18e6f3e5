SPECIFICATION Spec
CONSTANTS
    Party = {a, b, c}
    None = None
    MaxSkip = 10
    MaxSpks = 1
    MaxBatches = 1
    BatchSize = 1
    MaxInitiations = 1
    MaxResponses = 1
    ThroughApi = TRUE
SYMMETRY Symmetry
CHECK_DEADLOCK FALSE
INVARIANT SameSecretAliceComputed
