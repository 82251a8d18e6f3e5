SPECIFICATION Spec
CONSTANTS
    Party = {a, b, c}
    None = None
    MaxSkip = 10
    MaxSpks = 2
    MaxBatches = 2
    BatchSize = 1
    MaxInitiations = 2
    MaxResponses = 1
    ThroughApi = FALSE
SYMMETRY Symmetry
CHECK_DEADLOCK FALSE
INVARIANTS TypeOK Agreement OnlyPeersCanCompute SecretsFresh FirstExchange
