SPECIFICATION Spec
CONSTANTS
    User = {a, b, c}
    None = None
    MaxSkip = 0
    MaxKeyPairs = 1
    MaxEncapsulations = 2
    MaxDecapsulations = 1
SYMMETRY Symmetry
CHECK_DEADLOCK FALSE
INVARIANT SecretsFresh
