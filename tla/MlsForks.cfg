SPECIFICATION Spec
CONSTANTS
    Client = {a, b, c}
    Creator = a
    None = None
    MaxCommits = 3
    MaxMessages = 2
    MaxHandles = 7
    MaxDestroyed = 1
    MaxRestarts = 1
    Serial = FALSE
CHECK_DEADLOCK FALSE
SYMMETRY Symmetry
INVARIANTS TypeOK RosterAgreement ReadByMembers GenerationsUnique NoReplay
