SPECIFICATION FairSpec
CONSTANTS
    Client = {a, b, c}
    Creator = a
    None = None
    MaxCommits = 4
    MaxMessages = 0
    MaxHandles = 13
    MaxDestroyed = 2
    MaxRestarts = 0
    Serial = TRUE
CHECK_DEADLOCK FALSE
INVARIANT OwnBranchesOnly
PROPERTY MembersCatchUp
