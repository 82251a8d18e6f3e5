SPECIFICATION Spec
CONSTANTS
    Initiators = {a}
    Responders = {b}
    KeyKinds = {"spk"}
    MlsUsers = {b}
    MaxMlsHandles = 2
    ReloadUsers = {b}
    None = None
    MaxSkip = 1
    MaxHandles = 6
    MaxLoads = 1
    MaxKeyPairs = 7
    MaxInitiations = 1
    MaxMessages = 2
    MaxIndex = 2
CHECK_DEADLOCK FALSE
INVARIANTS TypeOK NoHandleWasted KeysUnique OpenedByPeer OpenedOnce
PROPERTY ImplementsStore
