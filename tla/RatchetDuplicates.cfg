SPECIFICATION Spec
CONSTANTS
    Alice = Alice
    Bob = Bob
    Secret = Secret
    None = None
    MaxSkip = 1
    MaxSend = 3
    MaxCalls = 3
    MaxKeys = 3
    MaxDeliveries = 2
    Redeliver = TRUE
    Damage = {Bob}
    Forged <- SignedPreKeyHeaders
CHECK_DEADLOCK FALSE
INVARIANTS IInv ReceivingChainEstablished KeysUnique ForwardSecrecy
PROPERTY NoReplay
