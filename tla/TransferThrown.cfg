SPECIFICATION Spec
CONSTANTS
    alice = alice
    bob = bob
    mallory = mallory
    r1 = r1
    r2 = r2
    r3 = r3
    None = None
    Users = {alice, bob}
    Strangers = {mallory}
    Amounts = {1}
    Requests = {r1}
    InitialBalance <- OneBalance
    MaxBalance = 3
    PoolSize = 1
    MaxFaults = 1
INVARIANTS
    ThrownTransfersAreReverted
