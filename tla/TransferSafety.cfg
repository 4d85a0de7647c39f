SPECIFICATION Spec
CONSTANTS
    alice = alice
    bob = bob
    mallory = mallory
    r1 = r1
    r2 = r2
    r3 = r3
    None = None
    Users = {alice, bob}
    Strangers = {mallory}
    Amounts = {1, 2}
    Requests = {r1, r2, r3}
    InitialBalance <- OneBalance
    MaxBalance = 3
    PoolSize = 2
    MaxFaults = 1
SYMMETRY Symmetry
INVARIANTS
    LedgerExplainsBalances
    ReturnedConnectionsAreClean
    RepliesMatchLedger
    PushedTransfersAreCommitted
PROPERTIES
    FetchedBalanceIsExact
    ImplementsAtomicTransfer
