SPECIFICATION BankSpec
CONSTANTS
    alice = alice
    bob = bob
    carol = carol
    r1 = r1
    r2 = r2
    k1 = k1
    k2 = k2
    k3 = k3
    k4 = k4
    d1 = d1
    None = None
    Users = {alice, bob, carol}
    Strangers = {}
    Amounts = {1}
    Requests = {r1, r2}
    InitialBalance <- OneBalance
    MaxBalance = 3
    PoolSize = 2
    MaxFaults = 1
    Calls = {k1, k2, k3, k4}
    Kind <- KindOfCall
    Seeded = {alice, bob}
    Applicants = {carol}
    Dashboards = {d1}
    Mixes <- TheMixes
CHECK_DEADLOCK FALSE
INVARIANTS
    SendersAreVerified
    CreatedAccountsStay
    DashboardsAreExplained
PROPERTIES
    EveryRequestIsAnswered
