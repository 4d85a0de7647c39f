SPECIFICATION FrameworkSpec
CONSTANTS
    Threads = {c1, c2, c3}
    MaxPushes = 4
    DISPATCHERS = {d1, d2}
    CALLBACKS = {k1, k2}
    NO_DISPATCHER = none
    LOOP_DEPTH = 2
    HANDLES = {h1, h2}
    MAX_HANDLERS = 3
    RUN_DEPTH = 2
    PATHS = {p1, p2}
    MAX_EVENTS = 3
    LOGGING = {t1, t2}
    MAX_LOGS = 4
INVARIANTS
    NoLostWakeup
    SubscriptionsAgree
    HandlesAreOpen
    LogIsComplete
PROPERTIES
    SleepersAreServed
    HandlersAreCurrent
    DestructorsReturn
CHECK_DEADLOCK FALSE
