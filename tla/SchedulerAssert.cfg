SPECIFICATION Spec
CONSTANTS
    Tasks = {t1, t2, t3}
    Injections = {t1}
    Delays = {0, 1, 2}
    MaxNow = 3
    MaxRuns = 2
    None = None
INVARIANT CallbackFindsTask
CHECK_DEADLOCK FALSE
