SPECIFICATION Spec
CONSTANTS
    t1 = t1
    t2 = t2
    t3 = t3
    w1 = w1
    w2 = w2
    w3 = w3
    w4 = w4
    Tasks = {t1, t2, t3}
    Workers = {w1, w2, w3, w4}
    Sizes = {1, 2}
    MaxCalls = 3
    None = None
    Priority <- MCPriority
INVARIANT AcceptedTasksAreDone
