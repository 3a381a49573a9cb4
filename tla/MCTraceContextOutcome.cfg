SPECIFICATION Spec
CONSTANTS
    c1 = c1
    p1 = p1
    d = d
    r1 = r1
    r2 = r2
    Callers = {c1}
    PoolThreads = {p1}
    Dispatcher = d
    Requests = {r1, r2}
    MaxDepth <- MCDepth
    MaxTasks = 2
    MaxWaiting = 2
INVARIANT OutcomeUnchanged
