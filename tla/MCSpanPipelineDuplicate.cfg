SPECIFICATION Spec
CONSTANTS
    s1 = s1
    h1 = h1
    NoSpan = NoSpan
    Spans = {s1}
    Slow = {s1}
    Handlers = {h1}
    QueueCapacity = 1
    BatchSize = 2
    MaxAttempts = 3
    MaxFaults = 3
INVARIANT FallbackDoesNotDuplicate
