SPECIFICATION EndlessSpec
CONSTANTS
    s1 = s1
    s2 = s2
    s3 = s3
    h1 = h1
    NoSpan = NoSpan
    Spans = {s1, s2, s3}
    Slow = {s1}
    Handlers = {h1}
    QueueCapacity = 1
    BatchSize = 2
    MaxAttempts = 2
    MaxFaults = 1
PROPERTIES
    WriteEnds
    RedisDrains
    FallbackDrains
    EventLoopsFree
