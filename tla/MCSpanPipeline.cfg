SPECIFICATION Spec
CONSTANTS
    s1 = s1
    s2 = s2
    s3 = s3
    h1 = h1
    h2 = h2
    NoSpan = NoSpan
    Spans = {s1, s2, s3}
    Slow = {s1, s2}
    Handlers = {h1, h2}
    QueueCapacity = 1
    BatchSize = 2
    MaxAttempts = 3
    MaxFaults = 2
SYMMETRY Symmetry
INVARIANTS
    TypeOK
    Conserved
    OnePlaceUnlessAmbiguous
    SubmittedOncePerPush
    SlowStoredWereSubmitted
PROPERTIES
    LossNeedsFault
    DeliverySpec
