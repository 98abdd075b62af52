SPECIFICATION Spec
CONSTANTS
    i1 = i1
    i2 = i2
    v1 = v1
    v2 = v2
    null = null
    Item <- OneItem
    Value <- TwoValues
    NoValue = null
    Modes <- EveryMode
    Timestamps = TRUE
    Masked <- SeesAll
    QueueSize = 1
    DiscardOldest = TRUE
    MaxNotificationsPerPublish = 1
    MaxClock = 3
    MaxSeq = 3
    MaxRequests = 1
    MaxFailures = 0
SYMMETRY ValueSymmetry
INVARIANT IInv
PROPERTY UnsentLeavesOnlyByOverflow
