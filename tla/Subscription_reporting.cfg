SPECIFICATION Spec
CONSTANTS
    i1 = i1
    i2 = i2
    v1 = v1
    v2 = v2
    null = null
    Item <- TwoItems
    Value <- TwoValues
    NoValue = null
    Modes <- ReportingOnly
    Timestamps = TRUE
    Masked <- SeesAll
    QueueSize = 2
    DiscardOldest = TRUE
    MaxNotificationsPerPublish = 0
    MaxClock = 4
    MaxSeq = 6
    MaxRequests = 1
    MaxFailures = 1
SYMMETRY Symmetry
INVARIANTS
    FreshSequenceNumber
    AckedIsEmpty
    RecycledRecordIsLive
    CountIsBacked
    QueueBound
    Retransmittable
    LatestValueRetained

