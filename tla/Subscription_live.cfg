SPECIFICATION FairSpec
CONSTANTS
    i1 = i1
    i2 = i2
    v1 = v1
    v2 = v2
    null = null
    Item <- OneItem
    Value <- TwoValues
    NoValue = null
    Modes <- ReportingOnly
    Timestamps = TRUE
    Masked <- SeesAll
    QueueSize = 2
    DiscardOldest = FALSE
    MaxNotificationsPerPublish = 1
    MaxClock = 4
    MaxSeq = 6
    MaxRequests = 1
    MaxFailures = 0
INVARIANT MessageNumberMatches
PROPERTIES
    DeliveredInOrder
    UnsentEventuallySent
    ChangeReachesClient
