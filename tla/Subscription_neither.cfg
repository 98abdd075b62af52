SPECIFICATION Spec
CONSTANTS
    i1 = i1
    i2 = i2
    v1 = v1
    v2 = v2
    null = null
    Item <- OneItem
    Value <- TwoValues
    NoValue = null
    Modes <- ReportingOnly
    Timestamps = FALSE
    Masked <- SeesNoStatus
    QueueSize = 3
    DiscardOldest = TRUE
    MaxNotificationsPerPublish = 0
    MaxClock = 5
    MaxSeq = 5
    MaxRequests = 1
    MaxFailures = 0
PROPERTY DifferenceIsQueued
