SPECIFICATION FairSpec
CONSTANTS
    a = a
    b = b
    Value <- TwoValues
    Mode = "BOTH"
    MaxWrites = 2
    MaxChanges = 1
    MaxFailures = 2
INVARIANTS
    IInv
    TakenOnceInOrder
PROPERTIES
    EventuallyTaken
    CacheFollowsDevice
