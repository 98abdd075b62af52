SPECIFICATION FairSpec
CONSTANTS
    r1 = r1
    r2 = r2
    s1 = s1
    s2 = s2
    none = none
    Request <- TwoRequests
    Subscription <- TwoSubscriptions
    Priority <- TwoPriorities
    None = none
    MaxCodes = 1
    MaxFailures = 1
INVARIANTS
    IInv
    HeldIsFirst
    NoLiveResponse
    OpenIsReachable
    AnsweredOnce
    ServedByPriority
PROPERTIES
    ImplementsPublishService
    EventuallyAnswered
