SPECIFICATION FairSpec
CONSTANTS
    r1 = r1
    r2 = r2
    r3 = r3
    none = none
    Request <- ThreeRequests
    Kind <- ThreeKinds
    None = none
    MaxFailures = 1
INVARIANTS
    IInv
    ServedIsQueued
    AnsweredOnce
PROPERTIES
    AnsweredInOrder
    EventuallyAnswered
    DestructionEnds
CHECK_DEADLOCK FALSE
