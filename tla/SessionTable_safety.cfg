SPECIFICATION FairSpec
CONSTANTS
    s1 = s1
    s2 = s2
    c1 = c1
    c2 = c2
    none = none
    Session <- TwoSessions
    Channel <- TwoChannels
    None = none
    MaxSessions = 1
    MaxResumes = 1
INVARIANTS
    IInv
    DeletedOnce
    ListedIsAlive
    NoDanglingChannel
PROPERTIES
    OnlyItsChannelEndsIt
    EndedSessionIsRemoved
    SilentSessionIsRemoved
