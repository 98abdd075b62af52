SPECIFICATION Spec
CONSTANTS
    s1 = s1
    s2 = s2
    c1 = c1
    c2 = c2
    none = none
    Session <- TwoSessions
    Channel <- TwoChannels
    None = none
    MaxSessions = 1
    MaxResumes = 0
INVARIANT UsedSessionIsAlive
