SPECIFICATION Spec
CONSTANTS
    a = a
    b = b
    Value <- TwoValues
    Mode = "BOTH"
    MaxWrites = 2
    MaxChanges = 1
    MaxFailures = 2
PROPERTY RequestIsKept
