SPECIFICATION Spec
CONSTANTS
    Methods = {"Acknowledge", "GetMonitoredItems"}
    Diagnostics = FALSE
INVARIANT NoDeadlock
