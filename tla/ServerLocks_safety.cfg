SPECIFICATION Spec
CONSTANTS
    Methods = {"Lua"}
    Diagnostics = FALSE
INVARIANTS
    NoDeadlock
    NoRace
