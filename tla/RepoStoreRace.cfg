SPECIFICATION Spec
CONSTANTS
    Caller = {p1, p2}
    HookFiles = 2
    MaxCrashes = 0
INVARIANTS
    NoCallFails
CHECK_DEADLOCK TRUE
