SPECIFICATION FairSpec
CONSTANTS
    Caller = {p1, p2, p3}
    HookFiles = 2
    MaxCrashes = 1
INVARIANTS
    TypeOK
    HooksInstalled
PROPERTIES
    LegacyIsKept
    HooksRepaired
    UndisturbedRepoComesToBe
CHECK_DEADLOCK TRUE
