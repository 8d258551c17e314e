SPECIFICATION FairSpec
CONSTANTS
    Caller = {p1}
    HookFiles = 2
    MaxCrashes = 1
PROPERTIES
    RepoComesToBe
CHECK_DEADLOCK TRUE
