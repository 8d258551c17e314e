SPECIFICATION ProcessSpec
CONSTANTS
    Unset = Unset
    Directory <- Directories
    Start <- Home
    Value <- Values
    MaxSet = 2
    MaxEntries = 2
    MaxStatus = 2
INVARIANTS
    TypeOK
    PassedByAll
    RefusedByOne
    HookFindsServersRepos
    ServerIsAsked
CHECK_DEADLOCK TRUE
