SPECIFICATION ProcessSpec
CONSTANTS
    Unset = Unset
    Directory <- Directories
    Start <- Home
    Value <- Values
    MaxSet = 3
    MaxEntries = 1
    MaxStatus = 2
INVARIANTS
    NamedAdminIsEnsured
CHECK_DEADLOCK TRUE
