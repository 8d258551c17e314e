SPECIFICATION ProcessSpec
CONSTANTS
    Unset = Unset
    Directory <- Directories
    Start <- Home
    Value <- Values
    MaxSet = 2
    MaxEntries = 2
    MaxStatus = 2
INVARIANTS
    AllAreRun
CHECK_DEADLOCK TRUE
