SPECIFICATION FairSpec
CONSTANTS
    PipeSize = 1
    MaxInput = 2
    MaxOutput = 3
INVARIANTS
    TypeOK
    OutputIsComplete
PROPERTIES
    SessionEnds
    NoGoroutineStays
CHECK_DEADLOCK TRUE
