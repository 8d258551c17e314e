SPECIFICATION FairSpec
CONSTANTS
    PipeSize = 1
    MaxInput = 2
    MaxOutput = 3
PROPERTIES
    CommandEnds
CHECK_DEADLOCK TRUE
