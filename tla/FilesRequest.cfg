SPECIFICATION FairSpec
CONSTANTS
    NumVolumes = 1
    Rows = 1
    Columns = 1
    DirSize = 1
    MaxFiles = 2
    MaxDepth = 2
    MaxAsked = 2
    Patient = FALSE
    MaxUser = 3
    Events = {}
    MaxEvents = 0
CHECK_DEADLOCK FALSE
PROPERTIES RequestIsMade
