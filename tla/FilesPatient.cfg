SPECIFICATION FairSpec
CONSTANTS
    NumVolumes = 2
    Rows = 1
    Columns = 1
    DirSize = 1
    MaxFiles = 2
    MaxDepth = 2
    MaxAsked = 1
    Patient = TRUE
    MaxUser = 4
    Events = {"fault"}
    MaxEvents = 1
CHECK_DEADLOCK FALSE
PROPERTIES ChosenIsShown
