SPECIFICATION Spec
CONSTANTS
    NumVolumes = 2
    Rows = 1
    Columns = 1
    DirSize = 2
    MaxFiles = 2
    MaxDepth = 2
    MaxAsked = 2
    Patient = FALSE
    MaxUser = 3
    Events = {"fault", "status", "features"}
    MaxEvents = 1
CHECK_DEADLOCK FALSE
INVARIANTS TypeOK ListsApart ListIsOfPath SelectedIsIntact ScrollSensible UpHasParent
