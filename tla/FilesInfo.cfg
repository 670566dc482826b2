SPECIFICATION Spec
CONSTANTS
    NumVolumes = 1
    Rows = 1
    Columns = 1
    DirSize = 1
    MaxFiles = 2
    MaxDepth = 2
    MaxAsked = 1
    Patient = FALSE
    MaxUser = 3
    Events = {"status"}
    MaxEvents = 1
CHECK_DEADLOCK FALSE
INVARIANTS InfoIsOfFile
