SPECIFICATION FairSpec
CONSTANTS
    N = 2
    StateKey = 1
    Outputs = {0,1}
    LivePollPeriod = 2
    PrinterStatuses = {"idle"}
    FirstVer = 1
    MaxVer = 2
    MaxBoot = 1
    MaxLine = 2
    MaxUser = 0
    FaultKinds = {"lose","cut","garbled"}
    MaxFaults = 2
    Late = FALSE
INVARIANTS
    NamesAreOwn
PROPERTIES
    NamesLearned
