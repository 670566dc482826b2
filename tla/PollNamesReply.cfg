SPECIFICATION Spec
CONSTANTS
    N = 2
    StateKey = 2
    Outputs = {0}
    LivePollPeriod = 2
    PrinterStatuses = {"idle"}
    FirstVer = 1
    MaxVer = 2
    MaxBoot = 1
    MaxLine = 2
    MaxUser = 1
    FaultKinds = {}
    MaxFaults = 0
    Late = FALSE
INVARIANTS
    NamesAreOwn
