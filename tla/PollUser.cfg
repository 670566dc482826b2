SPECIFICATION FairSpec
CONSTANTS
    N = 2
    StateKey = 1
    Outputs = {}
    LivePollPeriod = 2
    PrinterStatuses = {"idle"}
    FirstVer = 1
    MaxVer = 2
    MaxBoot = 2
    MaxLine = 2
    MaxUser = 1
    FaultKinds = {}
    MaxFaults = 0
    Late = FALSE
INVARIANTS
    OkMeansFetched
PROPERTIES
    Converges
