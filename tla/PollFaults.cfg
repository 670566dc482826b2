SPECIFICATION FairSpec
CONSTANTS
    N = 2
    StateKey = 1
    Outputs = {0}
    LivePollPeriod = 2
    PrinterStatuses = {"idle"}
    FirstVer = 1
    MaxVer = 2
    MaxBoot = 2
    MaxLine = 2
    MaxUser = 0
    FaultKinds = {"lose","cut","garbled","oob"}
    MaxFaults = 1
    Late = FALSE
INVARIANTS
    TypeOK
    RequestsAreFew
PROPERTIES
    Converges
    ConvergesFully
