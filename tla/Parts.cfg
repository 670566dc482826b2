SPECIFICATION PartsSpec
CONSTANTS
    Files = {"a", "b"}
    Sizes = {1, 2}
    Chunks = 2
    MaxOpens = 2
    MaxOthers = 1
    MaxFaults = 1
    MaxSlots = 2
    Beds = {0, 1}
    Chambers = {0}
    Tools = {0, 1, 2}
    ToolHeaters = {2}
    MaxAnswers = 3
    MaxToggles = 1
    MaxDamaged = 1
    Values = {0, 1}
    BeepTicks = 2
    MaxFailures = 2
    MaxPowerCuts = 2
    MaxTurns = 3
    Characters = {"W", " "}
    Rows = 3
    RowChars = 5
    RowWidth = 6
    MaxTold = 7
    MaxReceived = 2
    FieldTools = {0, 1}
    FieldSlots = 4
    MaxHeaters = 3
    MaxTemp = 2
    MaxChoices = 2
    MaxChanges = 2
CHECK_DEADLOCK FALSE
INVARIANTS PictureIsOfFile ListIsTold ColumnsAreOfElements CalibratedAsTurned KeptWhenLeft FailureIsKnown LogIsTold SetIsChosen
PROPERTIES DownloadEnds SaveGoesOn
