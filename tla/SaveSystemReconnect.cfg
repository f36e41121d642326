CONSTANTS
    Client = {c1}
    NoGuid = NoGuid
    NoEntry = NoEntry
    MaxSlot = 1
    MaxBackup = 2
    LimitedSaves = 1
    RunFlags <- MapRuns
    MaxOrigin = 2
    MaxRun = 1
    MaxRepeats = 1
    QuickReconnects = TRUE
SPECIFICATION SaveSpec
PROPERTIES
    SavesSurviveReconnect
CHECK_DEADLOCK FALSE
