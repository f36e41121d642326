CONSTANTS
    Client = {c1}
    NoGuid = NoGuid
    NoEntry = NoEntry
    MaxSlot = 1
    MaxBackup = 2
    LimitedSaves = 1
    RunFlags <- MapRuns
    MaxOrigin = 3
    MaxRun = 2
    MaxRepeats = 1
    QuickReconnects = FALSE
SPECIFICATION SaveSpec
VIEW View
INVARIANTS
    LatestIsSaved
    BackupsNewestFirst
    RunUsesOwnPositions
    LimitHolds
PROPERTIES
    SavesSurviveReconnect
CHECK_DEADLOCK FALSE
