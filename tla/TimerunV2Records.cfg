CONSTANTS
    User = {u1, u2, Nobody}
    Run = {r1}
    MaxSeason = 2
    MaxTime = 2
    MaxDate = 4
    NoRecord = NoRecord
    MaxClient = 2
    Nobody = Nobody
    NoPlayer = NoPlayer
    NoRun = NoRun
    Banned = {}
    Commands = {"remove", "restore", "addSeason", "editSeason", "deleteSeason"}
    MaxPosted = 4
    OrderlyClients = TRUE
SPECIFICATION TimerunSpec
SYMMETRY Symmetry
INVARIANTS
    PlayerIsClient
    ActiveIffRunning
    CacheFollowsDatabase
PROPERTIES
    AnnouncementsImprove
CHECK_DEADLOCK FALSE
