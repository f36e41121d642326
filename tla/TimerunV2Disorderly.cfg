CONSTANTS
    User = {u1, u2, Nobody}
    Run = {r1}
    MaxSeason = 2
    MaxTime = 2
    MaxDate = 3
    NoRecord = NoRecord
    MaxClient = 2
    Nobody = Nobody
    NoPlayer = NoPlayer
    NoRun = NoRun
    Banned = {u2}
    Commands = {"remove", "restore", "addSeason", "editSeason", "deleteSeason"}
    MaxPosted = 3
    OrderlyClients = FALSE
SPECIFICATION TimerunFairSpec
PROPERTIES
    IsRepository
    LoginAnswered
CHECK_DEADLOCK FALSE
