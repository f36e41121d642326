CONSTANTS
    User = {u1, u2, Nobody}
    Run = {r1}
    MaxSeason = 1
    MaxTime = 1
    MaxDate = 3
    NoRecord = NoRecord
    MaxClient = 2
    Nobody = Nobody
    NoPlayer = NoPlayer
    NoRun = NoRun
    Banned = {}
    Commands = {}
    MaxPosted = 3
    OrderlyClients = FALSE
SPECIFICATION TimerunSpec
INVARIANTS
    ResolvedSlotIsValid
CHECK_DEADLOCK FALSE
