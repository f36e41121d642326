CONSTANTS
    Client = {c1, c2, c3}
    Nobody = Nobody
    MaxFireteams = 2
    MaxUsers = 3
    Limits = {1}
    RunKinds = {"plain"}
    NoGhostAllowed = TRUE
    SpawnStartsRun = FALSE
    MaxPending = 2
SPECIFICATION FireteamSpec
SYMMETRY Symmetry
VIEW View
INVARIANTS
    TeamsAreValid
    EndsWithMembership
    TeamLimitHolds
    NoGhostHasNoRun
PROPERTIES
    AdmittedByLeader
    IsRosters
CONSTRAINT OneRule
CHECK_DEADLOCK FALSE
