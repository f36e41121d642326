CONSTANTS
    Client = {c1, c2}
    Nobody = Nobody
    MaxFireteams = 1
    MaxUsers = 2
    Limits = {}
    RunKinds = {}
    NoGhostAllowed = FALSE
    SpawnStartsRun = FALSE
    MaxPending = 1
SPECIFICATION QuestionSpec
PROPERTIES
    AskedByThatClient
CHECK_DEADLOCK FALSE
