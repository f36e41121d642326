CONSTANTS
    Client = {c1, c2, c3}
    NoCaller = NoCaller
    NumMaps = 2
    VoteTime = 3
    MinVoteDuration = 1
    VotingTimeout = 1
    VotingAttempts = 1
    SpectatorVote = 1
    VotePercent = 50
SPECIFICATION VotingSpec
INVARIANTS
    WithdrawnNeverPasses
CHECK_DEADLOCK FALSE
