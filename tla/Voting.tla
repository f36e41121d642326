-------------------------------- MODULE Voting --------------------------------
(***************************************************************************)
(* The vote of a server: one client calls it (or the server, for automatic *)
(* rock the vote), the others cast and change ballots, and CheckVote       *)
(* decides it once per frame.  Commands of several clients arrive between  *)
(* two frames.                                                             *)
(*                                                                         *)
(* A rock the vote collects a map from every ballot in favour, so its      *)
(* counts are kept per map beside the four totals.                         *)
(***************************************************************************)
EXTENDS Integers, FiniteSets

CONSTANTS
    Client,             \* client slots
    NoCaller,           \* voter_cn of a vote the server called (-1)
    NumMaps,            \* maps a rock the vote offers
    VoteTime,           \* VOTE_TIME, in frames
    MinVoteDuration,    \* vote_minVoteDuration and vote_minRtvDuration, in frames
    VotingTimeout,      \* VOTING_TIMEOUT, in frames
    VotingAttempts,     \* VOTING_ATTEMPTS
    SpectatorVote,      \* g_spectatorVote: spectators may vote (1) and call votes (2)
    VotePercent         \* vote_percent, after its clamp

ASSUME ClientAssumption == IsFiniteSet(Client) /\ NoCaller \notin Client
ASSUME MapsAssumption == NumMaps \in Nat \ {0}
ASSUME TimesAssumption == /\ VoteTime \in Nat \ {0}
                          /\ MinVoteDuration \in 1..VoteTime
                          /\ VotingTimeout \in Nat /\ VotingAttempts \in Nat
ASSUME CvarsAssumption == SpectatorVote \in 0..2 /\ VotePercent \in 1..99

VARIABLES
    connected,      \* client->pers.connected
    team,           \* client->sess.sessionTeam
    voted,          \* EF_VOTED in client->ps.eFlags
    votingInfo,     \* client->pers.votingInfo
    voteInfo,       \* level.voteInfo
    rtv,            \* game.rtv: isRtvVote and the counts of rtvMaps
    history         \* history: who withdrew the last vote, and its result

clientVars == <<connected, team, voted, votingInfo>>
votingVars == <<clientVars, voteInfo, rtv, history>>

Map == 0..(NumMaps - 1)
Team == {"free", "player", "spectator"}
Connection == {"disconnected", "connecting", "connected"}

\* level.voteInfo; `open` is voteTime # 0 and `age` is level.time - voteTime.
VoteInfo == [open : BOOLEAN, age : 0..(VoteTime - 1),
             voteYes : Int, voteYesSpectators : Int,
             voteNo : Int, voteNoSpectators : Int,
             voter_cn : Client \cup {NoCaller}, voter_team : Team,
             voteCanceled : BOOLEAN, forcePass : BOOLEAN, isAutoRtvVote : BOOLEAN]

\* A client's votingInfo; `time` counts from the start of the vote.
Ballot == [isVotedYes : BOOLEAN, time : 0..(VoteTime - 1), attempts : 0..(VotingAttempts + 1),
           lastRtvMapVoted : Map, lastTeamVotedOn : Team]

\* What memset leaves of a client's votingInfo, and the maps a vote starts with.
NoBallot == [isVotedYes |-> FALSE, time |-> 0, attempts |-> 0,
             lastRtvMapVoted |-> 0, lastTeamVotedOn |-> "free"]
NoCounts == [m \in Map |-> [playerCount |-> 0, spectatorCount |-> 0]]

VotingInit ==
    /\ connected = [c \in Client |-> "disconnected"]
    /\ team = [c \in Client |-> "free"]
    /\ voted = [c \in Client |-> FALSE]
    /\ votingInfo = [c \in Client |-> NoBallot]
    /\ voteInfo = [open |-> FALSE, age |-> 0, voteYes |-> 0, voteYesSpectators |-> 0,
                   voteNo |-> 0, voteNoSpectators |-> 0, voter_cn |-> NoCaller,
                   voter_team |-> "free", voteCanceled |-> FALSE, forcePass |-> FALSE,
                   isAutoRtvVote |-> FALSE]
    /\ rtv = [isRtvVote |-> FALSE, maps |-> NoCounts]
    /\ history = [withdrawn |-> "no", result |-> "none"]

-----------------------------------------------------------------------------
(* Clients *)

One(condition) == IF condition THEN 1 ELSE 0
IsSpectator(c) == team[c] = "spectator"
WasSpectator(c) == votingInfo[c].lastTeamVotedOn = "spectator"
IsCaller(c) == voteInfo.voter_cn = c
NumConnectedClients == Cardinality({c \in Client : connected[c] # "disconnected"})

\* ClientConnect clears the whole client; a new one begins as a spectator.
Connect(c) ==
    /\ connected[c] = "disconnected"
    /\ connected' = [connected EXCEPT ![c] = "connecting"]
    /\ team' = [team EXCEPT ![c] = "spectator"]
    /\ voted' = [voted EXCEPT ![c] = FALSE]
    /\ votingInfo' = [votingInfo EXCEPT ![c] = NoBallot]
    /\ UNCHANGED <<voteInfo, rtv, history>>

\* ClientBegin and ClientSpawn keep EF_VOTED.
Begin(c) ==
    /\ connected[c] = "connecting"
    /\ connected' = [connected EXCEPT ![c] = "connected"]
    /\ UNCHANGED <<team, voted, votingInfo, voteInfo, rtv, history>>

SetTeam(c, t) ==
    /\ connected[c] = "connected"
    /\ team[c] # t
    /\ team' = [team EXCEPT ![c] = t]
    /\ UNCHANGED <<connected, voted, votingInfo, voteInfo, rtv, history>>

-----------------------------------------------------------------------------
(* Counting *)

\* The counts of a rock the vote after n ballots were added to a map.
Counted(maps, m, fromSpectator, n) ==
    [maps EXCEPT ![m] = [playerCount |-> @.playerCount + (IF fromSpectator THEN 0 ELSE n),
                         spectatorCount |-> @.spectatorCount + (IF fromSpectator THEN n ELSE 0)]]

\* The totals after yes, no ballots were added, of which ySpec, nSpec by spectators.
Tallied(yes, ySpec, no, nSpec) ==
    [voteInfo EXCEPT !.voteYes = @ + yes, !.voteYesSpectators = @ + ySpec,
                     !.voteNo = @ + no, !.voteNoSpectators = @ + nSpec]

\* The ballot updateVotingInfo leaves in a client's votingInfo.
Marked(c, isYes, m) ==
    [votingInfo EXCEPT ![c] = [isVotedYes |-> isYes, time |-> voteInfo.age,
                               attempts |-> @.attempts + 1,
                               lastRtvMapVoted |-> m, lastTeamVotedOn |-> team[c]]]

LastMap(c) == votingInfo[c].lastRtvMapVoted

\* Mutant of WithoutLastMap: the ballot is taken out of the count of the client's
\* team of now.
WithoutLastMapOfTeam(c) == Counted(rtv.maps, LastMap(c), IsSpectator(c), -1)

WithoutLastMap(c) == Counted(rtv.maps, LastMap(c), WasSpectator(c), -1)

\* Mutant of ResetVote: a forced pass is left for the next vote.
ResetVoteKeepingForcePass(info, present) ==
    /\ voteInfo' = [info EXCEPT !.open = FALSE, !.age = 0,
                                !.voteCanceled = FALSE, !.isAutoRtvVote = FALSE]
    /\ rtv' = [rtv EXCEPT !.isRtvVote = FALSE]
    /\ votingInfo' = [c \in Client |-> IF c \in present THEN NoBallot ELSE votingInfo[c]]

\* resetVote: the vote ends for everyone who is connected or connecting.
ResetVote(info, present) ==
    /\ voteInfo' = [info EXCEPT !.open = FALSE, !.age = 0, !.forcePass = FALSE,
                                !.voteCanceled = FALSE, !.isAutoRtvVote = FALSE]
    /\ rtv' = [rtv EXCEPT !.isRtvVote = FALSE]
    /\ votingInfo' = [c \in Client |-> IF c \in present THEN NoBallot ELSE votingInfo[c]]

\* The totals of a vote that was canceled by or because of its caller.
AllAgainst(connections) ==
    [voteInfo EXCEPT !.voteYes = 0, !.voteYesSpectators = 0,
                     !.voteNo = connections, !.voteNoSpectators = 0]

Present == {c \in Client : connected[c] # "disconnected"}

-----------------------------------------------------------------------------
(* Calling a vote *)

\* callvote: what checkVoteConditions limits by time and number is left open.  A
\* rock the vote starts without a ballot and keeps voteYesSpectators as it was.
CallVote(c, isRtv) ==
    /\ connected[c] = "connected"
    /\ IsSpectator(c) => SpectatorVote >= 2
    /\ ~voteInfo.open
    /\ voteInfo' = [voteInfo EXCEPT
          !.open = TRUE, !.age = 0,
          !.voteYes = One(~isRtv),
          !.voteYesSpectators = IF isRtv THEN @ ELSE One(IsSpectator(c)),
          !.voteNo = 0, !.voteNoSpectators = 0,
          !.voter_cn = c, !.voter_team = team[c]]
    /\ voted' = [d \in Client |-> IF d \in Present THEN d = c /\ ~isRtv ELSE voted[d]]
    /\ rtv' = IF isRtv THEN [isRtvVote |-> TRUE, maps |-> NoCounts] ELSE rtv
    /\ history' = [withdrawn |-> "no", result |-> "none"]
    /\ UNCHANGED <<connected, team, votingInfo>>

\* callAutoRtv, once its timer has run out and somebody is there.
CallAutoRtv ==
    /\ ~voteInfo.open
    /\ NumConnectedClients > 0
    /\ voteInfo' = [voteInfo EXCEPT
          !.open = TRUE, !.age = 0, !.isAutoRtvVote = TRUE,
          !.voteYes = 0, !.voteYesSpectators = 0, !.voteNo = 0, !.voteNoSpectators = 0,
          !.voter_cn = NoCaller, !.voter_team = "free"]
    /\ voted' = [d \in Client |-> IF d \in Present THEN FALSE ELSE voted[d]]
    /\ rtv' = [isRtvVote |-> TRUE, maps |-> NoCounts]
    /\ history' = [withdrawn |-> "no", result |-> "none"]
    /\ UNCHANGED <<connected, team, votingInfo>>

-----------------------------------------------------------------------------
(* Ballots: `vote yes`, `vote no` and, on a rock the vote, `rtvVote m` *)

\* A client that has not voted may be a spectator that is not allowed to.
MayVote(c) == voted[c] \/ ~IsSpectator(c) \/ SpectatorVote > 0

\* The caller withdraws its vote; the next CheckVote ends it.
CancelOwnVote(c) ==
    /\ connected[c] = "connected" /\ voteInfo.open
    /\ IsCaller(c) /\ MayVote(c)
    /\ voteInfo' = [AllAgainst(NumConnectedClients) EXCEPT !.voteCanceled = TRUE]
    /\ history' = [history EXCEPT !.withdrawn = "by caller"]
    /\ UNCHANGED <<clientVars, rtv>>

\* A first ballot takes back voteCanceled, whoever had set it.
FirstBallot(c) ==
    /\ connected[c] = "connected" /\ voteInfo.open
    /\ ~voted[c] /\ MayVote(c)
    /\ \/ /\ ~rtv.isRtvVote
          /\ voteInfo' = [Tallied(1, One(IsSpectator(c)), 0, 0) EXCEPT !.voteCanceled = FALSE]
          /\ votingInfo' = Marked(c, TRUE, LastMap(c))
          /\ UNCHANGED rtv
       \/ /\ ~(rtv.isRtvVote /\ IsCaller(c))
          /\ voteInfo' = [Tallied(0, 0, 1, One(IsSpectator(c))) EXCEPT !.voteCanceled = FALSE]
          /\ votingInfo' = Marked(c, FALSE, LastMap(c))
          /\ UNCHANGED rtv
       \/ \E m \in Map :
          /\ rtv.isRtvVote
          /\ voteInfo' = [Tallied(1, One(IsSpectator(c)), 0, 0) EXCEPT !.voteCanceled = FALSE]
          /\ votingInfo' = Marked(c, TRUE, m)
          /\ rtv' = [rtv EXCEPT !.maps = Counted(@, m, IsSpectator(c), 1)]
    /\ voted' = [voted EXCEPT ![c] = TRUE]
    /\ history' = [history EXCEPT !.withdrawn =
                      IF IsCaller(c) /\ @ = "by caller" THEN "taken back" ELSE @]
    /\ UNCHANGED <<connected, team>>

\* A re-vote in the first third of the vote, with attempts left, and not at once
\* after the last one.  The caller of a regular vote has no ballot to change.
MayRevote(c) ==
    /\ connected[c] = "connected" /\ voteInfo.open /\ voted[c]
    /\ rtv.isRtvVote \/ ~IsCaller(c)
    /\ voteInfo.age =< VoteTime \div 3
    /\ votingInfo[c].attempts =< VotingAttempts
    /\ votingInfo[c].time + VotingTimeout =< voteInfo.age

\* RevoteYes, of a regular vote.
RevoteYes(c) ==
    /\ MayRevote(c)
    /\ ~rtv.isRtvVote /\ ~votingInfo[c].isVotedYes
    /\ voteInfo' = Tallied(1, One(IsSpectator(c)), -1, -One(WasSpectator(c)))
    /\ votingInfo' = Marked(c, TRUE, LastMap(c))
    /\ UNCHANGED <<connected, team, voted, rtv, history>>

\* Mutant of RevoteNo: the ballot in favour stays in the totals.
RevoteNoKeepingYes(c) ==
    /\ MayRevote(c)
    /\ ~IsCaller(c) /\ votingInfo[c].isVotedYes
    /\ voteInfo' = Tallied(0, 0, 1, One(IsSpectator(c)))
    /\ votingInfo' = Marked(c, FALSE, LastMap(c))
    /\ rtv' = IF rtv.isRtvVote THEN [rtv EXCEPT !.maps = WithoutLastMap(c)] ELSE rtv
    /\ UNCHANGED <<connected, team, voted, history>>

\* RevoteNo, of either; the caller of a rock the vote cancels it instead.
RevoteNo(c) ==
    /\ MayRevote(c)
    /\ ~IsCaller(c) /\ votingInfo[c].isVotedYes
    /\ voteInfo' = Tallied(-1, -One(WasSpectator(c)), 1, One(IsSpectator(c)))
    /\ votingInfo' = Marked(c, FALSE, LastMap(c))
    /\ rtv' = IF rtv.isRtvVote THEN [rtv EXCEPT !.maps = WithoutLastMap(c)] ELSE rtv
    /\ UNCHANGED <<connected, team, voted, history>>

\* RevoteRtv.  The comparison with the last map is made whatever the last ballot was.
RevoteRtv(c, m) ==
    /\ MayRevote(c)
    /\ rtv.isRtvVote /\ LastMap(c) # m
    /\ \/ /\ votingInfo[c].isVotedYes
          /\ rtv' = [rtv EXCEPT !.maps = Counted(WithoutLastMap(c), m, IsSpectator(c), 1)]
          /\ UNCHANGED voteInfo
       \/ /\ ~votingInfo[c].isVotedYes
          /\ rtv' = [rtv EXCEPT !.maps = Counted(@, m, IsSpectator(c), 1)]
          /\ voteInfo' = Tallied(1, One(IsSpectator(c)), -1, -One(WasSpectator(c)))
    /\ votingInfo' = Marked(c, TRUE, m)
    /\ UNCHANGED <<connected, team, voted, history>>

-----------------------------------------------------------------------------
(* Administrators, disconnects and the end of a vote *)

\* cancelvote
CancelVote ==
    /\ voteInfo.open
    /\ voteInfo' = [voteInfo EXCEPT !.voteCanceled = TRUE]
    /\ history' = [history EXCEPT !.withdrawn = IF @ = "no" THEN "by admin" ELSE @]
    /\ UNCHANGED <<clientVars, rtv>>

\* passvote, which refuses a rock the vote.
PassVote ==
    /\ voteInfo.open /\ ~rtv.isRtvVote
    /\ voteInfo' = [voteInfo EXCEPT !.forcePass = TRUE]
    /\ UNCHANGED <<clientVars, rtv, history>>

\* Mutants of Disconnect: the ballot of a client that leaves stays in the counts, or
\* the vote goes on whoever leaves.
DisconnectKeepingBallot(c) ==
    /\ connected[c] # "disconnected"
    /\ connected' = [connected EXCEPT ![c] = "disconnected"]
    /\ team' = [team EXCEPT ![c] = "free"]
    /\ UNCHANGED voted
    /\ IF voteInfo.open /\ IsCaller(c)
       THEN /\ ResetVote(AllAgainst(NumConnectedClients - 1), Present \ {c})
            /\ history' = [history EXCEPT !.result = "canceled"]
       ELSE UNCHANGED <<votingInfo, voteInfo, rtv, history>>
DisconnectKeepingVote(c) ==
    /\ connected[c] # "disconnected"
    /\ connected' = [connected EXCEPT ![c] = "disconnected"]
    /\ team' = [team EXCEPT ![c] = "free"]
    /\ UNCHANGED <<voted, votingInfo, voteInfo, rtv, history>>

\* ClientDisconnect: the vote of a caller who leaves ends, anyone else's ballot is
\* taken out of the counts.
Disconnect(c) ==
    /\ connected[c] # "disconnected"
    /\ connected' = [connected EXCEPT ![c] = "disconnected"]
    /\ team' = [team EXCEPT ![c] = "free"]
    /\ UNCHANGED voted
    /\ \/ /\ voteInfo.open /\ IsCaller(c)
          /\ ResetVote(AllAgainst(NumConnectedClients - 1), Present \ {c})
          /\ history' = [history EXCEPT !.result = "canceled"]
       \/ /\ voteInfo.open /\ ~IsCaller(c)
          /\ voted[c] /\ votingInfo[c].isVotedYes
          /\ voteInfo' = Tallied(-1, -One(WasSpectator(c)), 0, 0)
          /\ rtv' = IF rtv.isRtvVote THEN [rtv EXCEPT !.maps = WithoutLastMap(c)] ELSE rtv
          /\ UNCHANGED <<votingInfo, history>>
       \/ /\ voteInfo.open /\ ~IsCaller(c)
          /\ voted[c] /\ ~votingInfo[c].isVotedYes
          /\ voteInfo' = Tallied(0, 0, -1, -One(WasSpectator(c)))
          /\ UNCHANGED <<votingInfo, rtv, history>>
       \/ /\ ~voteInfo.open \/ (~IsCaller(c) /\ ~voted[c])
          /\ UNCHANGED <<votingInfo, voteInfo, rtv, history>>

\* getNumValidVoters: neither who is still loading nor a spectator who cannot vote
\* or has not voted yet.
ValidVoters ==
    {c \in Client : /\ connected[c] = "connected"
                    /\ IsSpectator(c) => SpectatorVote > 0 /\ voted[c]}
RequiredClients == (Cardinality(ValidVoters) * VotePercent) \div 100

CallerSwitchedTeam ==
    ~voteInfo.isAutoRtvVote /\ voteInfo.voter_team # team[voteInfo.voter_cn]

EndVote(info, result) ==
    /\ ResetVote(info, Present)
    /\ history' = [history EXCEPT !.result = result]
    /\ UNCHANGED <<connected, team, voted>>

\* Mutant of Passes: a tie passes.
PassesOnTie == voteInfo.voteYes >= RequiredClients

Passes == voteInfo.voteYes > RequiredClients
Fails(age) == \/ voteInfo.voteNo >= NumConnectedClients - RequiredClients
              \/ age >= VoteTime

\* One frame of G_RunFrame: the clock, then CheckVote.
CheckVote ==
    LET age == voteInfo.age + 1
    IN  /\ voteInfo.open
        /\ \/ /\ voteInfo.voteCanceled
              /\ EndVote(voteInfo, "canceled")
           \/ /\ ~voteInfo.voteCanceled /\ voteInfo.forcePass
              /\ EndVote(voteInfo, "forced")
           \/ /\ ~voteInfo.voteCanceled /\ ~voteInfo.forcePass
              /\ age >= MinVoteDuration
              /\ \/ CallerSwitchedTeam /\ EndVote(AllAgainst(NumConnectedClients), "canceled")
                 \/ ~CallerSwitchedTeam /\ Passes /\ EndVote(voteInfo, "passed")
                 \/ ~CallerSwitchedTeam /\ ~Passes /\ Fails(age) /\ EndVote(voteInfo, "failed")
           \/ /\ ~voteInfo.voteCanceled /\ ~voteInfo.forcePass
              /\ age < MinVoteDuration \/ (~CallerSwitchedTeam /\ ~Passes /\ ~Fails(age))
              /\ voteInfo' = [voteInfo EXCEPT !.age = age]
              /\ UNCHANGED <<clientVars, rtv, history>>

VotingNext ==
    \/ \E c \in Client :
          \/ Connect(c) \/ Begin(c) \/ Disconnect(c)
          \/ \E t \in {"player", "spectator"} : SetTeam(c, t)
          \/ \E isRtv \in BOOLEAN : CallVote(c, isRtv)
          \/ CancelOwnVote(c) \/ FirstBallot(c)
          \/ RevoteYes(c) \/ RevoteNo(c)
          \/ \E m \in Map : RevoteRtv(c, m)
    \/ CallAutoRtv \/ CancelVote \/ PassVote
    \/ CheckVote

VotingSpec == VotingInit /\ [][VotingNext]_votingVars

-----------------------------------------------------------------------------
(* Properties *)

\* The standing ballots.  The caller of a regular vote is in favour without one.
CallerVote == {c \in Client : IsCaller(c) /\ ~rtv.isRtvVote}
YesBallots == {c \in Present : voted[c] /\ votingInfo[c].isVotedYes}
NoBallots == {c \in Present : voted[c] /\ ~votingInfo[c].isVotedYes} \ CallerVote
InFavour == YesBallots \cup CallerVote
MapBallots(m, bySpectators) ==
    {c \in YesBallots : LastMap(c) = m /\ (WasSpectator(c) <=> bySpectators)}

\* Every variable has its type, and no vote outlives VOTE_TIME.
VotingTypeOK ==
    /\ connected \in [Client -> Connection]
    /\ team \in [Client -> Team]
    /\ voted \in [Client -> BOOLEAN]
    /\ votingInfo \in [Client -> Ballot]
    /\ voteInfo \in VoteInfo
    /\ rtv \in [isRtvVote : BOOLEAN, maps : [Map -> [playerCount : Int, spectatorCount : Int]]]
    /\ history \in [withdrawn : {"no", "by admin", "by caller", "taken back"},
                    result : {"none", "passed", "failed", "forced", "canceled"}]

\* The totals are those of the standing ballots, each counted for the team it was
\* cast from, through re-votes, changes of team and disconnects, as long as the
\* caller has not withdrawn the vote.
TalliesFollowBallots ==
    voteInfo.open /\ history.withdrawn \in {"no", "by admin"} =>
       /\ voteInfo.voteYes = Cardinality(InFavour)
       /\ voteInfo.voteNo = Cardinality(NoBallots)
       /\ voteInfo.voteNoSpectators = Cardinality({c \in NoBallots : WasSpectator(c)})
       /\ ~rtv.isRtvVote =>
             voteInfo.voteYesSpectators = Cardinality({c \in YesBallots : WasSpectator(c)})
                                             + One(voteInfo.voter_team = "spectator")

\* The counts of each map are those of the ballots for it, even after its caller
\* withdrew the vote.
MapCountsFollowBallots ==
    voteInfo.open /\ rtv.isRtvVote =>
       \A m \in Map :
          /\ rtv.maps[m].playerCount = Cardinality(MapBallots(m, FALSE))
          /\ rtv.maps[m].spectatorCount = Cardinality(MapBallots(m, TRUE))

\* A vote passes only with more standing ballots in favour than vote_percent of the
\* valid voters, whatever happened to the totals on the way.
PassedHasMajority ==
    [][history.result = "none" /\ history'.result = "passed" =>
          Cardinality(InFavour) > RequiredClients]_votingVars

\* setRtvWinner takes the first of the maps with most ballots: a rock the vote that
\* passes has one.
WinnerExists ==
    [][rtv.isRtvVote /\ history.result = "none" /\ history'.result = "passed" =>
          \E m \in Map : rtv.maps[m].playerCount + rtv.maps[m].spectatorCount > 0]_votingVars

\* Nothing of a vote is left when it is over: a cancellation, a forced pass, a
\* ballot or an attempt does not reach the next one.
NextVoteStartsClean ==
    ~voteInfo.open =>
       /\ ~voteInfo.voteCanceled /\ ~voteInfo.forcePass
       /\ ~voteInfo.isAutoRtvVote /\ ~rtv.isRtvVote
       /\ \A c \in Present : votingInfo[c] = NoBallot

\* CheckVote reads the team of the client in slot voter_cn: it is still the caller.
CallerIsPresent ==
    voteInfo.open /\ ~voteInfo.isAutoRtvVote => connected[voteInfo.voter_cn] = "connected"

\* "If the caller decides to hit f2 after calling the vote, cancel it." (g_cmds.cpp,
\* Cmd_Vote_f): a vote its caller withdrew does not
\* pass, unless the caller votes for it after all.
WithdrawnNeverPasses == history.withdrawn = "by caller" => history.result # "passed"
=============================================================================
