------------------------------ MODULE Voting_proof ------------------------------
(***************************************************************************)
(* Voting for any number of clients, maps and frames: types, the caller of *)
(* a vote, and what a vote leaves for the next one; then its arithmetic.   *)
(***************************************************************************)
EXTENDS Voting, FiniteSetTheorems, TLAPS

\* A client that has not voted has a blank ballot: its first one is within the bound
\* on attempts.
BlankUntilVoted ==
    \A c \in Present : voteInfo.open /\ ~voted[c] => votingInfo[c] = NoBallot

\* A vote the server did not call has a caller.
CallerIsClient == voteInfo.open /\ ~voteInfo.isAutoRtvVote => voteInfo.voter_cn \in Client

\* Outside a vote every flag is down and every ballot is blank, so a vote starts with
\* blank ballots; inside one, blank ballots bound the attempts and the caller stays.
IInv == /\ VotingTypeOK /\ NextVoteStartsClean /\ CallerIsPresent
        /\ BlankUntilVoted /\ CallerIsClient

\* The number of connected clients is one, for any finite set of slots.
LEMMA ConnectedCount == NumConnectedClients \in Nat
  <1>1. IsFiniteSet({c \in Client : connected[c] # "disconnected"})
    BY FS_Subset, ClientAssumption
  <1> QED BY <1>1, FS_CardinalityType DEF NumConnectedClients

\* A blank ballot is a ballot, and blank counts are counts.
LEMMA BlankTypes == /\ NoBallot \in Ballot
                    /\ NoCounts \in [Map -> [playerCount : Int, spectatorCount : Int]]
  BY MapsAssumption, TimesAssumption DEF NoBallot, NoCounts, Ballot, Map, Team

\* Adding ballots to the totals keeps their type.
LEMMA TalliedType ==
    ASSUME VotingTypeOK, NEW y \in Int, NEW ys \in Int, NEW n \in Int, NEW ns \in Int
    PROVE  Tallied(y, ys, n, ns) \in VoteInfo
  <1>1. voteInfo \in VoteInfo
    BY DEF VotingTypeOK
  <1>2. /\ voteInfo.voteYes + y \in Int /\ voteInfo.voteYesSpectators + ys \in Int
        /\ voteInfo.voteNo + n \in Int /\ voteInfo.voteNoSpectators + ns \in Int
    BY <1>1 DEF VoteInfo
  <1> QED BY <1>1, <1>2 DEF VoteInfo, Tallied

\* Adding ballots to a map keeps the type of the counts.
LEMMA CountedType ==
    ASSUME NEW maps \in [Map -> [playerCount : Int, spectatorCount : Int]],
           NEW m \in Map, NEW s \in BOOLEAN, NEW n \in Int
    PROVE  Counted(maps, m, s, n) \in [Map -> [playerCount : Int, spectatorCount : Int]]
  BY DEF Counted

\* The ballot updateVotingInfo marks has its type as long as an attempt is left.
LEMMA MarkedType ==
    ASSUME VotingTypeOK, NEW c \in Client, NEW isYes \in BOOLEAN, NEW m \in Map,
           votingInfo[c].attempts =< VotingAttempts
    PROVE  Marked(c, isYes, m) \in [Client -> Ballot]
  <1>1. /\ votingInfo \in [Client -> Ballot] /\ team[c] \in Team
        /\ voteInfo.age \in 0..(VoteTime - 1)
    BY DEF VotingTypeOK, VoteInfo
  <1>2. votingInfo[c].attempts + 1 \in 0..(VotingAttempts + 1)
    BY <1>1, TimesAssumption DEF Ballot
  <1> QED BY <1>1, <1>2 DEF Marked, Ballot

\* What a vote that ends leaves: types, and nothing of the vote.
LEMMA ResetIsClean ==
    ASSUME VotingTypeOK, NEW info \in VoteInfo, NEW present, present \subseteq Client,
           ResetVote(info, present)
    PROVE  /\ voteInfo' \in VoteInfo /\ ~voteInfo'.open
           /\ rtv' \in [isRtvVote : BOOLEAN, maps : [Map -> [playerCount : Int, spectatorCount : Int]]]
           /\ votingInfo' \in [Client -> Ballot]
           /\ ~voteInfo'.voteCanceled /\ ~voteInfo'.forcePass
           /\ ~voteInfo'.isAutoRtvVote /\ ~rtv'.isRtvVote
           /\ \A c \in present : votingInfo'[c] = NoBallot
  <1>1. 0 \in 0..(VoteTime - 1)
    BY TimesAssumption
  <1>2. votingInfo \in [Client -> Ballot] /\ rtv \in [isRtvVote : BOOLEAN,
           maps : [Map -> [playerCount : Int, spectatorCount : Int]]]
    BY DEF VotingTypeOK
  <1>3. voteInfo' = [info EXCEPT !.open = FALSE, !.age = 0, !.forcePass = FALSE,
                                 !.voteCanceled = FALSE, !.isAutoRtvVote = FALSE]
    BY DEF ResetVote
  <1>4. voteInfo' \in VoteInfo /\ ~voteInfo'.open /\ ~voteInfo'.voteCanceled
           /\ ~voteInfo'.forcePass /\ ~voteInfo'.isAutoRtvVote
    BY <1>1, <1>3 DEF VoteInfo
  <1>5. rtv' = [rtv EXCEPT !.isRtvVote = FALSE]
    BY DEF ResetVote
  <1>6. votingInfo' = [c \in Client |-> IF c \in present THEN NoBallot ELSE votingInfo[c]]
    BY DEF ResetVote
  <1> QED BY <1>2, <1>4, <1>5, <1>6, BlankTypes

\* The totals of a canceled vote keep their type.
LEMMA AllAgainstType ==
    ASSUME VotingTypeOK, NEW n \in Int
    PROVE  AllAgainst(n) \in VoteInfo
  <1>1. voteInfo \in VoteInfo
    BY DEF VotingTypeOK
  <1> DEFINE Totals(y, ys, no, ns) ==
        [voteInfo EXCEPT !.voteYes = y, !.voteYesSpectators = ys,
                         !.voteNo = no, !.voteNoSpectators = ns]
  <1>2. ASSUME NEW y \in Int, NEW ys \in Int, NEW no \in Int, NEW ns \in Int
        PROVE  Totals(y, ys, no, ns) \in VoteInfo
    BY <1>1 DEF VoteInfo
  <1>3. AllAgainst(n) = Totals(0, 0, n, 0)
    BY DEF AllAgainst
  <1> HIDE DEF Totals
  <1> QED BY <1>2, <1>3

-----------------------------------------------------------------------------

\* A condition counts for a number.
LEMMA OneType ==
    ASSUME NEW b
    PROVE  One(b) \in Int /\ -One(b) \in Int
  BY DEF One

\* A server starts without clients and without a vote.
LEMMA InitInv == VotingInit => IInv
  <1> SUFFICES ASSUME VotingInit PROVE IInv
    OBVIOUS
  <1>1. 0 \in 0..(VoteTime - 1)
    BY TimesAssumption
  <1>2. voteInfo \in VoteInfo
    BY <1>1 DEF VotingInit, VoteInfo, Team
  <1>3. VotingTypeOK
    BY <1>2, BlankTypes DEF VotingInit, VotingTypeOK, Connection, Team
  <1> QED BY <1>3 DEF VotingInit, IInv, NextVoteStartsClean, CallerIsPresent,
                      BlankUntilVoted, CallerIsClient, Present

\* Clients that come and change team touch no vote and no ballot but their own.
LEMMA ClientSteps ==
    ASSUME IInv, NEW c \in Client,
           Connect(c) \/ Begin(c) \/ (\E t \in {"player", "spectator"} : SetTeam(c, t))
    PROVE  IInv'
  <1> USE DEF IInv
  <1>1. CASE Connect(c)
    <2>1. VotingTypeOK'
      BY <1>1, BlankTypes DEF Connect, VotingTypeOK, Connection, Team
    <2>2. Present' \subseteq Present \cup {c} /\ votingInfo'[c] = NoBallot
      BY <1>1 DEF Connect, Present, VotingTypeOK
    <2>3. NextVoteStartsClean' /\ BlankUntilVoted'
      BY <1>1, <2>2 DEF Connect, NextVoteStartsClean, BlankUntilVoted, Present, VotingTypeOK
    <2>4. CallerIsPresent' /\ CallerIsClient'
      BY <1>1 DEF Connect, CallerIsPresent, CallerIsClient, VotingTypeOK
    <2> QED BY <2>1, <2>3, <2>4
  <1>2. CASE Begin(c)
    <2>1. VotingTypeOK'
      BY <1>2 DEF Begin, VotingTypeOK, Connection
    <2>2. Present' = Present
      BY <1>2 DEF Begin, Present, VotingTypeOK
    <2>3. NextVoteStartsClean' /\ BlankUntilVoted'
      BY <1>2, <2>2 DEF Begin, NextVoteStartsClean, BlankUntilVoted
    <2>4. CallerIsPresent' /\ CallerIsClient'
      BY <1>2 DEF Begin, CallerIsPresent, CallerIsClient, VotingTypeOK
    <2> QED BY <2>1, <2>3, <2>4
  <1>3. CASE \E t \in {"player", "spectator"} : SetTeam(c, t)
    <2>1. VotingTypeOK'
      BY <1>3 DEF SetTeam, VotingTypeOK, Team
    <2>2. Present' = Present
      BY <1>3 DEF SetTeam, Present
    <2>3. NextVoteStartsClean' /\ BlankUntilVoted' /\ CallerIsPresent' /\ CallerIsClient'
      BY <1>3, <2>2 DEF SetTeam, NextVoteStartsClean, BlankUntilVoted, CallerIsPresent, CallerIsClient
    <2> QED BY <2>1, <2>3
  <1> QED BY <1>1, <1>2, <1>3

\* A vote starts with the blank ballots the last one left.
LEMMA CallSteps ==
    ASSUME IInv, (\E c \in Client, isRtv \in BOOLEAN : CallVote(c, isRtv)) \/ CallAutoRtv
    PROVE  IInv'
  <1> USE DEF IInv
  <1>a. 0 \in 0..(VoteTime - 1)
    BY TimesAssumption
  <1>b. voteInfo \in VoteInfo
    BY DEF VotingTypeOK
  <1>0. 0 \in 0..(VoteTime - 1) /\ voteInfo \in VoteInfo
    BY <1>a, <1>b
  <1>1. ASSUME NEW c \in Client, NEW isRtv \in BOOLEAN, CallVote(c, isRtv) PROVE IInv'
    <2>1. voteInfo' \in VoteInfo
      <3> DEFINE Called(y, ys, no) ==
            [voteInfo EXCEPT !.open = TRUE, !.age = 0, !.voteYes = y, !.voteYesSpectators = ys,
                             !.voteNo = no, !.voteNoSpectators = no,
                             !.voter_cn = c, !.voter_team = team[c]]
      <3>1. ASSUME NEW y \in Int, NEW ys \in Int, NEW no \in Int
            PROVE  Called(y, ys, no) \in VoteInfo
        BY <1>0 DEF VoteInfo, VotingTypeOK
      <3>2. voteInfo' = Called(One(~isRtv),
                               IF isRtv THEN voteInfo.voteYesSpectators ELSE One(IsSpectator(c)), 0)
        BY <1>1 DEF CallVote
      <3>3. One(~isRtv) \in Int
               /\ (IF isRtv THEN voteInfo.voteYesSpectators ELSE One(IsSpectator(c))) \in Int
        <4>1. One(~isRtv) \in Int /\ One(IsSpectator(c)) \in Int
          BY OneType
        <4> QED BY <1>0, <4>1 DEF VoteInfo
      <3> HIDE DEF Called
      <3> QED BY <3>1, <3>2, <3>3
    <2>2. VotingTypeOK'
      BY <1>1, <2>1, BlankTypes DEF CallVote, VotingTypeOK
    <2>3. voteInfo'.open /\ voteInfo'.voter_cn = c
      BY <1>0, <1>1 DEF CallVote, VoteInfo
    <2>4. BlankUntilVoted'
      BY <1>1 DEF CallVote, NextVoteStartsClean, BlankUntilVoted, Present
    <2>5. NextVoteStartsClean' /\ CallerIsPresent' /\ CallerIsClient'
      BY <1>1, <2>3 DEF CallVote, NextVoteStartsClean, CallerIsPresent, CallerIsClient
    <2> QED BY <2>2, <2>4, <2>5
  <1>2. CASE CallAutoRtv
    <2>1. voteInfo' \in VoteInfo
      <3> DEFINE Called(n) ==
            [voteInfo EXCEPT !.open = TRUE, !.age = 0, !.isAutoRtvVote = TRUE,
                             !.voteYes = n, !.voteYesSpectators = n, !.voteNo = n,
                             !.voteNoSpectators = n, !.voter_cn = NoCaller, !.voter_team = "free"]
      <3>1. ASSUME NEW n \in Int PROVE Called(n) \in VoteInfo
        BY <1>0 DEF VoteInfo, Team
      <3>2. voteInfo' = Called(0)
        BY <1>2 DEF CallAutoRtv
      <3> HIDE DEF Called
      <3> QED BY <3>1, <3>2
    <2>2. VotingTypeOK'
      BY <1>2, <2>1, BlankTypes DEF CallAutoRtv, VotingTypeOK
    <2>3. voteInfo'.open /\ voteInfo'.isAutoRtvVote
      BY <1>0, <1>2 DEF CallAutoRtv, VoteInfo
    <2>4. BlankUntilVoted'
      BY <1>2 DEF CallAutoRtv, NextVoteStartsClean, BlankUntilVoted, Present
    <2>5. NextVoteStartsClean' /\ CallerIsPresent' /\ CallerIsClient'
      BY <2>3 DEF NextVoteStartsClean, CallerIsPresent, CallerIsClient
    <2> QED BY <2>2, <2>4, <2>5
  <1> QED BY <1>1, <1>2

\* A ballot changes the totals and the client's own votingInfo, within its attempts.
LEMMA BallotSteps ==
    ASSUME IInv, NEW c \in Client,
           \/ FirstBallot(c) \/ RevoteYes(c) \/ RevoteNo(c)
           \/ \E m \in Map : RevoteRtv(c, m)
    PROVE  IInv'
  <1> USE DEF IInv
  <1> DEFINE Counts == [Map -> [playerCount : Int, spectatorCount : Int]]
  <1>1. /\ LastMap(c) \in Map /\ voteInfo \in VoteInfo
        /\ rtv \in [isRtvVote : BOOLEAN, maps : Counts]
    BY DEF VotingTypeOK, Ballot, LastMap
  <1>2. /\ IsSpectator(c) \in BOOLEAN /\ WasSpectator(c) \in BOOLEAN
    BY DEF IsSpectator, WasSpectator
  <1>3. /\ 1 \in Int /\ -1 \in Int /\ One(IsSpectator(c)) \in Int /\ -One(WasSpectator(c)) \in Int
    BY OneType
  <1>4. WithoutLastMap(c) \in Counts
    BY <1>1, <1>2, <1>3, CountedType DEF WithoutLastMap
  <1>5. voteInfo.open /\ c \in Present /\ connected' = connected /\ team' = team
    BY DEF FirstBallot, RevoteYes, RevoteNo, RevoteRtv, MayRevote, Present
  <1>6. /\ voteInfo' \in VoteInfo
        /\ voteInfo'.open = voteInfo.open /\ voteInfo'.isAutoRtvVote = voteInfo.isAutoRtvVote
        /\ voteInfo'.voter_cn = voteInfo.voter_cn
    <2>1. ASSUME NEW y \in Int, NEW ys \in Int, NEW n \in Int, NEW ns \in Int,
                 \/ voteInfo' = Tallied(y, ys, n, ns)
                 \/ voteInfo' = [Tallied(y, ys, n, ns) EXCEPT !.voteCanceled = FALSE]
          PROVE  <1>6
      <3>1. Tallied(y, ys, n, ns) \in VoteInfo
        BY TalliedType
      <3>2. /\ Tallied(y, ys, n, ns).open = voteInfo.open
            /\ Tallied(y, ys, n, ns).isAutoRtvVote = voteInfo.isAutoRtvVote
            /\ Tallied(y, ys, n, ns).voter_cn = voteInfo.voter_cn
        BY <1>1 DEF Tallied, VoteInfo
      <3> QED BY <2>1, <3>1, <3>2 DEF VoteInfo
    <2>2. CASE FirstBallot(c)
      <3>1. \E y, ys, n, ns \in Int : voteInfo' = [Tallied(y, ys, n, ns) EXCEPT !.voteCanceled = FALSE]
        <4> DEFINE Cast(y, ys, n, ns) == [Tallied(y, ys, n, ns) EXCEPT !.voteCanceled = FALSE]
        <4>1. \/ voteInfo' = Cast(1, One(IsSpectator(c)), 0, 0)
              \/ voteInfo' = Cast(0, 0, 1, One(IsSpectator(c)))
          BY <2>2 DEF FirstBallot
        <4> HIDE DEF Cast
        <4>2. \E y, ys, n, ns \in Int : voteInfo' = Cast(y, ys, n, ns)
          BY <1>3, <4>1
        <4> QED BY <4>2 DEF Cast
      <3> QED BY <2>1, <3>1
    <2>3. CASE RevoteYes(c)
      BY <1>3, <2>1, <2>3 DEF RevoteYes
    <2>4. CASE RevoteNo(c)
      BY <1>3, <2>1, <2>4 DEF RevoteNo
    <2>5. CASE \E m \in Map : RevoteRtv(c, m)
      BY <1>1, <1>3, <2>1, <2>5 DEF RevoteRtv
    <2> QED BY <2>2, <2>3, <2>4, <2>5
  <1>7. rtv' \in [isRtvVote : BOOLEAN, maps : Counts]
    <2>1. ASSUME NEW maps \in Counts PROVE [rtv EXCEPT !.maps = maps] \in [isRtvVote : BOOLEAN, maps : Counts]
      BY <1>1
    <2>2. CASE FirstBallot(c)
      BY <1>1, <1>2, <1>3, <2>1, <2>2, CountedType DEF FirstBallot
    <2>3. CASE RevoteYes(c) \/ RevoteNo(c)
      BY <1>1, <1>4, <2>1, <2>3 DEF RevoteYes, RevoteNo
    <2>4. ASSUME NEW m \in Map, RevoteRtv(c, m) PROVE <1>7
      BY <1>1, <1>2, <1>3, <1>4, <2>1, <2>4, CountedType DEF RevoteRtv
    <2> QED BY <2>2, <2>3, <2>4
  <1>8. votingInfo[c].attempts =< VotingAttempts
    <2>1. CASE FirstBallot(c)
      <3>1. votingInfo[c] = NoBallot
        BY <1>5, <2>1 DEF FirstBallot, BlankUntilVoted
      <3> QED BY <3>1, TimesAssumption DEF NoBallot
    <2>2. CASE ~FirstBallot(c)
      BY <2>2 DEF RevoteYes, RevoteNo, RevoteRtv, MayRevote
    <2> QED BY <2>1, <2>2
  <1>9. \E isYes \in BOOLEAN, m \in Map : votingInfo' = Marked(c, isYes, m)
    BY <1>1 DEF FirstBallot, RevoteYes, RevoteNo, RevoteRtv
  <1>10. votingInfo' \in [Client -> Ballot] /\ \A d \in Client : d # c => votingInfo'[d] = votingInfo[d]
    <2>1. PICK isYes \in BOOLEAN, m \in Map : votingInfo' = Marked(c, isYes, m)
      BY <1>9
    <2>2. \A d \in Client : d # c => votingInfo'[d] = votingInfo[d]
      BY <2>1 DEF Marked, VotingTypeOK
    <2> QED BY <1>8, <2>1, <2>2, MarkedType
  <1>11. /\ voted' \in [Client -> BOOLEAN] /\ voted'[c]
         /\ \A d \in Client : d # c => voted'[d] = voted[d]
    BY DEF FirstBallot, RevoteYes, RevoteNo, RevoteRtv, MayRevote, VotingTypeOK
  <1>12. history' \in [withdrawn : {"no", "by admin", "by caller", "taken back"},
                       result : {"none", "passed", "failed", "forced", "canceled"}]
    BY DEF FirstBallot, RevoteYes, RevoteNo, RevoteRtv, VotingTypeOK
  <1>13. VotingTypeOK'
    BY <1>5, <1>6, <1>7, <1>10, <1>11, <1>12 DEF VotingTypeOK
  <1>14. BlankUntilVoted'
    BY <1>5, <1>6, <1>10, <1>11 DEF BlankUntilVoted, Present
  <1>15. NextVoteStartsClean' /\ CallerIsPresent' /\ CallerIsClient'
    BY <1>5, <1>6 DEF NextVoteStartsClean, CallerIsPresent, CallerIsClient
  <1> QED BY <1>13, <1>14, <1>15

\* Withdrawing, canceling and forcing a vote only raise flags and set the totals.
LEMMA FlagSteps ==
    ASSUME IInv, (\E c \in Client : CancelOwnVote(c)) \/ CancelVote \/ PassVote
    PROVE  IInv'
  <1> USE DEF IInv
  <1>1. /\ voteInfo' \in VoteInfo /\ voteInfo.open /\ voteInfo'.open
        /\ voteInfo'.isAutoRtvVote = voteInfo.isAutoRtvVote
        /\ voteInfo'.voter_cn = voteInfo.voter_cn
    <2>1. voteInfo \in VoteInfo
      BY DEF VotingTypeOK
    <2>2. CASE \E c \in Client : CancelOwnVote(c)
      <3> DEFINE against == AllAgainst(NumConnectedClients)
      <3>1. against \in VoteInfo
        BY ConnectedCount, AllAgainstType
      <3>2. /\ against.open = voteInfo.open /\ against.isAutoRtvVote = voteInfo.isAutoRtvVote
            /\ against.voter_cn = voteInfo.voter_cn
        BY <2>1 DEF AllAgainst, VoteInfo
      <3>3. voteInfo.open /\ voteInfo' = [against EXCEPT !.voteCanceled = TRUE]
        BY <2>2 DEF CancelOwnVote
      <3> HIDE DEF against
      <3> QED BY <3>1, <3>2, <3>3 DEF VoteInfo
    <2>3. CASE CancelVote
      BY <2>1, <2>3 DEF CancelVote, VoteInfo
    <2>4. CASE PassVote
      BY <2>1, <2>4 DEF PassVote, VoteInfo
    <2> QED BY <2>2, <2>3, <2>4
  <1>2. UNCHANGED <<clientVars, rtv>>
    BY DEF CancelOwnVote, CancelVote, PassVote
  <1>3. history' \in [withdrawn : {"no", "by admin", "by caller", "taken back"},
                      result : {"none", "passed", "failed", "forced", "canceled"}]
    BY DEF CancelOwnVote, CancelVote, PassVote, VotingTypeOK
  <1>4. VotingTypeOK'
    BY <1>1, <1>2, <1>3 DEF VotingTypeOK, clientVars
  <1>5. NextVoteStartsClean' /\ CallerIsPresent' /\ CallerIsClient' /\ BlankUntilVoted'
    BY <1>1, <1>2 DEF NextVoteStartsClean, CallerIsPresent, CallerIsClient, BlankUntilVoted,
                      Present, clientVars
  <1> QED BY <1>4, <1>5

\* The vote of a caller who leaves is over; anyone else leaves it and its caller there.
LEMMA DisconnectStep ==
    ASSUME IInv, NEW c \in Client, Disconnect(c)
    PROVE  IInv'
  <1> USE DEF IInv
  <1>1. /\ connected' \in [Client -> Connection] /\ team' \in [Client -> Team]
        /\ voted' = voted /\ Present' = Present \ {c}
        /\ \A d \in Client : d # c => connected'[d] = connected[d]
    BY DEF Disconnect, VotingTypeOK, Connection, Team, Present
  <1>2. CASE voteInfo.open /\ IsCaller(c)
    <2>1. ResetVote(AllAgainst(NumConnectedClients - 1), Present \ {c})
             /\ history' = [history EXCEPT !.result = "canceled"]
      BY <1>2 DEF Disconnect
    <2>2. AllAgainst(NumConnectedClients - 1) \in VoteInfo /\ Present \ {c} \subseteq Client
      BY ConnectedCount, AllAgainstType DEF Present
    <2>3. /\ voteInfo' \in VoteInfo /\ ~voteInfo'.open
          /\ rtv' \in [isRtvVote : BOOLEAN, maps : [Map -> [playerCount : Int, spectatorCount : Int]]]
          /\ votingInfo' \in [Client -> Ballot]
          /\ ~voteInfo'.voteCanceled /\ ~voteInfo'.forcePass
          /\ ~voteInfo'.isAutoRtvVote /\ ~rtv'.isRtvVote
          /\ \A d \in Present \ {c} : votingInfo'[d] = NoBallot
      BY <2>1, <2>2, ResetIsClean
    <2>4. VotingTypeOK'
      BY <1>1, <2>1, <2>3 DEF VotingTypeOK
    <2> QED BY <1>1, <2>3, <2>4 DEF NextVoteStartsClean, CallerIsPresent, CallerIsClient, BlankUntilVoted
  <1>3. CASE ~(voteInfo.open /\ IsCaller(c))
    <2>1. votingInfo' = votingInfo /\ history' = history
      BY <1>3 DEF Disconnect
    <2>2. LastMap(c) \in Map /\ WasSpectator(c) \in BOOLEAN /\ voteInfo \in VoteInfo
      BY DEF VotingTypeOK, Ballot, LastMap, WasSpectator
    <2>3. -1 \in Int /\ 0 \in Int /\ -One(WasSpectator(c)) \in Int
      BY OneType
    <2>4. \/ voteInfo' = voteInfo
          \/ \E y, ys, n, ns \in Int : voteInfo' = Tallied(y, ys, n, ns)
      <3> HIDE DEF IInv
      <3>1. \/ voteInfo' = Tallied(-1, -One(WasSpectator(c)), 0, 0)
            \/ voteInfo' = Tallied(0, 0, -1, -One(WasSpectator(c)))
            \/ voteInfo' = voteInfo
        BY <1>3 DEF Disconnect
      <3> QED BY <2>3, <3>1
    <2>5. /\ voteInfo' \in VoteInfo /\ voteInfo'.open = voteInfo.open
          /\ voteInfo'.isAutoRtvVote = voteInfo.isAutoRtvVote
          /\ voteInfo'.voter_cn = voteInfo.voter_cn
          /\ voteInfo'.voteCanceled = voteInfo.voteCanceled /\ voteInfo'.forcePass = voteInfo.forcePass
      <3>1. ASSUME NEW y \in Int, NEW ys \in Int, NEW n \in Int, NEW ns \in Int,
                   voteInfo' = Tallied(y, ys, n, ns)
            PROVE  <2>5
        <4>1. voteInfo' \in VoteInfo
          BY <3>1, TalliedType
        <4> QED BY <2>2, <3>1, <4>1 DEF Tallied, VoteInfo
      <3> QED BY <2>2, <2>4, <3>1
    <2>6. WithoutLastMap(c) \in [Map -> [playerCount : Int, spectatorCount : Int]]
      BY <2>2, <2>3, CountedType DEF WithoutLastMap, VotingTypeOK
    <2>7. rtv' = rtv \/ rtv' = [rtv EXCEPT !.maps = WithoutLastMap(c)]
      BY <1>3 DEF Disconnect
    <2>8. rtv' \in [isRtvVote : BOOLEAN, maps : [Map -> [playerCount : Int, spectatorCount : Int]]]
             /\ rtv'.isRtvVote = rtv.isRtvVote
      BY <2>6, <2>7 DEF VotingTypeOK
    <2>9. VotingTypeOK'
      BY <1>1, <2>1, <2>5, <2>8 DEF VotingTypeOK
    <2>10. NextVoteStartsClean' /\ BlankUntilVoted' /\ CallerIsClient'
      BY <1>1, <2>1, <2>5, <2>8 DEF NextVoteStartsClean, BlankUntilVoted, CallerIsClient
    <2>11. CallerIsPresent'
      BY <1>1, <1>3, <2>5 DEF CallerIsPresent, CallerIsClient, IsCaller
    <2> QED BY <2>9, <2>10, <2>11
  <1> QED BY <1>2, <1>3

\* CheckVote ends the vote, or only advances its age below VOTE_TIME.
LEMMA CheckStep ==
    ASSUME IInv, CheckVote
    PROVE  IInv'
  <1> USE DEF IInv
  <1>1. voteInfo \in VoteInfo /\ voteInfo.open /\ voteInfo.age \in 0..(VoteTime - 1)
    BY DEF VotingTypeOK, VoteInfo, CheckVote
  <1>2. ASSUME NEW info \in VoteInfo,
               NEW result \in {"passed", "failed", "forced", "canceled"}, EndVote(info, result)
        PROVE  IInv'
    <2>1. ResetVote(info, Present) /\ history' = [history EXCEPT !.result = result]
             /\ UNCHANGED <<connected, team, voted>>
      BY <1>2 DEF EndVote
    <2>2. Present \subseteq Client /\ Present' = Present
      BY <2>1 DEF Present
    <2>3. /\ voteInfo' \in VoteInfo /\ ~voteInfo'.open
          /\ rtv' \in [isRtvVote : BOOLEAN, maps : [Map -> [playerCount : Int, spectatorCount : Int]]]
          /\ votingInfo' \in [Client -> Ballot]
          /\ ~voteInfo'.voteCanceled /\ ~voteInfo'.forcePass
          /\ ~voteInfo'.isAutoRtvVote /\ ~rtv'.isRtvVote
          /\ \A d \in Present : votingInfo'[d] = NoBallot
      BY <2>1, <2>2, ResetIsClean
    <2>4. VotingTypeOK'
      BY <2>1, <2>3 DEF VotingTypeOK
    <2> QED BY <2>2, <2>3, <2>4 DEF NextVoteStartsClean, CallerIsPresent, CallerIsClient, BlankUntilVoted
  <1>3. ASSUME voteInfo.age + 1 < VoteTime, voteInfo' = [voteInfo EXCEPT !.age = voteInfo.age + 1],
               UNCHANGED <<clientVars, rtv, history>>
        PROVE  IInv'
    <2>1. voteInfo.age + 1 \in 0..(VoteTime - 1)
      BY <1>1, <1>3, TimesAssumption
    <2>2. /\ voteInfo' \in VoteInfo /\ voteInfo'.open
          /\ voteInfo'.isAutoRtvVote = voteInfo.isAutoRtvVote
          /\ voteInfo'.voter_cn = voteInfo.voter_cn
      BY <1>1, <1>3, <2>1 DEF VoteInfo
    <2>3. VotingTypeOK'
      BY <1>3, <2>2 DEF VotingTypeOK, clientVars
    <2> QED BY <1>1, <1>3, <2>2, <2>3 DEF NextVoteStartsClean, CallerIsPresent, CallerIsClient,
                                     BlankUntilVoted, Present, clientVars
  <1>4. AllAgainst(NumConnectedClients) \in VoteInfo
    BY ConnectedCount, AllAgainstType
  <1>5. voteInfo.age + 1 < MinVoteDuration \/ ~Fails(voteInfo.age + 1) => voteInfo.age + 1 < VoteTime
    BY <1>1, TimesAssumption DEF Fails
  <1> HIDE DEF IInv
  <1> QED BY <1>1, <1>2, <1>3, <1>4, <1>5 DEF CheckVote

-----------------------------------------------------------------------------

\* The invariant holds in every reachable state.
THEOREM Invariance == VotingSpec => []IInv
  <1>1. IInv /\ [VotingNext]_votingVars => IInv'
    <2> SUFFICES ASSUME IInv, [VotingNext]_votingVars PROVE IInv'
      OBVIOUS
    <2>1. CASE UNCHANGED votingVars
      BY <2>1 DEF IInv, VotingTypeOK, NextVoteStartsClean, CallerIsPresent, BlankUntilVoted,
                  CallerIsClient, Present, votingVars, clientVars
    <2>2. CASE VotingNext
      BY <2>2, ClientSteps, CallSteps, BallotSteps, FlagSteps, DisconnectStep, CheckStep DEF VotingNext
    <2> QED BY <2>1, <2>2
  <1> QED BY <1>1, InitInv, PTL DEF VotingSpec

\* Every variable has its type and no vote outlives VOTE_TIME, with any clients, maps,
\* durations and cvars (CheckVote, updateVotingInfo).
THEOREM TypeCorrect == VotingSpec => []VotingTypeOK
  <1>1. IInv => VotingTypeOK
    BY DEF IInv
  <1> QED BY <1>1, Invariance, PTL

\* The client CheckVote reads through voter_cn is the one that called the vote: it
\* has not left, whoever came and went (ClientDisconnect).
THEOREM CallerStays == VotingSpec => []CallerIsPresent
  <1>1. IInv => CallerIsPresent
    BY DEF IInv
  <1> QED BY <1>1, Invariance, PTL

\* No flag, ballot or attempt of one vote reaches the next, however it ended
\* (resetVote).
THEOREM CleanStart == VotingSpec => []NextVoteStartsClean
  <1>1. IInv => NextVoteStartsClean
    BY DEF IInv
  <1> QED BY <1>1, Invariance, PTL

-----------------------------------------------------------------------------
(* The arithmetic of a vote: the totals and the counts of the maps are     *)
(* numbers of ballots, so a vote that passes has its majority and, if it   *)
(* is a rock the vote, a map.                                              *)

\* The ballots cast by spectators.
SpectatorNo == {c \in NoBallots : WasSpectator(c)}
SpectatorYes == {c \in YesBallots : WasSpectator(c)}

\* The ballots for a map, of players and of spectators.
PlayersFor(m) == MapBallots(m, FALSE)
SpectatorsFor(m) == MapBallots(m, TRUE)

\* The caller of a regular vote has voted by calling it and never casts a ballot.
CallerHasNoBallot ==
    voteInfo.open /\ ~rtv.isRtvVote =>
       \A c \in Client : IsCaller(c) => voted[c] /\ ~votingInfo[c].isVotedYes

\* A vote the server called has no caller.
AutoHasNoCaller == voteInfo.open /\ voteInfo.isAutoRtvVote => voteInfo.voter_cn = NoCaller

\* After the caller withdrew the vote the total in favour counts later ballots only.
YesIsBallots == voteInfo.open => voteInfo.voteYes =< Cardinality(InFavour)

TallyInv == /\ CallerHasNoBallot /\ AutoHasNoCaller /\ YesIsBallots
            /\ TalliesFollowBallots /\ MapCountsFollowBallots

\* One client more or less in a set of clients.
LEMMA OneClient ==
    ASSUME NEW STATE S, S \subseteq Client, NEW STATE T, T \subseteq Client,
           NEW c \in Client, T \ {c} = S \ {c}
    PROVE  /\ Cardinality(S) \in Nat
           /\ Cardinality(T) = Cardinality(S) + One(c \in T) - One(c \in S)
  <1> DEFINE R == S \ {c}
  <1>1. IsFiniteSet(S) /\ IsFiniteSet(T) /\ IsFiniteSet(R)
    BY ClientAssumption, FS_Subset
  <1>2. /\ Cardinality(S) \in Nat /\ Cardinality(T) \in Nat /\ Cardinality(R) \in Nat
    BY <1>1, FS_CardinalityType
  <1>3. ASSUME NEW STATE U, IsFiniteSet(U), U \ {c} = R, Cardinality(U) \in Nat
        PROVE  Cardinality(U) = Cardinality(R) + One(c \in U)
    <2>1. CASE c \in U
      <3>1. Cardinality(U \ {c}) = Cardinality(U) - 1
        BY <1>3, <2>1, FS_RemoveElement
      <3> HIDE DEF R
      <3> QED BY <1>2, <1>3, <2>1, <3>1 DEF One
    <2>2. CASE c \notin U
      <3>1. U = R
        BY <1>3, <2>2
      <3> HIDE DEF R
      <3> QED BY <1>2, <2>2, <3>1 DEF One
    <2> QED BY <2>1, <2>2
  <1>4. Cardinality(S) = Cardinality(R) + One(c \in S)
    BY <1>1, <1>2, <1>3
  <1>5. Cardinality(T) = Cardinality(R) + One(c \in T)
    BY <1>1, <1>2, <1>3
  <1>6. One(c \in S) \in Int /\ One(c \in T) \in Int
    BY OneType
  <1> HIDE DEF R
  <1> QED BY <1>2, <1>4, <1>5, <1>6

\* The sets of ballots are sets of clients, and finite.
LEMMA BallotSets ==
    /\ YesBallots \subseteq Client /\ NoBallots \subseteq Client /\ InFavour \subseteq Client
    /\ SpectatorYes \subseteq Client /\ SpectatorNo \subseteq Client
    /\ \A m \in Map, s \in BOOLEAN : MapBallots(m, s) \subseteq Client
  BY DEF YesBallots, NoBallots, InFavour, SpectatorYes, SpectatorNo, MapBallots, CallerVote, Present

\* Nothing but the ballot of one client changes.
OnlyBallotOf(c) ==
    /\ \A d \in Client \ {c} : /\ voted'[d] = voted[d] /\ votingInfo'[d] = votingInfo[d]
                               /\ (d \in Present)' = (d \in Present)
    /\ voteInfo'.open = voteInfo.open /\ voteInfo'.voter_cn = voteInfo.voter_cn
    /\ voteInfo'.voter_team = voteInfo.voter_team
    /\ rtv'.isRtvVote = rtv.isRtvVote

\* Then each set of ballots keeps its other members, and each number follows that client.
LEMMA OneBallot ==
    ASSUME NEW c \in Client, OnlyBallotOf(c)
    PROVE  /\ Cardinality(InFavour)' = Cardinality(InFavour) + One((c \in InFavour)') - One(c \in InFavour)
           /\ Cardinality(NoBallots)' = Cardinality(NoBallots) + One((c \in NoBallots)') - One(c \in NoBallots)
           /\ Cardinality(SpectatorNo)' =
                 Cardinality(SpectatorNo) + One((c \in SpectatorNo)') - One(c \in SpectatorNo)
           /\ Cardinality(SpectatorYes)' =
                 Cardinality(SpectatorYes) + One((c \in SpectatorYes)') - One(c \in SpectatorYes)
           /\ \A m \in Map :
                 /\ Cardinality(PlayersFor(m))' =
                       Cardinality(PlayersFor(m)) + One((c \in PlayersFor(m))') - One(c \in PlayersFor(m))
                 /\ Cardinality(SpectatorsFor(m))' =
                       Cardinality(SpectatorsFor(m)) + One((c \in SpectatorsFor(m))')
                          - One(c \in SpectatorsFor(m))
  <1>1. /\ YesBallots' \subseteq Client /\ NoBallots' \subseteq Client /\ InFavour' \subseteq Client
        /\ SpectatorYes' \subseteq Client /\ SpectatorNo' \subseteq Client
        /\ \A m \in Map, s \in BOOLEAN : MapBallots(m, s)' \subseteq Client
    BY DEF YesBallots, NoBallots, InFavour, SpectatorYes, SpectatorNo, MapBallots, CallerVote, Present
  <1>2. \A d \in Client \ {c} : /\ (d \in YesBallots)' <=> d \in YesBallots
                                /\ (d \in CallerVote)' <=> d \in CallerVote
                                /\ (d \in NoBallots)' <=> d \in NoBallots
    BY DEF OnlyBallotOf, YesBallots, CallerVote, NoBallots, IsCaller
  <1>3. \A d \in Client \ {c} : (d \in InFavour)' <=> d \in InFavour
    BY <1>2 DEF InFavour
  <1>4. InFavour' \ {c} = InFavour \ {c} /\ NoBallots' \ {c} = NoBallots \ {c}
    BY <1>1, <1>2, <1>3, BallotSets
  <1>5. SpectatorNo' \ {c} = SpectatorNo \ {c} /\ SpectatorYes' \ {c} = SpectatorYes \ {c}
    <2>1. \A d \in Client \ {c} : (d \in SpectatorNo)' <=> d \in SpectatorNo
      BY <1>2 DEF OnlyBallotOf, SpectatorNo, WasSpectator
    <2>2. \A d \in Client \ {c} : (d \in SpectatorYes)' <=> d \in SpectatorYes
      BY <1>2 DEF OnlyBallotOf, SpectatorYes, WasSpectator
    <2> QED BY <1>1, <2>1, <2>2, BallotSets
  <1>6. ASSUME NEW m \in Map, NEW s \in BOOLEAN
        PROVE  MapBallots(m, s)' \ {c} = MapBallots(m, s) \ {c}
    <2>1. \A d \in Client \ {c} : (d \in MapBallots(m, s))' <=> d \in MapBallots(m, s)
      BY <1>2 DEF OnlyBallotOf, MapBallots, WasSpectator, LastMap
    <2> QED BY <1>1, <2>1, BallotSets
  <1>7. Cardinality(InFavour)' = Cardinality(InFavour) + One((c \in InFavour)') - One(c \in InFavour)
    BY <1>1, <1>4, BallotSets, OneClient
  <1>8. Cardinality(NoBallots)' = Cardinality(NoBallots) + One((c \in NoBallots)') - One(c \in NoBallots)
    BY <1>1, <1>4, BallotSets, OneClient
  <1>9. Cardinality(SpectatorNo)' =
           Cardinality(SpectatorNo) + One((c \in SpectatorNo)') - One(c \in SpectatorNo)
    BY <1>1, <1>5, BallotSets, OneClient
  <1>10. Cardinality(SpectatorYes)' =
            Cardinality(SpectatorYes) + One((c \in SpectatorYes)') - One(c \in SpectatorYes)
    BY <1>1, <1>5, BallotSets, OneClient
  <1>11. ASSUME NEW m \in Map
         PROVE  /\ Cardinality(PlayersFor(m))' =
                      Cardinality(PlayersFor(m)) + One((c \in PlayersFor(m))') - One(c \in PlayersFor(m))
                /\ Cardinality(SpectatorsFor(m))' =
                      Cardinality(SpectatorsFor(m)) + One((c \in SpectatorsFor(m))')
                         - One(c \in SpectatorsFor(m))
    <2>1. PlayersFor(m) \subseteq Client /\ PlayersFor(m)' \subseteq Client
             /\ PlayersFor(m)' \ {c} = PlayersFor(m) \ {c}
      BY <1>1, <1>6, BallotSets DEF PlayersFor
    <2>2. SpectatorsFor(m) \subseteq Client /\ SpectatorsFor(m)' \subseteq Client
             /\ SpectatorsFor(m)' \ {c} = SpectatorsFor(m) \ {c}
      BY <1>1, <1>6, BallotSets DEF SpectatorsFor
    <2> QED BY <2>1, <2>2, OneClient
  <1> QED BY <1>7, <1>8, <1>9, <1>10, <1>11

\* What updateVotingInfo and ClientDisconnect must do for the totals and the counts to
\* follow: change each by the ballot of that client.
FollowsTotals(c) ==
    /\ voteInfo'.voteYes = voteInfo.voteYes + One((c \in InFavour)') - One(c \in InFavour)
    /\ voteInfo'.voteNo = voteInfo.voteNo + One((c \in NoBallots)') - One(c \in NoBallots)
    /\ voteInfo'.voteNoSpectators =
          voteInfo.voteNoSpectators + One((c \in SpectatorNo)') - One(c \in SpectatorNo)
    /\ ~rtv.isRtvVote => voteInfo'.voteYesSpectators =
          voteInfo.voteYesSpectators + One((c \in SpectatorYes)') - One(c \in SpectatorYes)

FollowsMaps(c) ==
    rtv.isRtvVote => \A m \in Map :
       /\ rtv'.maps[m].playerCount = rtv.maps[m].playerCount
             + One((c \in PlayersFor(m))') - One(c \in PlayersFor(m))
       /\ rtv'.maps[m].spectatorCount = rtv.maps[m].spectatorCount
             + One((c \in SpectatorsFor(m))') - One(c \in SpectatorsFor(m))

StillWithdrawn == history'.withdrawn \in {"no", "by admin"} => history.withdrawn \in {"no", "by admin"}

\* A step that does so keeps the totals and counts equal to the numbers of ballots.
LEMMA Recount ==
    ASSUME VotingTypeOK, TallyInv, voteInfo.open, NEW c \in Client,
           OnlyBallotOf(c), FollowsTotals(c), FollowsMaps(c), StillWithdrawn
    PROVE  YesIsBallots' /\ TalliesFollowBallots' /\ MapCountsFollowBallots'
  <1>1. voteInfo.voteYes \in Int /\ voteInfo.voteYesSpectators \in Int /\ rtv'.isRtvVote = rtv.isRtvVote
    BY DEF VotingTypeOK, VoteInfo, OnlyBallotOf
  <1>2. \A b : One(b) \in Int
    BY OneType
  <1>3. YesIsBallots'
    <2>1. voteInfo.voteYes =< Cardinality(InFavour) /\ Cardinality(InFavour) \in Int
      <3>1. Cardinality(InFavour) \in Nat
        BY BallotSets, ClientAssumption, FS_Subset, FS_CardinalityType
      <3> QED BY <3>1 DEF TallyInv, YesIsBallots
    <2>2. voteInfo'.voteYes = voteInfo.voteYes + One((c \in InFavour)') - One(c \in InFavour)
      BY DEF FollowsTotals
    <2>3. Cardinality(InFavour)' = Cardinality(InFavour) + One((c \in InFavour)') - One(c \in InFavour)
      BY OneBallot
    <2>4. One((c \in InFavour)') \in Int /\ One(c \in InFavour) \in Int
      BY OneType
    <2> QED BY <1>1, <2>1, <2>2, <2>3, <2>4 DEF YesIsBallots
  <1>4. TalliesFollowBallots'
    <2>1. SUFFICES ASSUME history'.withdrawn \in {"no", "by admin"}
                   PROVE  TalliesFollowBallots'
      BY DEF TalliesFollowBallots
    <2>2. /\ voteInfo.voteYes = Cardinality(InFavour)
          /\ voteInfo.voteNo = Cardinality(NoBallots)
          /\ voteInfo.voteNoSpectators = Cardinality(SpectatorNo)
          /\ ~rtv.isRtvVote => voteInfo.voteYesSpectators
                = Cardinality(SpectatorYes) + One(voteInfo.voter_team = "spectator")
      BY <2>1 DEF StillWithdrawn, TallyInv, TalliesFollowBallots, SpectatorNo, SpectatorYes
    <2>3. voteInfo'.voteYes = Cardinality(InFavour)' /\ voteInfo'.voteNo = Cardinality(NoBallots)'
            /\ voteInfo'.voteNoSpectators = Cardinality(SpectatorNo)'
      BY <2>2, OneBallot DEF FollowsTotals
    <2>4. ~rtv.isRtvVote => voteInfo'.voteYesSpectators
             = Cardinality(SpectatorYes)' + One(voteInfo'.voter_team = "spectator")
      <3>1. Cardinality(SpectatorYes) \in Nat
        BY BallotSets, ClientAssumption, FS_Subset, FS_CardinalityType
      <3>2. Cardinality(SpectatorYes)' =
               Cardinality(SpectatorYes) + One((c \in SpectatorYes)') - One(c \in SpectatorYes)
        BY OneBallot
      <3>3. voteInfo'.voter_team = voteInfo.voter_team
        BY DEF OnlyBallotOf
      <3>4. /\ One((c \in SpectatorYes)') \in Int /\ One(c \in SpectatorYes) \in Int
            /\ One(voteInfo.voter_team = "spectator") \in Int
        BY OneType
      <3>5. ~rtv.isRtvVote => voteInfo'.voteYesSpectators =
               voteInfo.voteYesSpectators + One((c \in SpectatorYes)') - One(c \in SpectatorYes)
        BY DEF FollowsTotals
      <3> QED BY <2>2, <3>1, <3>2, <3>3, <3>4, <3>5
    <2> QED BY <1>1, <2>3, <2>4 DEF TalliesFollowBallots, SpectatorNo, SpectatorYes
  <1>5. MapCountsFollowBallots'
    <2>1. SUFFICES ASSUME rtv.isRtvVote, NEW m \in Map
                   PROVE  /\ rtv'.maps[m].playerCount = Cardinality(PlayersFor(m))'
                          /\ rtv'.maps[m].spectatorCount = Cardinality(SpectatorsFor(m))'
      BY <1>1 DEF MapCountsFollowBallots, PlayersFor, SpectatorsFor
    <2>2. /\ rtv.maps[m].playerCount = Cardinality(PlayersFor(m))
          /\ rtv.maps[m].spectatorCount = Cardinality(SpectatorsFor(m))
      BY <2>1 DEF TallyInv, MapCountsFollowBallots, PlayersFor, SpectatorsFor
    <2> QED BY <2>1, <2>2, OneBallot DEF FollowsMaps
  <1> QED BY <1>3, <1>4, <1>5

\* The totals after ballots were added to them, and what stays.
HasTotals(info, y, ys, n, ns) ==
    /\ info.voteYes = voteInfo.voteYes + y /\ info.voteNo = voteInfo.voteNo + n
    /\ info.voteYesSpectators = voteInfo.voteYesSpectators + ys
    /\ info.voteNoSpectators = voteInfo.voteNoSpectators + ns
    /\ info.open = voteInfo.open /\ info.voter_cn = voteInfo.voter_cn
    /\ info.voter_team = voteInfo.voter_team /\ info.isAutoRtvVote = voteInfo.isAutoRtvVote

\* Tallied adds them, whether or not voteCanceled is lowered too.
LEMMA TalliedTotals ==
    ASSUME VotingTypeOK, NEW STATE y, y \in Int, NEW STATE ys, ys \in Int,
           NEW STATE n, n \in Int, NEW STATE ns, ns \in Int
    PROVE  /\ HasTotals(Tallied(y, ys, n, ns), y, ys, n, ns)
           /\ HasTotals([Tallied(y, ys, n, ns) EXCEPT !.voteCanceled = FALSE], y, ys, n, ns)
  <1>1. voteInfo \in VoteInfo
    BY DEF VotingTypeOK
  <1>2. Tallied(y, ys, n, ns) =
          [voteInfo EXCEPT !.voteYes = voteInfo.voteYes + y,
                           !.voteYesSpectators = voteInfo.voteYesSpectators + ys,
                           !.voteNo = voteInfo.voteNo + n,
                           !.voteNoSpectators = voteInfo.voteNoSpectators + ns]
    BY <1>1 DEF Tallied, VoteInfo
  <1> QED BY <1>1, <1>2 DEF VoteInfo, HasTotals

\* Counted adds them to one map and one team.
LEMMA CountedMaps ==
    ASSUME NEW maps, maps \in [Map -> [playerCount : Int, spectatorCount : Int]],
           NEW m \in Map, NEW s \in BOOLEAN, NEW n \in Int, NEW k \in Map
    PROVE  /\ Counted(maps, m, s, n)[k].playerCount
                 = maps[k].playerCount + (IF k = m /\ ~s THEN n ELSE 0)
           /\ Counted(maps, m, s, n)[k].spectatorCount
                 = maps[k].spectatorCount + (IF k = m /\ s THEN n ELSE 0)
  BY DEF Counted
-----------------------------------------------------------------------------

\* Where the ballot of a client is counted after updateVotingInfo marked it.
LEMMA MarkedBallot ==
    ASSUME VotingTypeOK, NEW c \in Client, NEW isYes \in BOOLEAN, NEW m \in Map,
           c \in Present, connected' = connected, team' = team,
           votingInfo' = Marked(c, isYes, m), voted' \in [Client -> BOOLEAN], voted'[c],
           \A d \in Client \ {c} : voted'[d] = voted[d],
           voteInfo'.open = voteInfo.open, voteInfo'.voter_cn = voteInfo.voter_cn,
           voteInfo'.voter_team = voteInfo.voter_team, rtv'.isRtvVote = rtv.isRtvVote
    PROVE  /\ OnlyBallotOf(c)
           /\ (c \in YesBallots)' <=> isYes
           /\ (c \in CallerVote)' <=> c \in CallerVote
           /\ (c \in NoBallots)' <=> ~isYes /\ c \notin CallerVote
           /\ WasSpectator(c)' <=> IsSpectator(c)
           /\ LastMap(c)' = m
  <1>1. /\ votingInfo'[c].isVotedYes = isYes /\ votingInfo'[c].lastTeamVotedOn = team[c]
        /\ votingInfo'[c].lastRtvMapVoted = m
        /\ \A d \in Client \ {c} : votingInfo'[d] = votingInfo[d]
    BY DEF Marked, VotingTypeOK
  <1>2. Present' = Present
    BY DEF Present
  <1>3. OnlyBallotOf(c)
    BY <1>1, <1>2 DEF OnlyBallotOf
  <1>4. (c \in CallerVote)' <=> c \in CallerVote
    BY DEF CallerVote, IsCaller
  <1> QED BY <1>1, <1>2, <1>3, <1>4 DEF YesBallots, NoBallots, WasSpectator, IsSpectator, LastMap

\* The caller of a vote stays the same and keeps what it has.
LEMMA CallerKept ==
    ASSUME TallyInv, voteInfo'.open => voteInfo.open, voteInfo'.voter_cn = voteInfo.voter_cn,
           voteInfo'.isAutoRtvVote = voteInfo.isAutoRtvVote, rtv'.isRtvVote = rtv.isRtvVote,
           ~rtv.isRtvVote => \A c \in Client : IsCaller(c) =>
              voted'[c] = voted[c] /\ votingInfo'[c] = votingInfo[c]
    PROVE  CallerHasNoBallot' /\ AutoHasNoCaller'
  BY DEF TallyInv, CallerHasNoBallot, AutoHasNoCaller, IsCaller

\* A client's first ballot is added where it is cast.
LEMMA FirstBallotCounts ==
    ASSUME IInv, TallyInv, NEW c \in Client, FirstBallot(c)
    PROVE  TallyInv'
  <1> DEFINE Counts == [Map -> [playerCount : Int, spectatorCount : Int]]
  <1>1. /\ VotingTypeOK /\ voteInfo.open /\ c \in Present /\ ~voted[c]
        /\ connected' = connected /\ team' = team
    BY DEF IInv, FirstBallot, Present
  <1>2. /\ voted' \in [Client -> BOOLEAN] /\ voted'[c] /\ \A d \in Client \ {c} : voted'[d] = voted[d]
        /\ StillWithdrawn
    BY <1>1 DEF FirstBallot, VotingTypeOK, StillWithdrawn
  <1>3. LastMap(c) \in Map /\ rtv.maps \in Counts /\ IsSpectator(c) \in BOOLEAN
    BY <1>1 DEF VotingTypeOK, Ballot, LastMap, IsSpectator
  <1>4. c \notin YesBallots /\ c \notin NoBallots
    BY <1>1 DEF YesBallots, NoBallots
  <1>5. ~rtv.isRtvVote => ~IsCaller(c)
    BY <1>1 DEF TallyInv, CallerHasNoBallot
  <1>6. c \notin CallerVote
    BY <1>5 DEF CallerVote
  <1>7. /\ c \notin InFavour /\ c \notin SpectatorNo /\ c \notin SpectatorYes
        /\ \A m \in Map : c \notin PlayersFor(m) /\ c \notin SpectatorsFor(m)
    BY <1>4, <1>6 DEF InFavour, SpectatorNo, SpectatorYes, PlayersFor, SpectatorsFor, MapBallots
  <1>8. 1 \in Int /\ 0 \in Int /\ One(IsSpectator(c)) \in Int
    BY OneType
  <1>9. PICK isYes \in BOOLEAN, m \in Map :
           /\ votingInfo' = Marked(c, isYes, m)
           /\ voteInfo' = IF isYes
                          THEN [Tallied(1, One(IsSpectator(c)), 0, 0) EXCEPT !.voteCanceled = FALSE]
                          ELSE [Tallied(0, 0, 1, One(IsSpectator(c))) EXCEPT !.voteCanceled = FALSE]
           /\ rtv' = IF isYes /\ rtv.isRtvVote
                     THEN [rtv EXCEPT !.maps = Counted(rtv.maps, m, IsSpectator(c), 1)] ELSE rtv
    BY <1>3 DEF FirstBallot
  <1>10. rtv'.isRtvVote = rtv.isRtvVote
    BY <1>1, <1>9 DEF VotingTypeOK
  <1>11. IF isYes THEN HasTotals(voteInfo', 1, One(IsSpectator(c)), 0, 0)
                  ELSE HasTotals(voteInfo', 0, 0, 1, One(IsSpectator(c)))
    <2>1. CASE isYes
      BY <1>1, <1>8, <1>9, <2>1, TalliedTotals
    <2>2. CASE ~isYes
      BY <1>1, <1>8, <1>9, <2>2, TalliedTotals
    <2> QED BY <2>1, <2>2
  <1>12. /\ OnlyBallotOf(c)
         /\ (c \in YesBallots)' <=> isYes
         /\ ~(c \in CallerVote)'
         /\ (c \in NoBallots)' <=> ~isYes
         /\ WasSpectator(c)' <=> IsSpectator(c)
         /\ LastMap(c)' = m
    <2>1. /\ voteInfo'.open = voteInfo.open /\ voteInfo'.voter_cn = voteInfo.voter_cn
          /\ voteInfo'.voter_team = voteInfo.voter_team
      BY <1>11 DEF HasTotals
    <2> QED BY <1>1, <1>2, <1>6, <1>9, <1>10, <2>1, MarkedBallot
  <1>13. /\ (c \in InFavour)' <=> isYes
         /\ (c \in SpectatorYes)' <=> isYes /\ IsSpectator(c)
         /\ (c \in SpectatorNo)' <=> ~isYes /\ IsSpectator(c)
         /\ \A k \in Map : /\ (c \in PlayersFor(k))' <=> isYes /\ k = m /\ ~IsSpectator(c)
                           /\ (c \in SpectatorsFor(k))' <=> isYes /\ k = m /\ IsSpectator(c)
    BY <1>12 DEF InFavour, SpectatorYes, SpectatorNo, PlayersFor, SpectatorsFor, MapBallots
  <1>14. FollowsTotals(c)
    <2>1. /\ voteInfo.voteYes \in Int /\ voteInfo.voteNo \in Int
          /\ voteInfo.voteYesSpectators \in Int /\ voteInfo.voteNoSpectators \in Int
      BY <1>1 DEF VotingTypeOK, VoteInfo
    <2>2. /\ One(c \in InFavour) = 0 /\ One(c \in NoBallots) = 0
          /\ One(c \in SpectatorYes) = 0 /\ One(c \in SpectatorNo) = 0
      BY <1>4, <1>7 DEF One
    <2>3. CASE isYes
      <3>1. /\ One((c \in InFavour)') = 1 /\ One((c \in NoBallots)') = 0
            /\ One((c \in SpectatorYes)') = One(IsSpectator(c)) /\ One((c \in SpectatorNo)') = 0
        BY <1>12, <1>13, <2>3 DEF One
      <3> QED BY <1>8, <1>11, <2>1, <2>2, <2>3, <3>1 DEF FollowsTotals, HasTotals
    <2>4. CASE ~isYes
      <3>1. /\ One((c \in InFavour)') = 0 /\ One((c \in NoBallots)') = 1
            /\ One((c \in SpectatorYes)') = 0 /\ One((c \in SpectatorNo)') = One(IsSpectator(c))
        BY <1>12, <1>13, <2>4 DEF One
      <3> QED BY <1>8, <1>11, <2>1, <2>2, <2>4, <3>1 DEF FollowsTotals, HasTotals
    <2> QED BY <2>3, <2>4
  <1>15. FollowsMaps(c)
    <2> SUFFICES ASSUME rtv.isRtvVote, NEW k \in Map
                 PROVE  /\ rtv'.maps[k].playerCount = rtv.maps[k].playerCount
                             + One((c \in PlayersFor(k))') - One(c \in PlayersFor(k))
                        /\ rtv'.maps[k].spectatorCount = rtv.maps[k].spectatorCount
                             + One((c \in SpectatorsFor(k))') - One(c \in SpectatorsFor(k))
      BY DEF FollowsMaps
    <2>1. rtv.maps[k].playerCount \in Int /\ rtv.maps[k].spectatorCount \in Int
      BY <1>3
    <2>2. One(c \in PlayersFor(k)) = 0 /\ One(c \in SpectatorsFor(k)) = 0
      BY <1>7 DEF One
    <2>3. CASE isYes
      <3>1. rtv'.maps = Counted(rtv.maps, m, IsSpectator(c), 1)
        BY <1>1, <1>9, <2>3 DEF VotingTypeOK
      <3>2. /\ rtv'.maps[k].playerCount
                  = rtv.maps[k].playerCount + (IF k = m /\ ~IsSpectator(c) THEN 1 ELSE 0)
            /\ rtv'.maps[k].spectatorCount
                  = rtv.maps[k].spectatorCount + (IF k = m /\ IsSpectator(c) THEN 1 ELSE 0)
        <4>1. rtv.maps \in [Map -> [playerCount : Int, spectatorCount : Int]]
          BY <1>3
        <4> QED BY <3>1, <4>1 DEF Counted
      <3>3. /\ One((c \in PlayersFor(k))') = IF k = m /\ ~IsSpectator(c) THEN 1 ELSE 0
            /\ One((c \in SpectatorsFor(k))') = IF k = m /\ IsSpectator(c) THEN 1 ELSE 0
        BY <1>13, <2>3 DEF One
      <3> QED BY <2>1, <2>2, <3>2, <3>3
    <2>4. CASE ~isYes
      <3>1. rtv' = rtv
        BY <1>9, <2>4
      <3>2. One((c \in PlayersFor(k))') = 0 /\ One((c \in SpectatorsFor(k))') = 0
        BY <1>13, <2>4 DEF One
      <3> QED BY <2>1, <2>2, <3>1, <3>2
    <2> QED BY <2>3, <2>4
  <1>16. CallerHasNoBallot' /\ AutoHasNoCaller'
    <2>1. ~rtv.isRtvVote => \A d \in Client : IsCaller(d) =>
             voted'[d] = voted[d] /\ votingInfo'[d] = votingInfo[d]
      BY <1>5, <1>12 DEF OnlyBallotOf
    <2>2. /\ voteInfo'.open = voteInfo.open /\ voteInfo'.voter_cn = voteInfo.voter_cn
          /\ voteInfo'.isAutoRtvVote = voteInfo.isAutoRtvVote
      BY <1>11 DEF HasTotals
    <2> QED BY <1>10, <2>1, <2>2, CallerKept
  <1> QED BY <1>1, <1>2, <1>12, <1>14, <1>15, <1>16, Recount DEF TallyInv

\* A ballot that is changed moves from where it was counted to where it is now.
LEMMA RevoteCounts ==
    ASSUME IInv, TallyInv, NEW c \in Client,
           RevoteYes(c) \/ RevoteNo(c) \/ \E m \in Map : RevoteRtv(c, m)
    PROVE  TallyInv'
  <1> DEFINE Counts == [Map -> [playerCount : Int, spectatorCount : Int]]
  <1>1. /\ VotingTypeOK /\ voteInfo.open /\ c \in Present /\ voted[c]
        /\ connected' = connected /\ team' = team /\ voted' = voted
        /\ rtv.isRtvVote \/ ~IsCaller(c)
    BY DEF IInv, RevoteYes, RevoteNo, RevoteRtv, MayRevote, Present
  <1>2. /\ voted' \in [Client -> BOOLEAN] /\ voted'[c] /\ \A d \in Client \ {c} : voted'[d] = voted[d]
        /\ StillWithdrawn
    BY <1>1 DEF RevoteYes, RevoteNo, RevoteRtv, VotingTypeOK, StillWithdrawn
  <1>3. /\ LastMap(c) \in Map /\ rtv.maps \in Counts
        /\ IsSpectator(c) \in BOOLEAN /\ WasSpectator(c) \in BOOLEAN
        /\ votingInfo[c].isVotedYes \in BOOLEAN
    BY <1>1 DEF VotingTypeOK, Ballot, LastMap, IsSpectator, WasSpectator
  <1>4. /\ voteInfo.voteYes \in Int /\ voteInfo.voteNo \in Int
        /\ voteInfo.voteYesSpectators \in Int /\ voteInfo.voteNoSpectators \in Int
    BY <1>1 DEF VotingTypeOK, VoteInfo
  <1>5. c \notin CallerVote
    BY <1>1 DEF CallerVote
  <1>6. /\ c \in YesBallots <=> votingInfo[c].isVotedYes
        /\ c \in NoBallots <=> ~votingInfo[c].isVotedYes
    BY <1>1, <1>5 DEF YesBallots, NoBallots
  <1>7. /\ c \in InFavour <=> votingInfo[c].isVotedYes
        /\ c \in SpectatorYes <=> votingInfo[c].isVotedYes /\ WasSpectator(c)
        /\ c \in SpectatorNo <=> ~votingInfo[c].isVotedYes /\ WasSpectator(c)
        /\ \A k \in Map :
              /\ c \in PlayersFor(k) <=> votingInfo[c].isVotedYes /\ k = LastMap(c) /\ ~WasSpectator(c)
              /\ c \in SpectatorsFor(k) <=> votingInfo[c].isVotedYes /\ k = LastMap(c) /\ WasSpectator(c)
    BY <1>5, <1>6 DEF InFavour, SpectatorYes, SpectatorNo, PlayersFor, SpectatorsFor, MapBallots
  <1>8. /\ 1 \in Int /\ 0 \in Int /\ -1 \in Int /\ One(IsSpectator(c)) \in Int
        /\ One(WasSpectator(c)) \in Int /\ -One(WasSpectator(c)) \in Int
    BY OneType
  <1>9. ASSUME NEW isYes \in BOOLEAN, NEW m \in Map, votingInfo' = Marked(c, isYes, m),
               voteInfo'.open = voteInfo.open, voteInfo'.voter_cn = voteInfo.voter_cn,
               voteInfo'.voter_team = voteInfo.voter_team,
               voteInfo'.isAutoRtvVote = voteInfo.isAutoRtvVote, rtv'.isRtvVote = rtv.isRtvVote
        PROVE  /\ OnlyBallotOf(c) /\ CallerHasNoBallot' /\ AutoHasNoCaller'
               /\ (c \in InFavour)' <=> isYes
               /\ (c \in NoBallots)' <=> ~isYes
               /\ (c \in SpectatorYes)' <=> isYes /\ IsSpectator(c)
               /\ (c \in SpectatorNo)' <=> ~isYes /\ IsSpectator(c)
               /\ \A k \in Map : /\ (c \in PlayersFor(k))' <=> isYes /\ k = m /\ ~IsSpectator(c)
                                 /\ (c \in SpectatorsFor(k))' <=> isYes /\ k = m /\ IsSpectator(c)
    <2>1. /\ OnlyBallotOf(c)
          /\ (c \in YesBallots)' <=> isYes
          /\ ~(c \in CallerVote)'
          /\ (c \in NoBallots)' <=> ~isYes
          /\ WasSpectator(c)' <=> IsSpectator(c)
          /\ LastMap(c)' = m
      BY <1>1, <1>2, <1>5, <1>9, MarkedBallot
    <2>2. ~rtv.isRtvVote => \A d \in Client : IsCaller(d) =>
             voted'[d] = voted[d] /\ votingInfo'[d] = votingInfo[d]
      BY <1>1, <2>1 DEF OnlyBallotOf
    <2>3. CallerHasNoBallot' /\ AutoHasNoCaller'
      BY <1>9, <2>2, CallerKept
    <2> QED BY <2>1, <2>3 DEF InFavour, SpectatorYes, SpectatorNo, PlayersFor, SpectatorsFor, MapBallots
  <1>10. CASE RevoteYes(c)
    <2>1. /\ ~rtv.isRtvVote /\ ~votingInfo[c].isVotedYes /\ rtv' = rtv
          /\ voteInfo' = Tallied(1, One(IsSpectator(c)), -1, -One(WasSpectator(c)))
          /\ votingInfo' = Marked(c, TRUE, LastMap(c))
      BY <1>10 DEF RevoteYes
    <2>2. HasTotals(voteInfo', 1, One(IsSpectator(c)), -1, -One(WasSpectator(c)))
      BY <1>1, <1>8, <2>1, TalliedTotals
    <2>3. /\ OnlyBallotOf(c) /\ CallerHasNoBallot' /\ AutoHasNoCaller'
          /\ (c \in InFavour)' /\ ~(c \in NoBallots)'
          /\ (c \in SpectatorYes)' <=> IsSpectator(c)
          /\ ~(c \in SpectatorNo)'
      BY <1>3, <1>9, <2>1, <2>2 DEF HasTotals
    <2>4. /\ One((c \in InFavour)') = 1 /\ One((c \in NoBallots)') = 0
          /\ One((c \in SpectatorYes)') = One(IsSpectator(c)) /\ One((c \in SpectatorNo)') = 0
          /\ One(c \in InFavour) = 0 /\ One(c \in NoBallots) = 1
          /\ One(c \in SpectatorYes) = 0 /\ One(c \in SpectatorNo) = One(WasSpectator(c))
      BY <1>6, <1>7, <2>1, <2>3 DEF One
    <2>5. FollowsTotals(c)
      BY <1>4, <1>8, <2>2, <2>4 DEF FollowsTotals, HasTotals
    <2>6. FollowsMaps(c)
      BY <2>1 DEF FollowsMaps
    <2> QED BY <1>1, <1>2, <2>3, <2>5, <2>6, Recount DEF TallyInv
  <1>11. CASE RevoteNo(c)
    <2>1. /\ votingInfo[c].isVotedYes
          /\ voteInfo' = Tallied(-1, -One(WasSpectator(c)), 1, One(IsSpectator(c)))
          /\ votingInfo' = Marked(c, FALSE, LastMap(c))
          /\ rtv' = IF rtv.isRtvVote THEN [rtv EXCEPT !.maps = WithoutLastMap(c)] ELSE rtv
      BY <1>11 DEF RevoteNo
    <2>2. HasTotals(voteInfo', -1, -One(WasSpectator(c)), 1, One(IsSpectator(c)))
      BY <1>1, <1>8, <2>1, TalliedTotals
    <2>3. rtv'.isRtvVote = rtv.isRtvVote /\ (rtv.isRtvVote => rtv'.maps = WithoutLastMap(c))
      BY <1>1, <2>1 DEF VotingTypeOK
    <2>4. /\ OnlyBallotOf(c) /\ CallerHasNoBallot' /\ AutoHasNoCaller'
          /\ ~(c \in InFavour)' /\ (c \in NoBallots)'
          /\ ~(c \in SpectatorYes)'
          /\ (c \in SpectatorNo)' <=> IsSpectator(c)
          /\ \A k \in Map : ~(c \in PlayersFor(k))' /\ ~(c \in SpectatorsFor(k))'
      BY <1>3, <1>9, <2>1, <2>2, <2>3 DEF HasTotals
    <2>5. /\ One((c \in InFavour)') = 0 /\ One((c \in NoBallots)') = 1
          /\ One((c \in SpectatorYes)') = 0 /\ One((c \in SpectatorNo)') = One(IsSpectator(c))
          /\ One(c \in InFavour) = 1 /\ One(c \in NoBallots) = 0
          /\ One(c \in SpectatorYes) = One(WasSpectator(c)) /\ One(c \in SpectatorNo) = 0
      BY <1>6, <1>7, <2>1, <2>4 DEF One
    <2>6. FollowsTotals(c)
      BY <1>4, <1>8, <2>2, <2>5 DEF FollowsTotals, HasTotals
    <2>7. ASSUME rtv.isRtvVote, NEW k \in Map
          PROVE  /\ rtv'.maps[k].playerCount = rtv.maps[k].playerCount
                      + One((c \in PlayersFor(k))') - One(c \in PlayersFor(k))
                 /\ rtv'.maps[k].spectatorCount = rtv.maps[k].spectatorCount
                      + One((c \in SpectatorsFor(k))') - One(c \in SpectatorsFor(k))
      <3>1. /\ rtv'.maps[k].playerCount = rtv.maps[k].playerCount
                  + (IF k = LastMap(c) /\ ~WasSpectator(c) THEN -1 ELSE 0)
            /\ rtv'.maps[k].spectatorCount = rtv.maps[k].spectatorCount
                  + (IF k = LastMap(c) /\ WasSpectator(c) THEN -1 ELSE 0)
        BY <1>3, <1>8, <2>3, <2>7, CountedMaps DEF WithoutLastMap
      <3>2. /\ One(c \in PlayersFor(k)) = IF k = LastMap(c) /\ ~WasSpectator(c) THEN 1 ELSE 0
            /\ One(c \in SpectatorsFor(k)) = IF k = LastMap(c) /\ WasSpectator(c) THEN 1 ELSE 0
            /\ One((c \in PlayersFor(k))') = 0 /\ One((c \in SpectatorsFor(k))') = 0
        BY <1>7, <2>1, <2>4 DEF One
      <3>3. rtv.maps[k].playerCount \in Int /\ rtv.maps[k].spectatorCount \in Int
        BY <1>3
      <3> QED BY <3>1, <3>2, <3>3
    <2>8. FollowsMaps(c)
      BY <2>7 DEF FollowsMaps
    <2> QED BY <1>1, <1>2, <2>4, <2>6, <2>8, Recount DEF TallyInv
  <1>12. ASSUME NEW m \in Map, RevoteRtv(c, m)
         PROVE  TallyInv'
    <2>1. /\ rtv.isRtvVote /\ LastMap(c) # m /\ votingInfo' = Marked(c, TRUE, m)
          /\ \/ /\ votingInfo[c].isVotedYes /\ voteInfo' = voteInfo
                /\ rtv' = [rtv EXCEPT !.maps = Counted(WithoutLastMap(c), m, IsSpectator(c), 1)]
             \/ /\ ~votingInfo[c].isVotedYes
                /\ rtv' = [rtv EXCEPT !.maps = Counted(rtv.maps, m, IsSpectator(c), 1)]
                /\ voteInfo' = Tallied(1, One(IsSpectator(c)), -1, -One(WasSpectator(c)))
      BY <1>12 DEF RevoteRtv
    <2>2. rtv'.isRtvVote = rtv.isRtvVote
      BY <1>1, <2>1 DEF VotingTypeOK
    <2>3. /\ votingInfo[c].isVotedYes => voteInfo' = voteInfo
          /\ ~votingInfo[c].isVotedYes =>
                HasTotals(voteInfo', 1, One(IsSpectator(c)), -1, -One(WasSpectator(c)))
      <3>1. HasTotals(Tallied(1, One(IsSpectator(c)), -1, -One(WasSpectator(c))),
                      1, One(IsSpectator(c)), -1, -One(WasSpectator(c)))
        BY <1>1, <1>8, TalliedTotals
      <3>2. /\ votingInfo[c].isVotedYes => voteInfo' = voteInfo
            /\ ~votingInfo[c].isVotedYes =>
                  voteInfo' = Tallied(1, One(IsSpectator(c)), -1, -One(WasSpectator(c)))
        BY <2>1
      <3> QED BY <3>1, <3>2
    <2>4. /\ voteInfo'.open = voteInfo.open /\ voteInfo'.voter_cn = voteInfo.voter_cn
          /\ voteInfo'.voter_team = voteInfo.voter_team
          /\ voteInfo'.isAutoRtvVote = voteInfo.isAutoRtvVote
      BY <1>3, <2>3 DEF HasTotals
    <2>5. /\ OnlyBallotOf(c) /\ CallerHasNoBallot' /\ AutoHasNoCaller'
          /\ (c \in InFavour)' /\ ~(c \in NoBallots)' /\ ~(c \in SpectatorNo)'
          /\ \A k \in Map : /\ (c \in PlayersFor(k))' <=> k = m /\ ~IsSpectator(c)
                            /\ (c \in SpectatorsFor(k))' <=> k = m /\ IsSpectator(c)
      BY <1>9, <2>1, <2>2, <2>4
    <2>6. FollowsTotals(c)
      <3>1. CASE votingInfo[c].isVotedYes
        <4>1. /\ One((c \in InFavour)') = 1 /\ One(c \in InFavour) = 1
              /\ One((c \in NoBallots)') = 0 /\ One(c \in NoBallots) = 0
              /\ One((c \in SpectatorNo)') = 0 /\ One(c \in SpectatorNo) = 0
          BY <1>6, <1>7, <2>5, <3>1 DEF One
        <4> QED BY <1>4, <2>1, <2>3, <3>1, <4>1 DEF FollowsTotals
      <3>2. CASE ~votingInfo[c].isVotedYes
        <4>1. /\ One((c \in InFavour)') = 1 /\ One(c \in InFavour) = 0
              /\ One((c \in NoBallots)') = 0 /\ One(c \in NoBallots) = 1
              /\ One((c \in SpectatorNo)') = 0 /\ One(c \in SpectatorNo) = One(WasSpectator(c))
          BY <1>6, <1>7, <2>5, <3>2 DEF One
        <4> QED BY <1>4, <1>8, <2>1, <2>3, <3>2, <4>1 DEF FollowsTotals, HasTotals
      <3> QED BY <3>1, <3>2
    <2>7. ASSUME NEW k \in Map
          PROVE  /\ rtv'.maps[k].playerCount = rtv.maps[k].playerCount
                      + One((c \in PlayersFor(k))') - One(c \in PlayersFor(k))
                 /\ rtv'.maps[k].spectatorCount = rtv.maps[k].spectatorCount
                      + One((c \in SpectatorsFor(k))') - One(c \in SpectatorsFor(k))
      <3>1. rtv.maps[k].playerCount \in Int /\ rtv.maps[k].spectatorCount \in Int
        BY <1>3
      <3>2. /\ One((c \in PlayersFor(k))') = IF k = m /\ ~IsSpectator(c) THEN 1 ELSE 0
            /\ One((c \in SpectatorsFor(k))') = IF k = m /\ IsSpectator(c) THEN 1 ELSE 0
        BY <2>5 DEF One
      <3>3. CASE votingInfo[c].isVotedYes
        <4>1. WithoutLastMap(c) \in Counts
          BY <1>3, <1>8, CountedType DEF WithoutLastMap
        <4>2. /\ WithoutLastMap(c)[k].playerCount = rtv.maps[k].playerCount
                    + (IF k = LastMap(c) /\ ~WasSpectator(c) THEN -1 ELSE 0)
              /\ WithoutLastMap(c)[k].spectatorCount = rtv.maps[k].spectatorCount
                    + (IF k = LastMap(c) /\ WasSpectator(c) THEN -1 ELSE 0)
          <5>1. LastMap(c) \in Map /\ rtv.maps \in [Map -> [playerCount : Int, spectatorCount : Int]]
            BY <1>3
          <5> QED BY <5>1 DEF WithoutLastMap, Counted
        <4>3. rtv'.maps = Counted(WithoutLastMap(c), m, IsSpectator(c), 1)
          BY <1>1, <2>1, <3>3 DEF VotingTypeOK
        <4>4. /\ rtv'.maps[k].playerCount = WithoutLastMap(c)[k].playerCount
                    + (IF k = m /\ ~IsSpectator(c) THEN 1 ELSE 0)
              /\ rtv'.maps[k].spectatorCount = WithoutLastMap(c)[k].spectatorCount
                    + (IF k = m /\ IsSpectator(c) THEN 1 ELSE 0)
          BY <1>3, <1>8, <4>1, <4>3, CountedMaps
        <4>5. /\ One(c \in PlayersFor(k)) = IF k = LastMap(c) /\ ~WasSpectator(c) THEN 1 ELSE 0
              /\ One(c \in SpectatorsFor(k)) = IF k = LastMap(c) /\ WasSpectator(c) THEN 1 ELSE 0
          BY <1>7, <3>3 DEF One
        <4> HIDE DEF Counts
        <4> QED BY <3>1, <3>2, <4>2, <4>4, <4>5
      <3>4. CASE ~votingInfo[c].isVotedYes
        <4>1. rtv'.maps = Counted(rtv.maps, m, IsSpectator(c), 1)
          BY <1>1, <2>1, <3>4 DEF VotingTypeOK
        <4>2. /\ rtv'.maps[k].playerCount = rtv.maps[k].playerCount
                    + (IF k = m /\ ~IsSpectator(c) THEN 1 ELSE 0)
              /\ rtv'.maps[k].spectatorCount = rtv.maps[k].spectatorCount
                    + (IF k = m /\ IsSpectator(c) THEN 1 ELSE 0)
          BY <1>3, <1>8, <4>1, CountedMaps
        <4>3. One(c \in PlayersFor(k)) = 0 /\ One(c \in SpectatorsFor(k)) = 0
          BY <1>7, <3>4 DEF One
        <4> QED BY <3>1, <3>2, <4>2, <4>3
      <3> QED BY <1>3, <3>3, <3>4
    <2>8. FollowsMaps(c)
      BY <2>7 DEF FollowsMaps
    <2> QED BY <1>1, <1>2, <2>5, <2>6, <2>8, Recount DEF TallyInv
  <1> QED BY <1>10, <1>11, <1>12

\* The ballot of a client that leaves is taken out, unless its vote is over with it.
LEMMA DisconnectCounts ==
    ASSUME IInv, TallyInv, NEW c \in Client, Disconnect(c)
    PROVE  TallyInv'
  <1> DEFINE Counts == [Map -> [playerCount : Int, spectatorCount : Int]]
  <1>1. VotingTypeOK /\ c \in Present
    BY DEF IInv, Disconnect, Present
  <1>2. CASE voteInfo.open /\ IsCaller(c)
    <2>1. ~voteInfo'.open
      <3>1. ResetVote(AllAgainst(NumConnectedClients - 1), Present \ {c})
        BY <1>2 DEF Disconnect
      <3>2. AllAgainst(NumConnectedClients - 1) \in VoteInfo /\ Present \ {c} \subseteq Client
        BY <1>1, ConnectedCount, AllAgainstType DEF Present
      <3> QED BY <1>1, <3>1, <3>2, ResetIsClean
    <2> QED BY <2>1 DEF TallyInv, CallerHasNoBallot, AutoHasNoCaller, YesIsBallots,
                        TalliesFollowBallots, MapCountsFollowBallots
  <1>3. CASE ~voteInfo.open
    <2>1. voteInfo' = voteInfo
      BY <1>3 DEF Disconnect
    <2> QED BY <1>3, <2>1 DEF TallyInv, CallerHasNoBallot, AutoHasNoCaller, YesIsBallots,
                        TalliesFollowBallots, MapCountsFollowBallots
  <1>4. CASE voteInfo.open /\ ~IsCaller(c)
    <2>1. /\ voted' = voted /\ votingInfo' = votingInfo /\ history' = history
          /\ Present' = Present \ {c} /\ StillWithdrawn
      BY <1>1, <1>4 DEF Disconnect, Present, VotingTypeOK, StillWithdrawn
    <2>2. /\ LastMap(c) \in Map /\ rtv.maps \in Counts /\ WasSpectator(c) \in BOOLEAN
          /\ votingInfo[c].isVotedYes \in BOOLEAN /\ voted[c] \in BOOLEAN
      BY <1>1 DEF VotingTypeOK, Ballot, LastMap, WasSpectator
    <2>3. /\ voteInfo.voteYes \in Int /\ voteInfo.voteNo \in Int
          /\ voteInfo.voteYesSpectators \in Int /\ voteInfo.voteNoSpectators \in Int
      BY <1>1 DEF VotingTypeOK, VoteInfo
    <2>4. c \notin CallerVote
      BY <1>4 DEF CallerVote
    <2>5. /\ c \in InFavour <=> voted[c] /\ votingInfo[c].isVotedYes
          /\ c \in NoBallots <=> voted[c] /\ ~votingInfo[c].isVotedYes
          /\ c \in SpectatorYes <=> voted[c] /\ votingInfo[c].isVotedYes /\ WasSpectator(c)
          /\ c \in SpectatorNo <=> voted[c] /\ ~votingInfo[c].isVotedYes /\ WasSpectator(c)
          /\ \A k \in Map :
                /\ c \in PlayersFor(k) <=>
                      voted[c] /\ votingInfo[c].isVotedYes /\ k = LastMap(c) /\ ~WasSpectator(c)
                /\ c \in SpectatorsFor(k) <=>
                      voted[c] /\ votingInfo[c].isVotedYes /\ k = LastMap(c) /\ WasSpectator(c)
      BY <1>1, <2>4 DEF YesBallots, NoBallots, InFavour, SpectatorYes, SpectatorNo,
                        PlayersFor, SpectatorsFor, MapBallots
    <2>6. 1 \in Int /\ 0 \in Int /\ -1 \in Int /\ One(WasSpectator(c)) \in Int
             /\ -One(WasSpectator(c)) \in Int
      BY OneType
    <2>7. /\ voted[c] /\ votingInfo[c].isVotedYes =>
                HasTotals(voteInfo', -1, -One(WasSpectator(c)), 0, 0)
          /\ voted[c] /\ ~votingInfo[c].isVotedYes =>
                HasTotals(voteInfo', 0, 0, -1, -One(WasSpectator(c)))
          /\ ~voted[c] => voteInfo' = voteInfo
      <3>1. HasTotals(Tallied(-1, -One(WasSpectator(c)), 0, 0), -1, -One(WasSpectator(c)), 0, 0)
        BY <1>1, <2>6, TalliedTotals
      <3>2. HasTotals(Tallied(0, 0, -1, -One(WasSpectator(c))), 0, 0, -1, -One(WasSpectator(c)))
        BY <1>1, <2>6, TalliedTotals
      <3>3. /\ voted[c] /\ votingInfo[c].isVotedYes =>
                  voteInfo' = Tallied(-1, -One(WasSpectator(c)), 0, 0)
            /\ voted[c] /\ ~votingInfo[c].isVotedYes =>
                  voteInfo' = Tallied(0, 0, -1, -One(WasSpectator(c)))
            /\ ~voted[c] => voteInfo' = voteInfo
        BY <1>4 DEF Disconnect
      <3> QED BY <3>1, <3>2, <3>3
    <2>8. /\ voteInfo'.open = voteInfo.open /\ voteInfo'.voter_cn = voteInfo.voter_cn
          /\ voteInfo'.voter_team = voteInfo.voter_team
          /\ voteInfo'.isAutoRtvVote = voteInfo.isAutoRtvVote
      BY <2>2, <2>7 DEF HasTotals
    <2>9. /\ rtv'.isRtvVote = rtv.isRtvVote
          /\ rtv.isRtvVote => rtv'.maps = IF voted[c] /\ votingInfo[c].isVotedYes
                                          THEN WithoutLastMap(c) ELSE rtv.maps
      BY <1>1, <1>4 DEF Disconnect, VotingTypeOK
    <2>10. OnlyBallotOf(c)
      BY <2>1, <2>8, <2>9 DEF OnlyBallotOf
    <2>11. ~(c \in CallerVote)'
      BY <1>4, <2>8 DEF CallerVote, IsCaller
    <2>12. /\ ~(c \in InFavour)' /\ ~(c \in NoBallots)' /\ ~(c \in SpectatorYes)'
           /\ ~(c \in SpectatorNo)'
           /\ \A k \in Map : ~(c \in PlayersFor(k))' /\ ~(c \in SpectatorsFor(k))'
      BY <2>1, <2>11 DEF YesBallots, NoBallots, InFavour, SpectatorYes, SpectatorNo,
                         PlayersFor, SpectatorsFor, MapBallots
    <2>13. FollowsTotals(c)
      <3>1. /\ One((c \in InFavour)') = 0 /\ One((c \in NoBallots)') = 0
            /\ One((c \in SpectatorYes)') = 0 /\ One((c \in SpectatorNo)') = 0
        BY <2>12 DEF One
      <3>2. CASE voted[c] /\ votingInfo[c].isVotedYes
        <4>1. /\ One(c \in InFavour) = 1 /\ One(c \in NoBallots) = 0
              /\ One(c \in SpectatorYes) = One(WasSpectator(c)) /\ One(c \in SpectatorNo) = 0
          BY <2>5, <3>2 DEF One
        <4> QED BY <2>3, <2>6, <2>7, <3>1, <3>2, <4>1 DEF FollowsTotals, HasTotals
      <3>3. CASE voted[c] /\ ~votingInfo[c].isVotedYes
        <4>1. /\ One(c \in InFavour) = 0 /\ One(c \in NoBallots) = 1
              /\ One(c \in SpectatorYes) = 0 /\ One(c \in SpectatorNo) = One(WasSpectator(c))
          BY <2>5, <3>3 DEF One
        <4> QED BY <2>3, <2>6, <2>7, <3>1, <3>3, <4>1 DEF FollowsTotals, HasTotals
      <3>4. CASE ~voted[c]
        <4>1. /\ One(c \in InFavour) = 0 /\ One(c \in NoBallots) = 0
              /\ One(c \in SpectatorYes) = 0 /\ One(c \in SpectatorNo) = 0
          BY <2>5, <3>4 DEF One
        <4> QED BY <2>3, <2>7, <3>1, <3>4, <4>1 DEF FollowsTotals
      <3> QED BY <2>2, <3>2, <3>3, <3>4
    <2>14. ASSUME rtv.isRtvVote, NEW k \in Map
           PROVE  /\ rtv'.maps[k].playerCount = rtv.maps[k].playerCount
                       + One((c \in PlayersFor(k))') - One(c \in PlayersFor(k))
                  /\ rtv'.maps[k].spectatorCount = rtv.maps[k].spectatorCount
                       + One((c \in SpectatorsFor(k))') - One(c \in SpectatorsFor(k))
      <3>1. rtv.maps[k].playerCount \in Int /\ rtv.maps[k].spectatorCount \in Int
        BY <2>2
      <3>2. One((c \in PlayersFor(k))') = 0 /\ One((c \in SpectatorsFor(k))') = 0
        BY <2>12 DEF One
      <3>3. CASE voted[c] /\ votingInfo[c].isVotedYes
        <4>1. WithoutLastMap(c) = Counted(rtv.maps, LastMap(c), WasSpectator(c), -1)
          BY DEF WithoutLastMap
        <4>2. /\ rtv'.maps[k].playerCount = rtv.maps[k].playerCount
                    + (IF k = LastMap(c) /\ ~WasSpectator(c) THEN -1 ELSE 0)
              /\ rtv'.maps[k].spectatorCount = rtv.maps[k].spectatorCount
                    + (IF k = LastMap(c) /\ WasSpectator(c) THEN -1 ELSE 0)
          <5>1. rtv'.maps = Counted(rtv.maps, LastMap(c), WasSpectator(c), -1)
            BY <2>9, <2>14, <3>3, <4>1
          <5> QED BY <2>2, <2>6, <5>1, CountedMaps
        <4>3. /\ One(c \in PlayersFor(k)) = IF k = LastMap(c) /\ ~WasSpectator(c) THEN 1 ELSE 0
              /\ One(c \in SpectatorsFor(k)) = IF k = LastMap(c) /\ WasSpectator(c) THEN 1 ELSE 0
          BY <2>5, <3>3 DEF One
        <4> QED BY <3>1, <3>2, <4>2, <4>3
      <3>4. CASE ~(voted[c] /\ votingInfo[c].isVotedYes)
        <4>1. rtv'.maps = rtv.maps
          BY <2>9, <2>14, <3>4
        <4>2. One(c \in PlayersFor(k)) = 0 /\ One(c \in SpectatorsFor(k)) = 0
          BY <2>5, <3>4 DEF One
        <4> QED BY <3>1, <3>2, <4>1, <4>2
      <3> QED BY <3>3, <3>4
    <2>15. FollowsMaps(c)
      BY <2>14 DEF FollowsMaps
    <2>16. CallerHasNoBallot' /\ AutoHasNoCaller'
      BY <2>1, <2>8, <2>9, CallerKept
    <2> QED BY <1>1, <1>4, <2>1, <2>10, <2>13, <2>15, <2>16, Recount DEF TallyInv
  <1> QED BY <1>2, <1>3, <1>4

\* When no vote is open there is nothing to count.
LEMMA EndedCounts ==
    ASSUME ~voteInfo'.open
    PROVE  TallyInv'
  BY DEF TallyInv, CallerHasNoBallot, AutoHasNoCaller, YesIsBallots,
         TalliesFollowBallots, MapCountsFollowBallots

\* A step that moves no ballot and no count changes nothing.
LEMMA NothingCounted ==
    ASSUME TallyInv, Present' = Present, voted' = voted, votingInfo' = votingInfo, rtv' = rtv,
           voteInfo'.open = voteInfo.open, voteInfo'.voteYes = voteInfo.voteYes,
           voteInfo'.voteYesSpectators = voteInfo.voteYesSpectators,
           voteInfo'.voteNo = voteInfo.voteNo, voteInfo'.voteNoSpectators = voteInfo.voteNoSpectators,
           voteInfo'.voter_cn = voteInfo.voter_cn, voteInfo'.voter_team = voteInfo.voter_team,
           voteInfo'.isAutoRtvVote = voteInfo.isAutoRtvVote, StillWithdrawn
    PROVE  TallyInv'
  <1>1. CallerVote' = CallerVote /\ YesBallots' = YesBallots
    BY DEF CallerVote, IsCaller, YesBallots
  <1>2. InFavour' = InFavour /\ NoBallots' = NoBallots
    BY <1>1 DEF InFavour, NoBallots
  <1>3. SpectatorYes' = SpectatorYes /\ SpectatorNo' = SpectatorNo
    BY <1>1, <1>2 DEF SpectatorYes, SpectatorNo, WasSpectator
  <1>4. \A m \in Map : PlayersFor(m)' = PlayersFor(m) /\ SpectatorsFor(m)' = SpectatorsFor(m)
    BY <1>1 DEF PlayersFor, SpectatorsFor, MapBallots, LastMap, WasSpectator
  <1>5. CallerHasNoBallot' /\ AutoHasNoCaller'
    BY CallerKept
  <1>6. YesIsBallots'
    BY <1>2 DEF TallyInv, YesIsBallots
  <1>7. TalliesFollowBallots'
    BY <1>2, <1>3 DEF TallyInv, TalliesFollowBallots, SpectatorYes, SpectatorNo, StillWithdrawn
  <1>8. MapCountsFollowBallots'
    BY <1>4 DEF TallyInv, MapCountsFollowBallots, PlayersFor, SpectatorsFor
  <1> QED BY <1>5, <1>6, <1>7, <1>8 DEF TallyInv

\* A client that connects has no ballot, whatever EF_VOTED its slot was left with.
LEMMA ConnectCounts ==
    ASSUME IInv, TallyInv, NEW c \in Client, Connect(c)
    PROVE  TallyInv'
  <1>1. /\ VotingTypeOK /\ c \notin Present /\ voteInfo' = voteInfo /\ rtv' = rtv
        /\ history' = history /\ ~voted'[c]
        /\ \A d \in Client \ {c} : /\ voted'[d] = voted[d] /\ votingInfo'[d] = votingInfo[d]
                                   /\ (d \in Present)' = (d \in Present)
    <2>1. /\ VotingTypeOK /\ c \notin Present /\ voteInfo' = voteInfo /\ rtv' = rtv
          /\ history' = history
      BY DEF IInv, Connect, Present
    <2>2. /\ voted' = [voted EXCEPT ![c] = FALSE] /\ votingInfo' = [votingInfo EXCEPT ![c] = NoBallot]
          /\ connected' = [connected EXCEPT ![c] = "connecting"]
      BY DEF Connect
    <2>3. ~voted'[c] /\ \A d \in Client \ {c} : voted'[d] = voted[d] /\ votingInfo'[d] = votingInfo[d]
      BY <2>1, <2>2 DEF VotingTypeOK
    <2>4. \A d \in Client \ {c} : (d \in Present)' = (d \in Present)
      <3>1. \A d \in Client \ {c} : connected'[d] = connected[d]
        BY <2>1, <2>2 DEF VotingTypeOK
      <3> QED BY <3>1 DEF Present
    <2> QED BY <2>1, <2>3, <2>4
  <1>2. CASE ~voteInfo.open
    BY <1>1, <1>2, EndedCounts
  <1>3. CASE voteInfo.open
    <2>1. ~IsCaller(c)
      <3>1. CASE voteInfo.isAutoRtvVote
        BY <1>3, <3>1, ClientAssumption DEF TallyInv, AutoHasNoCaller, IsCaller
      <3>2. CASE ~voteInfo.isAutoRtvVote
        BY <1>3, <3>2 DEF IInv, CallerIsPresent, IsCaller, Connect
      <3> QED BY <3>1, <3>2
    <2>2. c \notin CallerVote /\ ~(c \in CallerVote)'
      BY <1>1, <2>1 DEF CallerVote, IsCaller
    <2>3. /\ c \notin InFavour /\ c \notin NoBallots /\ c \notin SpectatorYes /\ c \notin SpectatorNo
          /\ \A m \in Map : c \notin PlayersFor(m) /\ c \notin SpectatorsFor(m)
      BY <1>1, <2>2 DEF YesBallots, NoBallots, InFavour, SpectatorYes, SpectatorNo,
                        PlayersFor, SpectatorsFor, MapBallots
    <2>4. /\ ~(c \in InFavour)' /\ ~(c \in NoBallots)' /\ ~(c \in SpectatorYes)'
          /\ ~(c \in SpectatorNo)'
          /\ \A m \in Map : ~(c \in PlayersFor(m))' /\ ~(c \in SpectatorsFor(m))'
      BY <1>1, <2>2 DEF YesBallots, NoBallots, InFavour, SpectatorYes, SpectatorNo,
                        PlayersFor, SpectatorsFor, MapBallots
    <2>5. OnlyBallotOf(c)
      BY <1>1 DEF OnlyBallotOf
    <2>6. /\ One(c \in InFavour) = 0 /\ One((c \in InFavour)') = 0
          /\ One(c \in NoBallots) = 0 /\ One((c \in NoBallots)') = 0
          /\ One(c \in SpectatorYes) = 0 /\ One((c \in SpectatorYes)') = 0
          /\ One(c \in SpectatorNo) = 0 /\ One((c \in SpectatorNo)') = 0
          /\ \A m \in Map : /\ One(c \in PlayersFor(m)) = 0 /\ One((c \in PlayersFor(m))') = 0
                            /\ One(c \in SpectatorsFor(m)) = 0
                            /\ One((c \in SpectatorsFor(m))') = 0
      BY <2>3, <2>4 DEF One
    <2>7. /\ voteInfo.voteYes \in Int /\ voteInfo.voteNo \in Int
          /\ voteInfo.voteYesSpectators \in Int /\ voteInfo.voteNoSpectators \in Int
          /\ \A m \in Map : rtv.maps[m].playerCount \in Int /\ rtv.maps[m].spectatorCount \in Int
      BY <1>1 DEF VotingTypeOK, VoteInfo
    <2>8. FollowsTotals(c)
      BY <1>1, <2>6, <2>7 DEF FollowsTotals
    <2>9. FollowsMaps(c)
      BY <1>1, <2>6, <2>7 DEF FollowsMaps
    <2>10. CallerHasNoBallot' /\ AutoHasNoCaller'
      BY <1>1, <2>1, CallerKept DEF IsCaller
    <2> QED BY <1>1, <1>3, <2>5, <2>8, <2>9, <2>10, Recount DEF TallyInv, StillWithdrawn
  <1> QED BY <1>2, <1>3

\* A vote starts with its caller's ballot, or with none.
LEMMA CallVoteCounts ==
    ASSUME IInv, NEW c \in Client, NEW isRtv \in BOOLEAN, CallVote(c, isRtv)
    PROVE  TallyInv'
  <1>1. /\ VotingTypeOK /\ c \in Present /\ votingInfo' = votingInfo
        /\ \A d \in Present : votingInfo[d] = NoBallot
        /\ Present' = Present /\ \A d \in Present : voted'[d] <=> (d = c /\ ~isRtv)
        /\ ~rtv.isRtvVote /\ ~voteInfo.isAutoRtvVote
    BY DEF IInv, CallVote, Present, NextVoteStartsClean
  <1>2. /\ voteInfo'.voteYes = One(~isRtv) /\ voteInfo'.voteNo = 0 /\ voteInfo'.voteNoSpectators = 0
        /\ ~isRtv => voteInfo'.voteYesSpectators = One(IsSpectator(c))
        /\ voteInfo'.voter_cn = c /\ voteInfo'.voter_team = team[c] /\ ~voteInfo'.isAutoRtvVote
    BY <1>1 DEF CallVote, VotingTypeOK, VoteInfo
  <1>3. /\ rtv'.isRtvVote = isRtv
        /\ isRtv => rtv'.maps = NoCounts
    <2>1. rtv' = IF isRtv THEN [isRtvVote |-> TRUE, maps |-> NoCounts] ELSE rtv
      BY DEF CallVote
    <2>2. CASE isRtv
      BY <2>1, <2>2
    <2>3. CASE ~isRtv
      BY <1>1, <2>1, <2>3 DEF VotingTypeOK
    <2> QED BY <2>2, <2>3
  <1>4. \A d \in Present : ~votingInfo[d].isVotedYes
    BY <1>1 DEF NoBallot
  <1>5. YesBallots' = {} /\ SpectatorYes' = {}
    BY <1>1, <1>4 DEF YesBallots, SpectatorYes
  <1>6. CallerVote' = IF isRtv THEN {} ELSE {c}
    BY <1>2, <1>3 DEF CallerVote, IsCaller
  <1>7. NoBallots' = {} /\ SpectatorNo' = {}
    BY <1>1, <1>6 DEF NoBallots, SpectatorNo
  <1>8. InFavour' = IF isRtv THEN {} ELSE {c}
    BY <1>5, <1>6 DEF InFavour
  <1>9. Cardinality({}) = 0 /\ Cardinality({c}) = 1
    BY FS_EmptySet, FS_Singleton
  <1>10. Cardinality(InFavour)' = One(~isRtv)
    BY <1>8, <1>9 DEF One
  <1>11. One(~isRtv) \in Int /\ One(IsSpectator(c)) \in Int
    BY OneType
  <1>12. CallerHasNoBallot' /\ AutoHasNoCaller'
    BY <1>1, <1>2, <1>3, <1>4 DEF CallerHasNoBallot, AutoHasNoCaller, IsCaller
  <1>13. YesIsBallots'
    BY <1>2, <1>10, <1>11 DEF YesIsBallots
  <1>14. TalliesFollowBallots'
    <2>1. voteInfo'.voteYes = Cardinality(InFavour)'
      BY <1>2, <1>10
    <2>2. voteInfo'.voteNo = Cardinality(NoBallots)' /\ voteInfo'.voteNoSpectators = Cardinality(SpectatorNo)'
      BY <1>2, <1>7, <1>9
    <2>3. ~rtv'.isRtvVote => voteInfo'.voteYesSpectators
             = Cardinality(SpectatorYes)' + One(voteInfo'.voter_team = "spectator")
      <3>1. One(voteInfo'.voter_team = "spectator") = One(IsSpectator(c))
        BY <1>2 DEF IsSpectator
      <3>2. Cardinality(SpectatorYes)' = 0
        BY <1>5, <1>9
      <3> QED BY <1>2, <1>3, <1>11, <3>1, <3>2
    <2> QED BY <2>1, <2>2, <2>3 DEF TalliesFollowBallots, SpectatorYes, SpectatorNo
  <1>15. MapCountsFollowBallots'
    <2>1. SUFFICES ASSUME isRtv, NEW m \in Map
                   PROVE  /\ rtv'.maps[m].playerCount = Cardinality(PlayersFor(m))'
                          /\ rtv'.maps[m].spectatorCount = Cardinality(SpectatorsFor(m))'
      BY <1>3 DEF MapCountsFollowBallots, PlayersFor, SpectatorsFor
    <2>2. PlayersFor(m)' = {} /\ SpectatorsFor(m)' = {}
      BY <1>5 DEF PlayersFor, SpectatorsFor, MapBallots
    <2> QED BY <1>3, <1>9, <2>1, <2>2 DEF NoCounts
  <1> QED BY <1>12, <1>13, <1>14, <1>15 DEF TallyInv

\* The vote the server calls starts with none.
LEMMA AutoRtvCounts ==
    ASSUME IInv, CallAutoRtv
    PROVE  TallyInv'
  <1>1. /\ VotingTypeOK /\ Present' = Present /\ \A d \in Present : ~voted'[d]
    BY DEF IInv, CallAutoRtv, Present
  <1>2. /\ voteInfo'.voteYes = 0 /\ voteInfo'.voteNo = 0 /\ voteInfo'.voteNoSpectators = 0
        /\ voteInfo'.voter_cn = NoCaller
    BY <1>1 DEF CallAutoRtv, VotingTypeOK, VoteInfo
  <1>3. rtv'.isRtvVote /\ rtv'.maps = NoCounts
    BY DEF CallAutoRtv
  <1>4. YesBallots' = {} /\ NoBallots' = {} /\ CallerVote' = {}
    BY <1>1, <1>3 DEF YesBallots, NoBallots, CallerVote
  <1>5. InFavour' = {} /\ SpectatorNo' = {}
    BY <1>4 DEF InFavour, SpectatorNo
  <1>6. Cardinality({}) = 0
    BY FS_EmptySet
  <1>7. CallerHasNoBallot' /\ AutoHasNoCaller'
    BY <1>2, <1>3 DEF CallerHasNoBallot, AutoHasNoCaller
  <1>8. YesIsBallots' /\ TalliesFollowBallots'
    <2>1. /\ Cardinality(InFavour)' = 0 /\ Cardinality(NoBallots)' = 0
          /\ Cardinality(SpectatorNo)' = 0
      BY <1>4, <1>5, <1>6
    <2> QED BY <1>2, <1>3, <2>1 DEF YesIsBallots, TalliesFollowBallots, SpectatorNo
  <1>9. MapCountsFollowBallots'
    <2>1. SUFFICES ASSUME NEW m \in Map
                   PROVE  /\ rtv'.maps[m].playerCount = Cardinality(PlayersFor(m))'
                          /\ rtv'.maps[m].spectatorCount = Cardinality(SpectatorsFor(m))'
      BY DEF MapCountsFollowBallots, PlayersFor, SpectatorsFor
    <2>2. PlayersFor(m)' = {} /\ SpectatorsFor(m)' = {}
      BY <1>4 DEF PlayersFor, SpectatorsFor, MapBallots
    <2> QED BY <1>3, <1>6, <2>2 DEF NoCounts
  <1> QED BY <1>7, <1>8, <1>9 DEF TallyInv

\* Withdrawing a vote leaves no ballot in the totals, which may only fall short then.
LEMMA WithdrawnCounts ==
    ASSUME IInv, TallyInv, NEW c \in Client, CancelOwnVote(c)
    PROVE  TallyInv'
  <1>1. VotingTypeOK /\ voteInfo \in VoteInfo
    BY DEF IInv, VotingTypeOK
  <1>2. /\ voted' = voted /\ votingInfo' = votingInfo /\ connected' = connected /\ rtv' = rtv
        /\ voteInfo' = [AllAgainst(NumConnectedClients) EXCEPT !.voteCanceled = TRUE]
        /\ history' = [history EXCEPT !.withdrawn = "by caller"] /\ voteInfo.open
    BY DEF CancelOwnVote, clientVars
  <1>3. /\ voteInfo'.voteYes = 0 /\ voteInfo'.open = voteInfo.open
        /\ voteInfo'.voter_cn = voteInfo.voter_cn
        /\ voteInfo'.isAutoRtvVote = voteInfo.isAutoRtvVote
    BY <1>1, <1>2 DEF AllAgainst, VoteInfo
  <1>4. history'.withdrawn = "by caller"
    BY <1>1, <1>2 DEF VotingTypeOK
  <1>5. CallerHasNoBallot' /\ AutoHasNoCaller'
    BY <1>2, <1>3, CallerKept
  <1>6. YesIsBallots'
    <2>1. InFavour' \subseteq Client
      BY DEF InFavour, YesBallots, CallerVote, Present
    <2>2. Cardinality(InFavour)' \in Nat
      BY <2>1, ClientAssumption, FS_Subset, FS_CardinalityType
    <2> QED BY <1>3, <2>2 DEF YesIsBallots
  <1>7. TalliesFollowBallots'
    BY <1>4 DEF TalliesFollowBallots
  <1>8. MapCountsFollowBallots'
    <2>1. \A m \in Map : PlayersFor(m)' = PlayersFor(m) /\ SpectatorsFor(m)' = SpectatorsFor(m)
      BY <1>2 DEF PlayersFor, SpectatorsFor, MapBallots, YesBallots, LastMap, WasSpectator, Present
    <2> QED BY <1>2, <1>3, <2>1 DEF TallyInv, MapCountsFollowBallots, PlayersFor, SpectatorsFor
  <1> QED BY <1>5, <1>6, <1>7, <1>8 DEF TallyInv

\* The flags of administrators are not ballots.
LEMMA AdminCounts ==
    ASSUME IInv, TallyInv, CancelVote \/ PassVote
    PROVE  TallyInv'
  <1>1. VotingTypeOK /\ voteInfo \in VoteInfo
    BY DEF IInv, VotingTypeOK
  <1>2. \/ voteInfo' = [voteInfo EXCEPT !.voteCanceled = TRUE]
        \/ voteInfo' = [voteInfo EXCEPT !.forcePass = TRUE]
    BY DEF CancelVote, PassVote
  <1>3. /\ voted' = voted /\ votingInfo' = votingInfo /\ Present' = Present /\ rtv' = rtv
    BY DEF CancelVote, PassVote, clientVars, Present
  <1>4. StillWithdrawn
    <2>1. CASE CancelVote
      BY <1>1, <2>1 DEF CancelVote, StillWithdrawn, VotingTypeOK
    <2>2. CASE PassVote
      BY <2>2 DEF PassVote, StillWithdrawn
    <2> QED BY <2>1, <2>2
  <1> QED BY <1>1, <1>2, <1>3, <1>4, NothingCounted DEF VoteInfo

\* CheckVote ends the vote or only advances its age.
LEMMA CheckCounts ==
    ASSUME IInv, TallyInv, CheckVote
    PROVE  TallyInv'
  <1>1. VotingTypeOK /\ voteInfo \in VoteInfo
    BY DEF IInv, VotingTypeOK
  <1>2. ASSUME NEW info \in VoteInfo, NEW result, EndVote(info, result)
        PROVE  TallyInv'
    <2>1. ResetVote(info, Present) /\ Present \subseteq Client
      BY <1>2 DEF EndVote, Present
    <2>2. ~voteInfo'.open
      BY <1>1, <2>1, ResetIsClean
    <2> QED BY <2>2, EndedCounts
  <1>3. ASSUME voteInfo' = [voteInfo EXCEPT !.age = voteInfo.age + 1],
               UNCHANGED <<clientVars, rtv, history>>
        PROVE  TallyInv'
    <2>1. /\ voted' = voted /\ votingInfo' = votingInfo /\ Present' = Present /\ rtv' = rtv
          /\ StillWithdrawn
      BY <1>3 DEF clientVars, Present, StillWithdrawn
    <2> QED BY <1>1, <1>3, <2>1, NothingCounted DEF VoteInfo
  <1>4. AllAgainst(NumConnectedClients) \in VoteInfo
    BY <1>1, ConnectedCount, AllAgainstType
  <1> QED BY <1>1, <1>2, <1>3, <1>4 DEF CheckVote

-----------------------------------------------------------------------------

\* The totals and the counts are numbers of ballots in every reachable state.
THEOREM TallyInvariance == VotingSpec => [](IInv /\ TallyInv)
  <1>1. VotingInit => TallyInv
    <2> SUFFICES ASSUME VotingInit PROVE TallyInv
      OBVIOUS
    <2>1. ~voteInfo.open
      BY DEF VotingInit
    <2> QED BY <2>1 DEF TallyInv, CallerHasNoBallot, AutoHasNoCaller, YesIsBallots,
                        TalliesFollowBallots, MapCountsFollowBallots
  <1>2. IInv /\ TallyInv /\ [VotingNext]_votingVars => TallyInv'
    <2> SUFFICES ASSUME IInv, TallyInv, [VotingNext]_votingVars PROVE TallyInv'
      OBVIOUS
    <2>1. CASE UNCHANGED votingVars
      <3>1. /\ voted' = voted /\ votingInfo' = votingInfo /\ Present' = Present /\ rtv' = rtv
            /\ voteInfo' = voteInfo /\ StillWithdrawn
        BY <2>1 DEF votingVars, clientVars, Present, StillWithdrawn
      <3> QED BY <3>1, NothingCounted
    <2>2. ASSUME NEW c \in Client,
                 Begin(c) \/ \E t \in {"player", "spectator"} : SetTeam(c, t)
          PROVE  TallyInv'
      <3>1. /\ voted' = voted /\ votingInfo' = votingInfo /\ rtv' = rtv
            /\ voteInfo' = voteInfo /\ StillWithdrawn
        BY <2>2 DEF Begin, SetTeam, StillWithdrawn
      <3>2. Present' = Present
        BY <2>2 DEF IInv, VotingTypeOK, Begin, SetTeam, Present
      <3> QED BY <3>1, <3>2, NothingCounted
    <2>3. CASE VotingNext
      BY <2>2, <2>3, ConnectCounts, DisconnectCounts, CallVoteCounts, AutoRtvCounts,
         WithdrawnCounts, FirstBallotCounts, RevoteCounts, AdminCounts, CheckCounts DEF VotingNext
    <2> QED BY <2>1, <2>3
  <1> QED BY <1>1, <1>2, Invariance, PTL DEF VotingSpec

\* The four totals of level.voteInfo are those of the ballots that stand, each for the
\* team it was cast from, for any number of clients and through re-votes, changes of
\* team and disconnects, until the caller withdraws the vote (Cmd_Vote_f,
\* updateVotingInfo, ClientDisconnect).
THEOREM TalliesCorrect == VotingSpec => []TalliesFollowBallots
  <1>1. TallyInv => TalliesFollowBallots
    BY DEF TallyInv
  <1> QED BY <1>1, TallyInvariance, PTL

\* So are the counts of every map of a rock the vote (RockTheVote, ClientDisconnect).
THEOREM MapCountsCorrect == VotingSpec => []MapCountsFollowBallots
  <1>1. TallyInv => MapCountsFollowBallots
    BY DEF TallyInv
  <1> QED BY <1>1, TallyInvariance, PTL

\* Only CheckVote passes a vote, with the total in favour above what it requires.
LEMMA OnlyCheckPasses ==
    ASSUME IInv, [VotingNext]_votingVars, history.result = "none", history'.result = "passed"
    PROVE  voteInfo.open /\ Passes
  <1>1. history \in [withdrawn : {"no", "by admin", "by caller", "taken back"},
                     result : {"none", "passed", "failed", "forced", "canceled"}]
    BY DEF IInv, VotingTypeOK
  <1>2. CASE CheckVote
    <2>1. ASSUME NEW info, NEW result, EndVote(info, result)
          PROVE  result = "passed"
      BY <1>1, <2>1 DEF EndVote
    <2>2. ~(UNCHANGED history)
      OBVIOUS
    <2>3. voteInfo.open
      BY <1>2 DEF CheckVote
    <2>4. Passes
      <3>1. "canceled" # "passed" /\ "forced" # "passed" /\ "failed" # "passed"
        OBVIOUS
      <3> QED BY <1>2, <2>1, <2>2, <3>1 DEF CheckVote
    <2> QED BY <2>3, <2>4
  <1>3. CASE UNCHANGED history
    BY <1>3
  <1>4. ASSUME NEW c \in Client, Disconnect(c)
        PROVE  FALSE
    BY <1>1, <1>4 DEF Disconnect
  <1>5. ASSUME NEW c \in Client, FirstBallot(c) \/ CancelOwnVote(c)
        PROVE  FALSE
    BY <1>1, <1>5 DEF FirstBallot, CancelOwnVote
  <1>6. CASE CallAutoRtv \/ \E c \in Client, isRtv \in BOOLEAN : CallVote(c, isRtv)
    <2>1. history' = [withdrawn |-> "no", result |-> "none"]
      BY <1>6 DEF CallAutoRtv, CallVote
    <2> QED BY <2>1
  <1>7. CASE CancelVote
    BY <1>1, <1>7 DEF CancelVote
  <1>8. ASSUME NEW c \in Client,
               \/ Connect(c) \/ Begin(c) \/ RevoteYes(c) \/ RevoteNo(c)
               \/ \E t \in {"player", "spectator"} : SetTeam(c, t)
               \/ \E m \in Map : RevoteRtv(c, m)
        PROVE  UNCHANGED history
    BY <1>8 DEF Connect, Begin, SetTeam, RevoteYes, RevoteNo, RevoteRtv
  <1>9. PassVote => UNCHANGED history
    BY DEF PassVote
  <1>10. (UNCHANGED votingVars) => UNCHANGED history
    BY DEF votingVars
  <1> QED BY <1>2, <1>3, <1>4, <1>5, <1>6, <1>7, <1>8, <1>9, <1>10 DEF VotingNext

\* What a vote requires is a number: the percentage of a number of clients.
LEMMA RequiredType == IInv => RequiredClients \in Nat
  <1> SUFFICES ASSUME IInv PROVE RequiredClients \in Nat
    OBVIOUS
  <1>1. Cardinality(ValidVoters) \in Nat
    <2>1. ValidVoters \subseteq Client
      BY DEF ValidVoters
    <2> QED BY <2>1, ClientAssumption, FS_Subset, FS_CardinalityType
  <1>2. ASSUME NEW n \in Nat, NEW p \in Nat PROVE (n * p) \div 100 \in Nat
    <2>1. n * p \in Nat
      OBVIOUS
    <2> HIDE DEF RequiredClients
    <2>2. ASSUME NEW k \in Nat PROVE k \div 100 \in Nat
      OBVIOUS
    <2> QED BY <2>1, <2>2
  <1>3. VotePercent \in Nat
    BY CvarsAssumption
  <1> QED BY <1>1, <1>2, <1>3 DEF RequiredClients

\* A vote passes only with more standing ballots in favour than vote_percent of the
\* valid voters, whatever became of the totals on the way, a withdrawal by the caller
\* and its taking back included (CheckVote).
THEOREM MajorityCorrect == VotingSpec => PassedHasMajority
  <1>1. IInv /\ TallyInv /\ [VotingNext]_votingVars =>
           [history.result = "none" /\ history'.result = "passed" =>
              Cardinality(InFavour) > RequiredClients]_votingVars
    <2> SUFFICES ASSUME IInv, TallyInv, [VotingNext]_votingVars,
                        history.result = "none", history'.result = "passed"
                 PROVE  Cardinality(InFavour) > RequiredClients
      OBVIOUS
    <2>1. voteInfo.voteYes =< Cardinality(InFavour) /\ voteInfo.voteYes > RequiredClients
      BY OnlyCheckPasses DEF TallyInv, YesIsBallots, Passes
    <2>2. voteInfo.voteYes \in Int /\ Cardinality(InFavour) \in Int /\ RequiredClients \in Int
      <3>1. Cardinality(InFavour) \in Nat
        BY BallotSets, ClientAssumption, FS_Subset, FS_CardinalityType
      <3>2. voteInfo.voteYes \in Int
        BY DEF IInv, VotingTypeOK, VoteInfo
      <3> QED BY <3>1, <3>2, RequiredType
    <2> QED BY <2>1, <2>2
  <1> QED BY <1>1, TallyInvariance, PTL DEF VotingSpec, PassedHasMajority

\* A rock the vote that passes has a map with a ballot, so setRtvWinner has one to take
\* (CheckVote, setRtvWinner).
THEOREM WinnerCorrect == VotingSpec => WinnerExists
  <1>1. IInv /\ TallyInv /\ [VotingNext]_votingVars =>
           [rtv.isRtvVote /\ history.result = "none" /\ history'.result = "passed" =>
              \E m \in Map : rtv.maps[m].playerCount + rtv.maps[m].spectatorCount > 0]_votingVars
    <2> SUFFICES ASSUME IInv, TallyInv, [VotingNext]_votingVars, rtv.isRtvVote,
                        history.result = "none", history'.result = "passed"
                 PROVE  \E m \in Map : rtv.maps[m].playerCount + rtv.maps[m].spectatorCount > 0
      OBVIOUS
    <2>1. voteInfo.open /\ voteInfo.voteYes =< Cardinality(InFavour)
             /\ voteInfo.voteYes > RequiredClients
      BY OnlyCheckPasses DEF TallyInv, YesIsBallots, Passes
    <2>2. InFavour # {}
      <3>1. voteInfo.voteYes \in Int
        BY DEF IInv, VotingTypeOK, VoteInfo
      <3>2. Cardinality({}) = 0
        BY FS_EmptySet
      <3>3. SUFFICES ASSUME InFavour = {} PROVE FALSE
        OBVIOUS
      <3>4. Cardinality(InFavour) = 0
        BY <3>2, <3>3
      <3> QED BY <2>1, <3>1, <3>4, RequiredType
    <2>3. PICK c \in YesBallots : TRUE
      BY <2>2 DEF InFavour, CallerVote
    <2>4. LastMap(c) \in Map /\ c \in Client
      BY DEF IInv, VotingTypeOK, Ballot, LastMap, YesBallots, Present
    <2> DEFINE m == LastMap(c)
    <2>5. c \in PlayersFor(m) \/ c \in SpectatorsFor(m)
      BY DEF PlayersFor, SpectatorsFor, MapBallots
    <2>6. /\ Cardinality(PlayersFor(m)) \in Nat /\ Cardinality(SpectatorsFor(m)) \in Nat
          /\ PlayersFor(m) # {} => Cardinality(PlayersFor(m)) # 0
          /\ SpectatorsFor(m) # {} => Cardinality(SpectatorsFor(m)) # 0
      <3>1. IsFiniteSet(PlayersFor(m)) /\ IsFiniteSet(SpectatorsFor(m))
        BY <2>4, BallotSets, ClientAssumption, FS_Subset DEF PlayersFor, SpectatorsFor
      <3> HIDE DEF m
      <3> QED BY <3>1, FS_CardinalityType, FS_EmptySet
    <2>7. /\ rtv.maps[m].playerCount = Cardinality(PlayersFor(m))
          /\ rtv.maps[m].spectatorCount = Cardinality(SpectatorsFor(m))
      BY <2>1, <2>4 DEF TallyInv, MapCountsFollowBallots, PlayersFor, SpectatorsFor
    <2> HIDE DEF m
    <2>8. rtv.maps[m].playerCount + rtv.maps[m].spectatorCount > 0
      BY <2>5, <2>6, <2>7
    <2> QED BY <2>4, <2>8 DEF m
  <1> QED BY <1>1, TallyInvariance, PTL DEF VotingSpec, WinnerExists
=============================================================================
