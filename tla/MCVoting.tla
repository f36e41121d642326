------------------------------- MODULE MCVoting -------------------------------
(* The instances of Voting that TLC checks.                                *)
EXTENDS Voting, TLC

\* Slots are interchangeable: a vote names one only as its caller.
Symmetry == Permutations(Client)

\* What of a ballot a later step reads: how long a re-vote must still wait, and
\* nothing of its attempts when it is too late for one.
Pending(c) ==
    LET ballot == votingInfo[c]
        wait == ballot.time + VotingTimeout - voteInfo.age
    IN  IF ~voteInfo.open THEN ballot
        ELSE IF voteInfo.age > VoteTime \div 3
             THEN [ballot EXCEPT !.time = 0, !.attempts = 0]
             ELSE [ballot EXCEPT !.time = IF wait > 0 THEN wait ELSE 0]

\* States are told apart by what a later step reads: not the totals, counts and
\* caller of a vote that is over, nor the memory of a slot nobody is in.
View ==
    LET flags == <<voteInfo.voteCanceled, voteInfo.forcePass, voteInfo.isAutoRtvVote, rtv.isRtvVote>>
    IN  <<connected, team, [c \in Present |-> Pending(c)], history, flags,
          IF voteInfo.open THEN <<voteInfo, rtv.maps, [c \in Present |-> voted[c]]>> ELSE <<>> >>
=============================================================================
