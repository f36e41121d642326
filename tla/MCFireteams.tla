------------------------------ MODULE MCFireteams ------------------------------
(* The instances of Fireteams that TLC checks.                             *)
EXTENDS Fireteams, TLC

\* Slots are interchangeable: no step prefers one.
Symmetry == Permutations(Client)

\* States are told apart by what a later step or a property reads: not the memory of a
\* slot nobody is in, the rules of a team not in use, whether a team is private, the saves
\* of who has no limit, nor the mark of a life not begun.
Present == {c \in Client : status[c] # "gone"}
Team(f) == [fireTeams[f] EXCEPT !.priv = FALSE, !.ident = IF fireTeams[f].inuse THEN @ ELSE 0,
               !.saveLimit = IF fireTeams[f].inuse THEN @ ELSE NotSet,
               !.noGhost = fireTeams[f].inuse /\ @]
SavesLeft(c) ==
    IF \E f \in Fireteam : IsOn(c, f) /\ fireTeams[f].saveLimit # NotSet
    THEN saveLimitFt[c] ELSE NotSet
Told(c) == <<application[c], invitation[c], proposition[c],
             privatePrompt[c], SavesLeft(c), Playing(c) /\ ftNoGhostThisLife[c], run[c]>>
View == <<status, [f \in Fireteam |-> Team(f)], [c \in Present |-> Told(c)], countdown>>

\* Bound: no state has a save limit and, at the same time, noghost or a run. The two rules
\* share no variable but the teams.
OneRule ==
    (\E f \in Fireteam : fireTeams[f].inuse /\ fireTeams[f].saveLimit # NotSet) =>
        /\ \A f \in Fireteam : fireTeams[f].inuse => ~fireTeams[f].noGhost
        /\ \A c \in Client : run[c] = "none"
=============================================================================
