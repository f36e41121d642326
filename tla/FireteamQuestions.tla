--------------------------- MODULE FireteamQuestions ---------------------------
(***************************************************************************)
(* Fireteams with a memory of who asked whom.  A question is stored with   *)
(* the slot of the client it is about and answered up to twenty seconds    *)
(* later; nothing forgets it when that slot gets another client.           *)
(***************************************************************************)
EXTENDS Fireteams

VARIABLE
    asked               \* pairs of slots: the client now in the first has asked to join the
                        \* team of the client now in the second, or invited it to its own

questionVars == <<vars, asked>>

QuestionInit == FireteamInit /\ asked = {}

-----------------------------------------------------------------------------
\* A client that is new in a slot has asked nobody, and nobody has asked it.
NewClient(c) ==
    /\ Connect(c)
    /\ asked' = {pair \in asked : c # pair[1] /\ c # pair[2]}

\* G_InviteToFireTeam asks only for a leader, and only who is on no team.
Invitations(l, C) == IF IsLeader(l) THEN {l} \X {c \in C : ~OnFireteam(c)} ELSE {}

\* The five ways to put a question to a client. What a member proposes is a question to its
\* leader about a third client, which becomes a question to that one when it is accepted.
AskStep ==
    \/ \E c \in Client, f \in Fireteam :
        /\ ApplyToFireTeam(c, f)
        /\ asked' = asked \cup {<<c, fireTeams[f].joinOrder[1]>>}
    \/ \E l, c \in Client :
        /\ Invite(l, c) \/ Propose(l, c)
        /\ asked' = asked \cup Invitations(l, {c})
    \/ \E l \in Client, C \in SUBSET Client :
        /\ InviteMultiple(l, C)
        /\ asked' = asked \cup Invitations(l, C)
    \/ \E l \in Client, yes \in BOOLEAN :
        /\ AnswerProposition(l, yes)
        /\ asked' = asked \cup IF yes THEN Invitations(l, {proposition[l]}) ELSE {}

OtherStep ==
    /\ \/ MapChange
       \/ \E c \in Client : \/ Reconnect(c) \/ Begin(c) \/ Respawn(c) \/ Disconnect(c)
                            \/ RegisterFireteam(c) \/ Leave(c) \/ DestroyFireteam(c) \/ Expire(c)
       \/ \E l, c \in Client : Kick(l, c)
       \/ \E c \in Client, yes \in BOOLEAN :
            AnswerApplication(c, yes) \/ AnswerInvitation(c, yes) \/ AnswerPrivate(c, yes)
       \/ RuleStep
    /\ UNCHANGED asked

QuestionNext == (\E c \in Client : NewClient(c)) \/ AskStep \/ OtherStep

QuestionSpec == QuestionInit /\ [][QuestionNext]_questionVars

-----------------------------------------------------------------------------
\* Who gets onto a team has itself asked the client that leads it, or was asked by that very
\* client (g_local.h:936 and 941). AdmittedByLeader says the same of slots only. False: a
\* question outlives the client it names, and is then about the next one in its slot.
AskedByThatClient ==
    [][\A f \in Fireteam : \A c \in Members(f)' \ Members(f) :
           fireTeams[f].inuse =>
               \E l \in Client : Leads(l, f) /\ asked \cap {<<c, l>>, <<l, c>>} # {}]_questionVars
=============================================================================
