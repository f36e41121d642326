------------------------------- MODULE Fireteams -------------------------------
(***************************************************************************)
(* Fireteams: clients that play together under the rules of one of them.   *)
(* A client gets in by creating a team, by an invitation it accepts, or by *)
(* an application its leader accepts.  Every answer is given with the vote *)
(* command, up to twenty seconds after the question, and the question      *)
(* names a slot: whoever is in it by then.  The teams outlive a map, the   *)
(* rules and the questions do not.                                         *)
(***************************************************************************)
EXTENDS Integers, Sequences, FiniteSets

CONSTANTS
    Client,             \* client slots
    Nobody,             \* the client of no question (-1)
    MaxFireteams,       \* MAX_FIRETEAMS
    MaxUsers,           \* MAX_FIRETEAM_USERS
    Limits,             \* values of the rule savelimit besides the default
    RunKinds,           \* the runs of the map: "plain", or "noghost" for AllowFTNoGhost
    NoGhostAllowed,     \* g_ghostPlayers is 1, or the map sets noghost by target_ft_setrules
    SpawnStartsRun,     \* a spawn point of the map targets a start timer
    MaxPending          \* bound: questions and countdowns under way at a time

ASSUME FireteamAssumption ==
    /\ IsFiniteSet(Client) /\ Nobody \notin Client
    /\ MaxFireteams \in Nat \ {0} /\ MaxUsers \in Nat \ {0}
    /\ Limits \subseteq Nat
    /\ RunKinds \subseteq {"plain", "noghost"}
    /\ NoGhostAllowed \in BOOLEAN /\ SpawnStartsRun \in BOOLEAN
    /\ MaxPending \in Nat

VARIABLES
    status,             \* pers.connected
    fireTeams,          \* level.fireTeams
    application,        \* pers.applicationClient, until applicationEndTime
    invitation,         \* pers.invitationClient, until invitationEndTime
    proposition,        \* pers.propositionClient, until propositionEndTime
    privatePrompt,      \* pers.autofireteamEndTime has not passed
    saveLimitFt,        \* sess.saveLimitFt
    ftNoGhostThisLife,  \* client->ftNoGhostThisLife
    run,                \* sess.timerunActive and the flag of its runSpawnflags
    countdown           \* the clients in FireteamCountdown::countdownCommands

questions == <<application, invitation, proposition>>
rules == <<saveLimitFt, ftNoGhostThisLife, run>>
vars == <<status, fireTeams, questions, privatePrompt, rules, countdown>>

Fireteam == 1..MaxFireteams
NotSet == -1                            \* FT_SAVELIMIT_NOT_SET

Question == Client \cup {Nobody}         \* the slot of the client a question is about

FireteamData == [inuse : BOOLEAN, ident : {-1, 0} \cup Fireteam, joinOrder : Seq(Client),
                 priv : BOOLEAN, saveLimit : Limits \cup {NotSet}, noGhost : BOOLEAN]
FreeTeam == [inuse |-> FALSE, ident |-> 0, joinOrder |-> <<>>, priv |-> FALSE,
             saveLimit |-> NotSet, noGhost |-> FALSE]

FireteamInit ==
    /\ status = [c \in Client |-> "gone"]
    /\ fireTeams = [f \in Fireteam |-> FreeTeam]
    /\ application = [c \in Client |-> Nobody]
    /\ invitation = [c \in Client |-> Nobody]
    /\ proposition = [c \in Client |-> Nobody]
    /\ privatePrompt = [c \in Client |-> FALSE]
    /\ saveLimitFt = [c \in Client |-> 0]
    /\ ftNoGhostThisLife = [c \in Client |-> FALSE]
    /\ run = [c \in Client |-> "none"]
    /\ countdown = {}

-----------------------------------------------------------------------------
Members(f) == {fireTeams[f].joinOrder[i] : i \in DOMAIN fireTeams[f].joinOrder}

IsOn(c, f) == fireTeams[f].inuse /\ c \in Members(f)
OnFireteam(c) == \E f \in Fireteam : IsOn(c, f)
TeamOf(c) == CHOOSE f \in Fireteam : IsOn(c, f)
Leads(c, f) ==
    /\ fireTeams[f].inuse
    /\ fireTeams[f].joinOrder # <<>>
    /\ fireTeams[f].joinOrder[1] = c
IsLeader(c) == \E f \in Fireteam : Leads(c, f)

Playing(c) == status[c] = "playing"

\* The least number no team in use has.
FreeIdent(i) ==
    /\ i \in Fireteam
    /\ \A f \in Fireteam : fireTeams[f].inuse => fireTeams[f].ident # i
    /\ \A j \in 1..(i - 1) : \E f \in Fireteam : fireTeams[f].inuse /\ fireTeams[f].ident = j

Asked(q) == {c \in Client : status[c] # "gone" /\ q[c] # Nobody}
Pending == Cardinality(Asked(application)) + Cardinality(Asked(invitation))
           + Cardinality(Asked(proposition)) + Cardinality({c \in Client : privatePrompt[c]})
           + Cardinality(countdown)

-----------------------------------------------------------------------------
\* Mutants: the last member takes the place of the one that leaves; a team stays in use
\* without members.
WithoutByLast(order, c) ==
    LET k == CHOOSE i \in DOMAIN order : order[i] = c
    IN  [i \in 1..(Len(order) - 1) |-> IF i = k THEN order[Len(order)] ELSE order[i]]
TeamsKeptInUse(c) ==
    [f \in Fireteam |->
        IF ~IsOn(c, f) THEN fireTeams[f]
        ELSE [fireTeams[f] EXCEPT !.joinOrder = SelectSeq(@, LAMBDA d : d # c)]]

\* The join order without c: those behind it move up.
Without(order, c) ==
    LET k == CHOOSE i \in DOMAIN order : order[i] = c
    IN  [i \in 1..(Len(order) - 1) |-> IF i < k THEN order[i] ELSE order[i + 1]]

\* Its last member takes a team out of use.
TeamsWithout(c) ==
    [f \in Fireteam |->
        IF ~IsOn(c, f) THEN fireTeams[f]
        ELSE LET rest == Without(fireTeams[f].joinOrder, c)
             IN  [fireTeams[f] EXCEPT !.joinOrder = rest, !.inuse = rest # <<>>,
                                      !.ident = IF rest = <<>> THEN -1 ELSE @]]

\* The members that stay get the whole limit again.
LimitsWithout(c) ==
    [d \in Client |->
        IF d # c /\ OnFireteam(c) /\ IsOn(d, TeamOf(c)) /\ fireTeams[TeamOf(c)].saveLimit # NotSet
        THEN fireTeams[TeamOf(c)].saveLimit ELSE saveLimitFt[d]]

PromptsWithout(c) == [privatePrompt EXCEPT ![c] = IF OnFireteam(c) THEN FALSE ELSE @]

\* Mutant: the countdown goes on.
RemoveKeepingCountdown(c) ==
    /\ fireTeams' = TeamsWithout(c)
    /\ saveLimitFt' = LimitsWithout(c)
    /\ privatePrompt' = PromptsWithout(c)
    /\ UNCHANGED countdown

RemoveClientFromFireteams(c) ==
    /\ fireTeams' = TeamsWithout(c)
    /\ saveLimitFt' = LimitsWithout(c)
    /\ privatePrompt' = PromptsWithout(c)
    /\ countdown' = countdown \ {c}

\* Mutant: any member can admit.
CanJoinMember(c, l, f) ==
    IsOn(l, f) /\ ~OnFireteam(c) /\ Len(fireTeams[f].joinOrder) < MaxUsers

\* The leader, the room and the client's own team are those of the moment of the answer.
CanJoin(c, l, f) ==
    /\ Leads(l, f)
    /\ ~OnFireteam(c)
    /\ Len(fireTeams[f].joinOrder) < MaxUsers

\* noghost takes effect at once: it marks the life and ends a run that forbids it.
AddClientToFireteam(c, l) ==
    \/ \E f \in Fireteam :
        /\ CanJoin(c, l, f)
        /\ fireTeams' = [fireTeams EXCEPT ![f].joinOrder = Append(@, c)]
        /\ saveLimitFt' = [saveLimitFt EXCEPT ![c] = fireTeams[f].saveLimit]
        /\ ftNoGhostThisLife' = [ftNoGhostThisLife EXCEPT ![c] = @ \/ fireTeams[f].noGhost]
        /\ run' = [run EXCEPT ![c] = IF fireTeams[f].noGhost /\ @ = "plain" THEN "none" ELSE @]
    \/ /\ ~\E f \in Fireteam : CanJoin(c, l, f)
       /\ UNCHANGED <<fireTeams, rules>>

ClearQuestions(c) ==
    /\ application' = [application EXCEPT ![c] = Nobody]
    /\ invitation' = [invitation EXCEPT ![c] = Nobody]
    /\ proposition' = [proposition EXCEPT ![c] = Nobody]

-----------------------------------------------------------------------------
\* ClientConnect of a new client: everything of the slot is blank.
Connect(c) ==
    /\ status[c] = "gone"
    /\ status' = [status EXCEPT ![c] = "connecting"]
    /\ ClearQuestions(c)
    /\ privatePrompt' = [privatePrompt EXCEPT ![c] = FALSE]
    /\ saveLimitFt' = [saveLimitFt EXCEPT ![c] = 0]
    /\ ftNoGhostThisLife' = [ftNoGhostThisLife EXCEPT ![c] = FALSE]
    /\ run' = [run EXCEPT ![c] = "none"]
    /\ UNCHANGED <<fireTeams, countdown>>

\* ClientConnect of a client the server has not missed: only one that has begun is
\* disconnected first, so one that a map change left connecting stays on its team.
Reconnect(c) ==
    /\ status[c] # "gone"
    /\ status' = [status EXCEPT ![c] = "connecting"]
    /\ ClearQuestions(c)
    /\ privatePrompt' = [privatePrompt EXCEPT ![c] = FALSE]
    /\ ftNoGhostThisLife' = [ftNoGhostThisLife EXCEPT ![c] = FALSE]
    /\ run' = [run EXCEPT ![c] = "none"]
    /\ \/ /\ Playing(c)
          /\ fireTeams' = TeamsWithout(c)
          /\ saveLimitFt' = [LimitsWithout(c) EXCEPT ![c] = 0]
          /\ countdown' = countdown \ {c}
       \/ /\ ~Playing(c)
          /\ saveLimitFt' = [saveLimitFt EXCEPT ![c] = 0]
          /\ UNCHANGED <<fireTeams, countdown>>

\* Mutant: a new life is free of noghost.
SpawnForgetting(c) ==
    /\ UNCHANGED run
    /\ ftNoGhostThisLife' = [ftNoGhostThisLife EXCEPT ![c] = FALSE]

\* ClientSpawn clears the life, fires the targets of the spawn point, and only then
\* looks for noghost.
ClientSpawn(c) ==
    /\ run' \in {[run EXCEPT ![c] = k] :
                    k \in {run[c]} \cup IF SpawnStartsRun /\ run[c] = "none" THEN RunKinds ELSE {}}
    /\ ftNoGhostThisLife' = [ftNoGhostThisLife EXCEPT
                                ![c] = \E f \in Fireteam : IsOn(c, f) /\ fireTeams[f].noGhost]

Begin(c) ==
    /\ status[c] = "connecting"
    /\ status' = [status EXCEPT ![c] = "playing"]
    /\ ClientSpawn(c)
    /\ UNCHANGED <<fireTeams, questions, privatePrompt, saveLimitFt, countdown>>

Respawn(c) ==
    /\ Playing(c)
    /\ ClientSpawn(c)
    /\ UNCHANGED <<status, fireTeams, questions, privatePrompt, saveLimitFt, countdown>>

Disconnect(c) ==
    /\ status[c] # "gone"
    /\ status' = [status EXCEPT ![c] = "gone"]
    /\ RemoveClientFromFireteams(c)
    /\ run' = [run EXCEPT ![c] = "none"]
    /\ UNCHANGED <<questions, ftNoGhostThisLife>>

\* The teams are written with the session and read at the start of the next map; what
\* is not written, and everything of the clients, starts anew.
MapChange ==
    /\ status' = [c \in Client |-> IF status[c] = "gone" THEN "gone" ELSE "connecting"]
    /\ fireTeams' = [f \in Fireteam |->
            IF fireTeams[f].inuse
            THEN [fireTeams[f] EXCEPT !.saveLimit = NotSet, !.noGhost = FALSE]
            ELSE FreeTeam]
    /\ application' = [c \in Client |-> Nobody]
    /\ invitation' = [c \in Client |-> Nobody]
    /\ proposition' = [c \in Client |-> Nobody]
    /\ privatePrompt' = [c \in Client |-> FALSE]
    /\ saveLimitFt' = [c \in Client |-> 0]
    /\ ftNoGhostThisLife' = [c \in Client |-> FALSE]
    /\ run' = [c \in Client |-> "none"]
    /\ countdown' = {}

-----------------------------------------------------------------------------
\* fireteam create
RegisterFireteam(c) ==
    /\ Playing(c)
    /\ ~OnFireteam(c)
    /\ \E f \in Fireteam, i \in Fireteam, auto \in BOOLEAN :
        /\ ~fireTeams[f].inuse
        /\ \A g \in 1..(f - 1) : fireTeams[g].inuse
        /\ FreeIdent(i)
        /\ auto => Pending < MaxPending
        /\ fireTeams' = [fireTeams EXCEPT ![f] = [inuse |-> TRUE, ident |-> i,
                             joinOrder |-> <<c>>, priv |-> FALSE,
                             saveLimit |-> NotSet, noGhost |-> FALSE]]
        /\ privatePrompt' = [privatePrompt EXCEPT ![c] = @ \/ auto]
    /\ UNCHANGED <<status, questions, rules, countdown>>

\* fireteam leave
Leave(c) ==
    /\ Playing(c)
    /\ OnFireteam(c)
    /\ RemoveClientFromFireteams(c)
    /\ UNCHANGED <<status, questions, ftNoGhostThisLife, run>>

\* fireteam kick
Kick(l, c) ==
    /\ Playing(l) /\ Playing(c)
    /\ l # c
    /\ \E f \in Fireteam : Leads(l, f) /\ IsOn(c, f)
    /\ RemoveClientFromFireteams(c)
    /\ UNCHANGED <<status, questions, ftNoGhostThisLife, run>>

\* fireteam disband: the members leave one by one, from the leader on, and those still
\* on the team get their limit again meanwhile.
DestroyFireteam(l) ==
    /\ Playing(l)
    /\ \E f \in Fireteam :
        /\ Leads(l, f)
        /\ fireTeams' = [fireTeams EXCEPT ![f].joinOrder = <<>>, ![f].inuse = FALSE, ![f].ident = -1]
        /\ saveLimitFt' = [d \in Client |->
                IF d # l /\ IsOn(d, f) /\ fireTeams[f].saveLimit # NotSet
                THEN fireTeams[f].saveLimit ELSE saveLimitFt[d]]
        /\ privatePrompt' = [d \in Client |-> privatePrompt[d] /\ ~IsOn(d, f)]
        /\ countdown' = countdown \ Members(f)
    /\ UNCHANGED <<status, questions, ftNoGhostThisLife, run>>

-----------------------------------------------------------------------------
\* fireteam apply: asks the leader of the moment
ApplyToFireTeam(c, f) ==
    /\ Playing(c)
    /\ ~OnFireteam(c)
    /\ fireTeams[f].inuse
    /\ Pending < MaxPending
    /\ application' = [application EXCEPT ![fireTeams[f].joinOrder[1]] = c]
    /\ UNCHANGED <<status, fireTeams, invitation, proposition, privatePrompt, rules, countdown>>

InviteToFireTeam(l, c) ==
    IF IsLeader(l) /\ ~OnFireteam(c)
    THEN invitation' = [invitation EXCEPT ![c] = l]
    ELSE UNCHANGED invitation

\* fireteam invite, with a client
Invite(l, c) ==
    /\ Playing(l) /\ Playing(c)
    /\ Pending < MaxPending
    /\ InviteToFireTeam(l, c)
    /\ UNCHANGED <<status, fireTeams, application, proposition, privatePrompt, rules, countdown>>

\* fireteam invite, with "all" or a team: also who is only connecting
InviteMultiple(l, C) ==
    /\ Playing(l)
    /\ IsLeader(l)
    /\ C # {} /\ \A c \in C : status[c] # "gone" /\ ~OnFireteam(c)
    /\ Pending + Cardinality(C) <= MaxPending
    /\ invitation' = [c \in Client |-> IF c \in C THEN l ELSE invitation[c]]
    /\ UNCHANGED <<status, fireTeams, application, proposition, privatePrompt, rules, countdown>>

\* fireteam propose: a member asks its leader to invite c
Propose(m, c) ==
    /\ Playing(m) /\ Playing(c)
    /\ m # c
    /\ ~OnFireteam(c)
    /\ Pending < MaxPending
    /\ \E f \in Fireteam :
        /\ IsOn(m, f)
        /\ \/ Leads(m, f) /\ InviteToFireTeam(m, c) /\ UNCHANGED proposition
           \/ /\ ~Leads(m, f)
              /\ proposition' = [proposition EXCEPT ![fireTeams[f].joinOrder[1]] = c]
              /\ UNCHANGED invitation
    /\ UNCHANGED <<status, fireTeams, application, privatePrompt, rules, countdown>>

-----------------------------------------------------------------------------
\* Cmd_Vote_f answers one question at a time, in the order of the next four actions. It
\* does nothing while the client a question names is not playing.
AnswerApplication(l, yes) ==
    /\ Playing(l)
    /\ application[l] # Nobody
    /\ Playing(application[l])
    /\ \/ yes /\ AddClientToFireteam(application[l], l)
       \/ ~yes /\ UNCHANGED <<fireTeams, rules>>
    /\ application' = [application EXCEPT ![l] = Nobody]
    /\ UNCHANGED <<status, invitation, proposition, privatePrompt, countdown>>

AnswerInvitation(c, yes) ==
    /\ Playing(c)
    /\ application[c] = Nobody /\ invitation[c] # Nobody
    /\ Playing(invitation[c])
    /\ \/ yes /\ AddClientToFireteam(c, invitation[c])
       \/ ~yes /\ UNCHANGED <<fireTeams, rules>>
    /\ invitation' = [invitation EXCEPT ![c] = Nobody]
    /\ UNCHANGED <<status, application, proposition, privatePrompt, countdown>>

AnswerProposition(l, yes) ==
    /\ Playing(l)
    /\ application[l] = Nobody /\ invitation[l] = Nobody /\ proposition[l] # Nobody
    /\ Playing(proposition[l])
    /\ \/ yes /\ InviteToFireTeam(l, proposition[l])
       \/ ~yes /\ UNCHANGED invitation
    /\ proposition' = [proposition EXCEPT ![l] = Nobody]
    /\ UNCHANGED <<status, fireTeams, application, privatePrompt, rules, countdown>>

AnswerPrivate(c, yes) ==
    /\ Playing(c)
    /\ application[c] = Nobody /\ invitation[c] = Nobody /\ proposition[c] = Nobody
    /\ privatePrompt[c]
    /\ fireTeams' = [f \in Fireteam |-> IF yes /\ Leads(c, f) THEN [fireTeams[f] EXCEPT !.priv = TRUE]
                                        ELSE fireTeams[f]]
    /\ privatePrompt' = [privatePrompt EXCEPT ![c] = FALSE]
    /\ UNCHANGED <<status, questions, rules, countdown>>

\* The end time of one question passes.
Expire(c) ==
    /\ \/ /\ application[c] # Nobody
          /\ application' = [application EXCEPT ![c] = Nobody]
          /\ UNCHANGED <<invitation, proposition, privatePrompt>>
       \/ /\ invitation[c] # Nobody
          /\ invitation' = [invitation EXCEPT ![c] = Nobody]
          /\ UNCHANGED <<application, proposition, privatePrompt>>
       \/ /\ proposition[c] # Nobody
          /\ proposition' = [proposition EXCEPT ![c] = Nobody]
          /\ UNCHANGED <<application, invitation, privatePrompt>>
       \/ /\ privatePrompt[c]
          /\ privatePrompt' = [privatePrompt EXCEPT ![c] = FALSE]
          /\ UNCHANGED questions
    /\ UNCHANGED <<status, fireTeams, rules, countdown>>

-----------------------------------------------------------------------------
\* fireteam rules savelimit, or target_ft_setrules, which any member can trigger; "reset"
\* sets the limit there is.
SetSaveLimit(c, n) ==
    /\ Playing(c)
    /\ \E f \in Fireteam :
        /\ IsOn(c, f)
        /\ fireTeams' = [fireTeams EXCEPT ![f].saveLimit = n]
        /\ saveLimitFt' = [d \in Client |-> IF IsOn(d, f) THEN n ELSE saveLimitFt[d]]
    /\ UNCHANGED <<status, questions, privatePrompt, ftNoGhostThisLife, run, countdown>>

\* fireteam rules noghost, or target_ft_setrules
SetNoGhost(c, on) ==
    /\ NoGhostAllowed
    /\ Playing(c)
    /\ \E f \in Fireteam :
        /\ IsOn(c, f)
        /\ fireTeams[f].noGhost # on
        /\ on => \A d \in Members(f) : run[d] # "plain"
        /\ fireTeams' = [fireTeams EXCEPT ![f].noGhost = on]
        /\ ftNoGhostThisLife' = [d \in Client |-> ftNoGhostThisLife[d] \/ (on /\ IsOn(d, f))]
    /\ UNCHANGED <<status, questions, privatePrompt, saveLimitFt, run, countdown>>

\* Mutant: who has no saves left saves once more.
SaveOnceMore(c) ==
    /\ Playing(c)
    /\ \E f \in Fireteam :
        /\ IsOn(c, f)
        /\ saveLimitFt' = [saveLimitFt EXCEPT ![c] = IF fireTeams[f].saveLimit = NotSet
                                                    THEN NotSet ELSE @ - 1]
    /\ UNCHANGED <<status, fireTeams, questions, privatePrompt, ftNoGhostThisLife, run, countdown>>

\* SaveSystem::save, for a member of a team
SavePosition(c) ==
    /\ Playing(c)
    /\ \E f \in Fireteam :
        /\ IsOn(c, f)
        /\ \/ /\ fireTeams[f].saveLimit = NotSet
              /\ saveLimitFt' = [saveLimitFt EXCEPT ![c] = NotSet]
           \/ /\ fireTeams[f].saveLimit # NotSet
              /\ saveLimitFt[c] # 0
              /\ saveLimitFt' = [saveLimitFt EXCEPT ![c] = @ - 1]
    /\ UNCHANGED <<status, fireTeams, questions, privatePrompt, ftNoGhostThisLife, run, countdown>>

\* TimerunEntity::canStartTimerun
StartRun(c, k) ==
    /\ Playing(c)
    /\ run[c] = "none"
    /\ ftNoGhostThisLife[c] => k = "noghost"
    /\ run' = [run EXCEPT ![c] = k]
    /\ UNCHANGED <<status, fireTeams, questions, privatePrompt, saveLimitFt, ftNoGhostThisLife, countdown>>

EndRun(c) ==
    /\ Playing(c)
    /\ run[c] # "none"
    /\ run' = [run EXCEPT ![c] = "none"]
    /\ UNCHANGED <<status, fireTeams, questions, privatePrompt, saveLimitFt, ftNoGhostThisLife, countdown>>

\* fireteam countdown
StartCountdown(c) ==
    /\ Playing(c)
    /\ OnFireteam(c)
    /\ c \in countdown \/ Pending < MaxPending
    /\ countdown' = countdown \cup {c}
    /\ UNCHANGED <<status, fireTeams, questions, privatePrompt, rules>>

\* FireteamCountdown::runFrame, for a countdown that reaches its end
EndCountdown(c) ==
    /\ c \in countdown
    /\ countdown' = countdown \ {c}
    /\ UNCHANGED <<status, fireTeams, questions, privatePrompt, rules>>

-----------------------------------------------------------------------------
ConnectionStep ==
    \/ MapChange
    \/ \E c \in Client : Connect(c) \/ Reconnect(c) \/ Begin(c) \/ Respawn(c) \/ Disconnect(c)

TeamStep ==
    \/ \E c \in Client : RegisterFireteam(c) \/ Leave(c) \/ DestroyFireteam(c)
    \/ \E l, c \in Client : Kick(l, c) \/ Invite(l, c) \/ Propose(l, c)
    \/ \E c \in Client, f \in Fireteam : ApplyToFireTeam(c, f)
    \/ \E l \in Client, C \in SUBSET Client : InviteMultiple(l, C)

AnswerStep ==
    \E c \in Client :
        \/ Expire(c)
        \/ \E yes \in BOOLEAN : \/ AnswerApplication(c, yes) \/ AnswerInvitation(c, yes)
                                \/ AnswerProposition(c, yes) \/ AnswerPrivate(c, yes)

RuleStep ==
    \E c \in Client :
        \/ \E n \in Limits \cup {NotSet} : SetSaveLimit(c, n)
        \/ \E on \in BOOLEAN : SetNoGhost(c, on)
        \/ SavePosition(c)
        \/ \E k \in RunKinds : StartRun(c, k)
        \/ EndRun(c)
        \/ StartCountdown(c)
        \/ EndCountdown(c)

FireteamNext == ConnectionStep \/ TeamStep \/ AnswerStep \/ RuleStep

FireteamSpec == FireteamInit /\ [][FireteamNext]_vars

-----------------------------------------------------------------------------
(* Properties.                                                             *)

\* Every variable has its type.
FireteamTypeOK ==
    /\ status \in [Client -> {"gone", "connecting", "playing"}]
    /\ fireTeams \in [Fireteam -> FireteamData]
    /\ application \in [Client -> Question]
    /\ invitation \in [Client -> Question]
    /\ proposition \in [Client -> Question]
    /\ privatePrompt \in [Client -> BOOLEAN]
    /\ saveLimitFt \in [Client -> Nat \cup {NotSet}]
    /\ ftNoGhostThisLife \in [Client -> BOOLEAN]
    /\ run \in [Client -> RunKinds \cup {"none"}]
    /\ countdown \subseteq Client

\* No client is on two teams, or twice on one, however old the question was that it or
\* its leader answered (G_AddClientToFireteam, g_fireteams.cpp:21).
OneTeamEach ==
    \A f, g \in Fireteam : \A i \in DOMAIN fireTeams[f].joinOrder, j \in DOMAIN fireTeams[g].joinOrder :
        fireTeams[f].joinOrder[i] = fireTeams[g].joinOrder[j] => f = g /\ i = j

\* What G_GetFireteamTeam and G_ApplyToFireTeam end the game for never happens: a team in
\* use has a leader and only connected members, no client is a member twice, and no two
\* teams have one name, through departures, disconnects, reconnects and changes of map.
TeamsAreValid ==
    /\ OneTeamEach
    /\ \A f \in Fireteam :
        /\ fireTeams[f].inuse <=> fireTeams[f].joinOrder # <<>>
        /\ Len(fireTeams[f].joinOrder) <= MaxUsers
        /\ \A c \in Members(f) : status[c] # "gone"
        /\ fireTeams[f].inuse => /\ fireTeams[f].ident \in Fireteam
                                 /\ \A g \in Fireteam : fireTeams[g].inuse /\ g # f =>
                                        fireTeams[g].ident # fireTeams[f].ident

\* A member of a team with a save limit never has more than the limit left, and never an
\* unlimited number, whatever it had when it joined (SaveSystem::save counts down from it).
TeamLimitHolds ==
    \A f \in Fireteam : \A c \in Members(f) :
        fireTeams[f].saveLimit # NotSet => saveLimitFt[c] \in 0..fireTeams[f].saveLimit

\* Nobody makes a run that forbids noghost while its team has it: not by joining, by a
\* rule, by a death or by leaving and starting in the same life (canEnableFtNoGhost,
\* g_fireteams.cpp:909; canStartTimerun, etj_timerun_entities.cpp:191).
NoGhostHasNoRun ==
    \A f \in Fireteam : \A c \in Members(f) : fireTeams[f].noGhost => run[c] # "plain"

\* Who is asked whether the team is to be private leads it still: the answer can be about
\* no other team (g_fireteams.cpp:376).
PromptIsForLeader == \A c \in Client : privatePrompt[c] => IsLeader(c)

\* A countdown is never announced to a team its client has left, or by a client that has
\* gone (etj_fireteam_countdown.h, removeCountdown).
CountdownHasTeam == \A c \in countdown : OnFireteam(c)

\* What a client got as a member, the prompt of a leader and a countdown, ends with its
\* membership, however it ends: leaving, a kick, disbanding, a disconnect or a new map
\* (G_RemoveClientFromFireteams, g_fireteams.cpp:347).
EndsWithMembership == PromptIsForLeader /\ CountdownHasTeam

\* Nobody gets onto a team but by making it, or by an answer to a question that names its
\* slot and the slot of the client that leads the team at that moment (g_fireteams.cpp:22).
\* Who was in those slots when the question was asked is another matter: see
\* AskedByThatClient of FireteamQuestions.
AdmittedByLeader ==
    [][\A f \in Fireteam : \A c \in Members(f)' \ Members(f) :
           \/ ~fireTeams[f].inuse /\ fireTeams'[f].joinOrder = <<c>>
           \/ \E l \in Client : /\ Leads(l, f)
                                /\ application[l] = c \/ invitation[c] = l]_vars

\* The members of a team stay in the order they joined in, and so the leadership passes to
\* the first to have joined after the leader (g_fireteams.cpp:23), also over a map change.
SeniorityKept ==
    [][\A f \in Fireteam : fireTeams[f].inuse /\ fireTeams'[f].inuse =>
           \A i, j \in DOMAIN fireTeams'[f].joinOrder :
               (i < j /\ fireTeams'[f].joinOrder[j] \in Members(f)) =>
                   \E k, m \in DOMAIN fireTeams[f].joinOrder :
                       /\ k < m
                       /\ fireTeams[f].joinOrder[k] = fireTeams'[f].joinOrder[i]
                       /\ fireTeams[f].joinOrder[m] = fireTeams'[f].joinOrder[j]]_vars

\* The members of the teams in the order they joined in, and who is connected.
Orders == [f \in Fireteam |-> fireTeams[f].joinOrder]
Connected == {c \in Client : status[c] # "gone"}
Roster == INSTANCE Rosters WITH Team <- Fireteam, Room <- MaxUsers,
                                roster <- Orders, present <- Connected

\* Whatever is asked, answered, ruled, reconnected or carried over a map change, the teams
\* are rosters: a client gets on one only while it is connected and free, leaves one
\* without disturbing the order of the others, and is on none once it has gone
\* (G_AddClientToFireteam, G_RemoveClientFromFireteams, ClientDisconnect).
IsRosters == Roster!RosterSpec
=============================================================================
