------------------------------ MODULE SaveSystem ------------------------------
(***************************************************************************)
(* SaveSystem: the positions the clients save on a map, together with what *)
(* decides whether one may be loaded: the client's run, its team, and the  *)
(* connection under whose guid the positions are kept.  Cheats are off and *)
(* saving is enabled; a command that is refused is a step that changes     *)
(* nothing.                                                                *)
(***************************************************************************)
EXTENDS Integers, FiniteSets

CONSTANTS
    Client,             \* players, each with a guid of its own
    NoGuid,             \* the empty guid, of a client that is not identified
    NoEntry,            \* a guid without an entry in _savedPositions
    MaxSlot,            \* MAX_SAVED_POSITIONS - 1
    MaxBackup,          \* MAX_BACKUP_POSITIONS
    LimitedSaves,       \* game.worldspawn->limitedSaves; 0 is no limit
    RunFlags,           \* the runSpawnflags of the runs of the map
    MaxOrigin,          \* bound on the positions saved
    MaxRun,             \* bound on the runs started
    MaxRepeats,         \* bound on the times a client repeats its login
    QuickReconnects     \* TRUE: a client may connect again before the server
                        \* has noticed that it is gone

Flag == {"ResetTeamChange", "ResetDeath", "NoBackups", "NoSave"}

ASSUME SaveAssumption ==
    /\ NoGuid \notin Client
    /\ MaxSlot \in Nat /\ MaxBackup \in Nat \ {0} /\ LimitedSaves \in Nat
    /\ RunFlags \subseteq SUBSET Flag
    /\ MaxOrigin \in Nat /\ MaxRun \in Nat /\ MaxRepeats \in Nat
    /\ QuickReconnects \in BOOLEAN

VARIABLES
    status,         \* whether a client is gone, connecting or identified
    team,           \* client->sess.sessionTeam
    limbo,          \* PMF_LIMBO: waiting to be spawned
    timerunActive,  \* client->sess.timerunActive
    runSpawnflags,  \* client->sess.runSpawnflags
    saveLimit,      \* client->sess.saveLimit
    saves,          \* _clients[guid].alliesSaves and .axisSaves
    backups,        \* _clients[guid].alliesBackups and .axisBackups
    quickDeploy,    \* _clients[guid].quickDeployPositions
    savedPositions, \* _savedPositions
    origins,        \* history: number of positions saved
    savedIn,        \* history: the run in which each position was saved, 0 for none
    run,            \* history: number of the client's latest run
    loaded,         \* history: the runs whose positions its current run has loaded
    used,           \* history: saves counted against the limit of the map
    left,           \* history: saveLimit of the client when it last left
    repeats,        \* history: how often an identified client got back what it left
    repeatedInRun   \* history: whether it did in its current run

connection == <<status, team, limbo, saveLimit>>
timerun == <<timerunActive, runSpawnflags, run, loaded, repeatedInRun>>
positions == <<saves, backups, quickDeploy>>
counts == <<origins, savedIn, used, left, repeats>>
saveVars == <<connection, timerun, positions, savedPositions, counts>>

Guid == Client \cup {NoGuid}
Team == {"allies", "axis"}
Slot == 0..MaxSlot
Backup == 1..MaxBackup

\* A position stands for its origin, numbered in the order of saving.
Position == [isValid : BOOLEAN, isLatest : BOOLEAN, isTimerunSave : BOOLEAN,
             origin : 0..MaxOrigin]
NoPosition == [isValid |-> FALSE, isLatest |-> FALSE, isTimerunSave |-> FALSE, origin |-> 0]

\* DisconnectedClient: what is kept of the slots, and the limit.
StoredPosition == [isValid : BOOLEAN, isLatest : BOOLEAN, origin : 0..MaxOrigin]
Stored == [saves : [Team -> [Slot -> StoredPosition]], saveLimit : 0..LimitedSaves]

ASSUME NoEntryAssumption == NoEntry \notin Stored

SaveInit ==
    /\ status = [c \in Client |-> "gone"]
    /\ team = [c \in Client |-> "spectator"]
    /\ limbo = [c \in Client |-> FALSE]
    /\ timerunActive = [c \in Client |-> FALSE]
    /\ runSpawnflags = [c \in Client |-> {}]
    /\ saveLimit = [c \in Client |-> LimitedSaves]
    /\ saves = [g \in Guid |-> [t \in Team |-> [s \in Slot |-> NoPosition]]]
    /\ backups = [g \in Guid |-> [t \in Team |-> [b \in Backup |-> NoPosition]]]
    /\ quickDeploy = [g \in Guid |-> [t \in Team |-> NoPosition]]
    /\ savedPositions = [g \in Guid |-> NoEntry]
    /\ origins = 0
    /\ savedIn = [o \in 0..MaxOrigin |-> 0]
    /\ run = [c \in Client |-> 0]
    /\ loaded = [c \in Client |-> {}]
    /\ used = [c \in Client |-> 0]
    /\ left = [c \in Client |-> LimitedSaves]
    /\ repeats = [c \in Client |-> 0]
    /\ repeatedInRun = [c \in Client |-> FALSE]

\* _session->Guid: every operation finds a client's positions by it.
GuidOf(c) == IF status[c] = "identified" THEN c ELSE NoGuid

\* Whose login was repeated after something had been stored.
Repeated == {c \in Client : repeats[c] > 0}

Playing(c) == status[c] = "identified" /\ team[c] \in Team
RunHas(c, flag) == timerunActive[c] /\ flag \in runSpawnflags[c]

-----------------------------------------------------------------------------
(* Runs.                                                                   *)

\* InterruptRun and stopRun.
EndRun(c) ==
    /\ timerunActive' = [timerunActive EXCEPT ![c] = FALSE]
    /\ loaded' = [loaded EXCEPT ![c] = {}]
    /\ repeatedInRun' = [repeatedInRun EXCEPT ![c] = FALSE]
    /\ UNCHANGED <<runSpawnflags, run>>

EndRunIf(c, condition) ==
    IF timerunActive[c] /\ condition THEN EndRun(c) ELSE UNCHANGED timerun

\* Mutants: an invalidated slot stays the latest one, and the copy for quick
\* deploying is forgotten.
ClearedSaveKeepingLatest(p) == IF p.isTimerunSave THEN [p EXCEPT !.isValid = FALSE] ELSE p
QuickNotCleared(p) == p

Invalidated(p) == [p EXCEPT !.isValid = FALSE]
NotLatest(p) == [p EXCEPT !.isLatest = FALSE]

\* clearTimerunSaves on a slot, on a quick deploy position and on the backups,
\* where those that are kept move up and default ones follow.
ClearedSave(p) == IF p.isTimerunSave THEN NotLatest(Invalidated(p)) ELSE p
ClearedQuick(p) == IF p.isTimerunSave THEN Invalidated(p) ELSE p
Kept(bs) == {b \in Backup : ~bs[b].isTimerunSave}
Place(bs, b) == Cardinality({k \in Kept(bs) : k =< b})
ClearedBackups(bs) ==
    [i \in Backup |-> IF \E b \in Kept(bs) : Place(bs, b) = i
                      THEN bs[CHOOSE b \in Kept(bs) : Place(bs, b) = i]
                      ELSE NoPosition]

ClearTimerunSaves(g) ==
    /\ saves' = [saves EXCEPT ![g] = [t \in Team |-> [s \in Slot |-> ClearedSave(saves[g][t][s])]]]
    /\ quickDeploy' = [quickDeploy EXCEPT ![g] = [t \in Team |-> ClearedQuick(quickDeploy[g][t])]]
    /\ backups' = [backups EXCEPT ![g] = [t \in Team |-> ClearedBackups(backups[g][t])]]

\* A start trigger, startTimer and startRun.
StartRun(c, flags) ==
    /\ Playing(c) /\ ~limbo[c]
    /\ ~timerunActive[c]
    /\ run[c] < MaxRun
    /\ timerunActive' = [timerunActive EXCEPT ![c] = TRUE]
    /\ runSpawnflags' = [runSpawnflags EXCEPT ![c] = flags]
    /\ run' = [run EXCEPT ![c] = @ + 1]
    /\ loaded' = [loaded EXCEPT ![c] = {}]
    /\ repeatedInRun' = [repeatedInRun EXCEPT ![c] = FALSE]
    /\ IF "NoSave" \in flags THEN UNCHANGED positions ELSE ClearTimerunSaves(GuidOf(c))
    /\ UNCHANGED <<connection, savedPositions, counts>>

\* The stop trigger, an interrupt command or trigger, lag, ...
StopRun(c) ==
    /\ timerunActive[c]
    /\ EndRun(c)
    /\ UNCHANGED <<connection, positions, savedPositions, counts>>

-----------------------------------------------------------------------------
(* Saving.                                                                 *)

LatestSlots(g, t) == {s \in Slot : saves[g][t][s].isLatest}
FirstOf(slots) == CHOOSE s \in slots : \A other \in slots : s =< other

\* Mutant: whatever is overwritten is backed up.
BackedUpOverwritten(g, t, s) == s

\* The slot that is backed up: the one that is overwritten if it is the latest,
\* else the latest one.
BackedUp(g, t, s) == IF saves[g][t][s].isLatest THEN s ELSE FirstOf(LatestSlots(g, t))

\* saveBackupPosition: the oldest backup makes place, but not in a run without
\* backups.
BackUpLatest(c, t, s) ==
    LET g == GuidOf(c)
    IN  IF LatestSlots(g, t) = {} \/ RunHas(c, "NoBackups") THEN UNCHANGED backups
        ELSE backups' = [backups EXCEPT ![g][t] =
                [b \in Backup |-> IF b = 1 THEN saves[g][t][BackedUp(g, t, s)]
                                  ELSE backups[g][t][b - 1]]]

\* storePosition: a new position, in the run of the client if it is in one.
StoredIn(c) ==
    /\ origins < MaxOrigin
    /\ origins' = origins + 1
    /\ savedIn' = [savedIn EXCEPT ![origins + 1] = IF timerunActive[c] THEN run[c] ELSE 0]

NewPosition(c) == [isValid |-> TRUE, isLatest |-> TRUE, isTimerunSave |-> timerunActive[c],
                   origin |-> origins + 1]

\* The common end of save and forceSave.
StoreSave(c, t, s) ==
    LET g == GuidOf(c)
    IN  /\ BackUpLatest(c, t, s)
        /\ saves' = [saves EXCEPT ![g][t] =
               [i \in Slot |-> IF i = s THEN NewPosition(c) ELSE NotLatest(saves[g][t][i])]]
        /\ StoredIn(c)
        /\ UNCHANGED <<quickDeploy, status, team, limbo, timerun, savedPositions, left, repeats>>

Save(c, s) ==
    /\ Playing(c)
    /\ ~RunHas(c, "NoSave")
    /\ s > 0 => ~RunHas(c, "NoBackups")
    /\ IF LimitedSaves > 0
       THEN /\ saveLimit[c] > 0
            /\ saveLimit' = [saveLimit EXCEPT ![c] = @ - 1]
            /\ used' = [used EXCEPT ![c] = @ + 1]
       ELSE UNCHANGED <<saveLimit, used>>
    /\ StoreSave(c, team[c], s)

\* target_save stores its own position in the first slot and asks for nothing.
ForceSave(c) ==
    /\ Playing(c)
    /\ StoreSave(c, team[c], 0)
    /\ UNCHANGED <<saveLimit, used>>

\* trigger_savereset, target_savereset, a death run, the command.
ResetSavedPositions(c) ==
    LET g == GuidOf(c)
    IN  /\ Playing(c)
        /\ saves' = [saves EXCEPT ![g] = [t \in Team |-> [s \in Slot |-> NoPosition]]]
        /\ backups' = [backups EXCEPT ![g] = [t \in Team |-> [b \in Backup |-> NoPosition]]]
        /\ quickDeploy' = [quickDeploy EXCEPT ![g] = [t \in Team |-> NoPosition]]
        /\ UNCHANGED <<connection, timerun, savedPositions, counts>>

-----------------------------------------------------------------------------
(* Loading.  A position of another time than the run's, or any position in *)
(* a run without saves, ends the run before the client is teleported.      *)

TeleportTo(c, p, interrupts) ==
    IF timerunActive[c] /\ ~interrupts
    THEN /\ loaded' = [loaded EXCEPT ![c] = @ \cup {savedIn[p.origin]}]
         /\ UNCHANGED <<timerunActive, runSpawnflags, run, repeatedInRun>>
    ELSE EndRunIf(c, interrupts)

Interrupts(c, p) == "NoSave" \in runSpawnflags[c] \/ ~p.isTimerunSave

Load(c, s) ==
    LET p == saves[GuidOf(c)][team[c]][s]
    IN  /\ Playing(c)
        /\ p.isValid
        /\ s > 0 /\ RunHas(c, "NoBackups") => ~p.isTimerunSave
        /\ TeleportTo(c, p, Interrupts(c, p))
        /\ UNCHANGED <<connection, positions, savedPositions, counts>>

LoadBackupPosition(c, b) ==
    LET p == backups[GuidOf(c)][team[c]][b]
    IN  /\ Playing(c)
        /\ ~RunHas(c, "NoBackups")
        /\ p.isValid
        /\ TeleportTo(c, p, Interrupts(c, p))
        /\ UNCHANGED <<connection, positions, savedPositions, counts>>

-----------------------------------------------------------------------------
(* Teams and spawning.                                                     *)

\* SetTeam keeps a copy of the first slot of the team that is left, kills the
\* player unless it waits to be spawned, and puts it in limbo.
SetTeam(c, t) ==
    LET g == GuidOf(c)
        old == team[c]
        first == saves[g][old][0]
        dies == old \in Team /\ ~limbo[c] /\ "ResetDeath" \in runSpawnflags[c]
    IN  /\ status[c] = "identified"
        /\ t # old
        /\ quickDeploy' = IF old \in Team /\ first.isValid
                          THEN [quickDeploy EXCEPT ![g][old] = first] ELSE quickDeploy
        /\ team' = [team EXCEPT ![c] = t]
        /\ limbo' = [limbo EXCEPT ![c] = t \in Team]
        /\ EndRunIf(c, \/ t = "spectator" \/ runSpawnflags[c] = {}
                       \/ "ResetTeamChange" \in runSpawnflags[c] \/ dies)
        /\ UNCHANGED <<status, saveLimit, saves, backups, savedPositions, counts>>

Die(c) ==
    /\ Playing(c) /\ ~limbo[c]
    /\ limbo' = [limbo EXCEPT ![c] = TRUE]
    /\ EndRunIf(c, runSpawnflags[c] = {} \/ "ResetDeath" \in runSpawnflags[c])
    /\ UNCHANGED <<status, team, saveLimit, positions, savedPositions, counts>>

Spawn(c) ==
    /\ Playing(c) /\ limbo[c]
    /\ limbo' = [limbo EXCEPT ![c] = FALSE]
    /\ UNCHANGED <<status, team, saveLimit, saves, backups, savedPositions, counts>>

UseQuickDeploy(c) ==
    quickDeploy' = [quickDeploy EXCEPT ![GuidOf(c)][team[c]] = Invalidated(@)]

\* A client without etj_autoLoad, or without a position to load.
SpawnAtSpawnPoint(c) ==
    /\ Spawn(c)
    /\ UNCHANGED <<timerun, quickDeploy>>

\* loadOnceTeamQuickDeployPosition
SpawnQuickDeployed(c) ==
    LET p == quickDeploy[GuidOf(c)][team[c]]
    IN  /\ Spawn(c)
        /\ p.isValid
        /\ TeleportTo(c, p, Interrupts(c, p))
        /\ UseQuickDeploy(c)

\* A client that was moved for inactivity returns to where it was.
SpawnAfterInactivity(c) ==
    /\ Spawn(c)
    /\ quickDeploy[GuidOf(c)][team[c]].isValid
    /\ UseQuickDeploy(c)
    /\ UNCHANGED timerun

-----------------------------------------------------------------------------
(* Connections.                                                            *)

\* ClientConnect of a new client.
NewSession(c) ==
    /\ team' = [team EXCEPT ![c] = "spectator"]
    /\ limbo' = [limbo EXCEPT ![c] = FALSE]
    /\ timerunActive' = [timerunActive EXCEPT ![c] = FALSE]
    /\ runSpawnflags' = [runSpawnflags EXCEPT ![c] = {}]
    /\ loaded' = [loaded EXCEPT ![c] = {}]
    /\ repeatedInRun' = [repeatedInRun EXCEPT ![c] = FALSE]
    /\ saveLimit' = [saveLimit EXCEPT ![c] = LimitedSaves]
    /\ UNCHANGED run

\* Mutant: which slot is the latest is not kept.
SnapshotWithoutLatest(p) == [isValid |-> p.isValid, isLatest |-> FALSE, origin |-> p.origin]

\* savePositionsToDatabase, under the guid the session has by then.
Snapshot(p) == [isValid |-> p.isValid, isLatest |-> p.isLatest, origin |-> p.origin]
SavePositionsToDatabase(c, g) ==
    savedPositions' = [savedPositions EXCEPT ![g] =
        [saves |-> [t \in Team |-> [s \in Slot |-> Snapshot(saves[g][t][s])]],
         saveLimit |-> saveLimit[c]]]

Leaves(c) ==
    /\ left' = IF status[c] = "identified" THEN [left EXCEPT ![c] = saveLimit[c]] ELSE left
    /\ UNCHANGED <<positions, origins, savedIn, used, repeats>>

Connect(c) ==
    /\ status[c] = "gone"
    /\ status' = [status EXCEPT ![c] = "connecting"]
    /\ NewSession(c)
    /\ UNCHANGED <<positions, savedPositions, counts>>

\* What loadPositionsFromDatabase leaves of a slot: the mark of a run is its own.
Restored(p, kept) == [isValid |-> kept.isValid, isLatest |-> kept.isLatest,
                      isTimerunSave |-> p.isTimerunSave, origin |-> kept.origin]

\* History: a client that is identified already has its login repeated.
CountRepeat(c) ==
    IF status[c] = "identified"
    THEN /\ repeats[c] < MaxRepeats
         /\ repeats' = [repeats EXCEPT ![c] = @ + 1]
         /\ repeatedInRun' = [repeatedInRun EXCEPT ![c] = timerunActive[c]]
    ELSE UNCHANGED <<repeats, repeatedInRun>>

\* Mutant: the limit of the earlier session is not restored.
LoadPositionsKeepingLimit(c) ==
    LET stored == savedPositions[c]
    IN  /\ IF stored = NoEntry THEN UNCHANGED <<saves, repeats, repeatedInRun>>
           ELSE /\ saves' = [saves EXCEPT ![c] = [t \in Team |-> [s \in Slot |->
                                Restored(saves[c][t][s], stored.saves[t][s])]]]
                /\ CountRepeat(c)
        /\ UNCHANGED saveLimit

\* loadPositionsFromDatabase: the slots and the limit of the last disconnect.  The entry
\* stays, so each AUTHENTICATE brings them back.
LoadPositionsFromDatabase(c) ==
    LET stored == savedPositions[c]
    IN  IF stored = NoEntry THEN UNCHANGED <<saves, saveLimit, repeats, repeatedInRun>>
        ELSE /\ saves' = [saves EXCEPT ![c] = [t \in Team |-> [s \in Slot |->
                             Restored(saves[c][t][s], stored.saves[t][s])]]]
             /\ saveLimit' = [saveLimit EXCEPT ![c] = stored.saveLimit]
             /\ CountRepeat(c)

\* AUTHENTICATE, the answer to a guid request, or one more of it: nothing asks whether
\* the client is identified already.
Authenticate(c) ==
    /\ status[c] # "gone"
    /\ status' = [status EXCEPT ![c] = "identified"]
    /\ LoadPositionsFromDatabase(c)
    /\ UNCHANGED <<team, limbo, timerunActive, runSpawnflags, run, loaded, backups,
                   quickDeploy, savedPositions, origins, savedIn, used, left>>

\* ClientDisconnect.  The engine calls it for a client that leaves; ClientConnect
\* calls it for one that connects again while its entity is still in use, after
\* OnClientConnect has cleared the guid of the session.  The session is renewed here
\* already: nothing reads it before the next ClientConnect.
Disconnect(c, again) ==
    /\ again => QuickReconnects
    /\ status[c] # "gone"
    /\ status' = [status EXCEPT ![c] = IF again THEN "connecting" ELSE "gone"]
    /\ SavePositionsToDatabase(c, IF again THEN NoGuid ELSE GuidOf(c))
    /\ Leaves(c)
    /\ NewSession(c)

-----------------------------------------------------------------------------
RunStep(c) ==
    \/ \E flags \in RunFlags : StartRun(c, flags)
    \/ StopRun(c) \/ Die(c)

PositionStep(c) ==
    \/ \E s \in Slot : Save(c, s) \/ Load(c, s)
    \/ \E b \in Backup : LoadBackupPosition(c, b)
    \/ ForceSave(c) \/ ResetSavedPositions(c)

TeamStep(c) ==
    \/ \E t \in Team \cup {"spectator"} : SetTeam(c, t)
    \/ SpawnAtSpawnPoint(c) \/ SpawnQuickDeployed(c) \/ SpawnAfterInactivity(c)

ConnectionStep(c) ==
    \/ Connect(c) \/ Authenticate(c)
    \/ \E again \in BOOLEAN : Disconnect(c, again)

SaveNext == \E c \in Client : RunStep(c) \/ PositionStep(c) \/ TeamStep(c) \/ ConnectionStep(c)

SaveSpec == SaveInit /\ [][SaveNext]_saveVars

-----------------------------------------------------------------------------
(* Properties.                                                             *)

SaveTypeOK ==
    /\ status \in [Client -> {"gone", "connecting", "identified"}]
    /\ team \in [Client -> Team \cup {"spectator"}]
    /\ limbo \in [Client -> BOOLEAN]
    /\ timerunActive \in [Client -> BOOLEAN]
    /\ runSpawnflags \in [Client -> SUBSET Flag]
    /\ saveLimit \in [Client -> 0..LimitedSaves]
    /\ saves \in [Guid -> [Team -> [Slot -> Position]]]
    /\ backups \in [Guid -> [Team -> [Backup -> Position]]]
    /\ quickDeploy \in [Guid -> [Team -> Position]]
    /\ savedPositions \in [Guid -> Stored \cup {NoEntry}]
    /\ origins \in 0..MaxOrigin
    /\ savedIn \in [0..MaxOrigin -> 0..MaxRun]
    /\ run \in [Client -> 0..MaxRun]
    /\ loaded \in [Client -> SUBSET (0..MaxRun)]
    /\ used \in [Client -> Nat]
    /\ left \in [Client -> 0..LimitedSaves]
    /\ repeats \in [Client -> Nat]
    /\ repeatedInRun \in [Client -> BOOLEAN]

\* A team has at most one latest slot and it holds a position, through saves in and
\* out of runs, runs that clear them, resets and reconnects: what save and target_save
\* back up is what the client saved last.
LatestIsSaved ==
    \A g \in Guid, t \in Team :
       \A s \in LatestSlots(g, t) : saves[g][t][s].isValid /\ LatestSlots(g, t) = {s}

\* The backups are numbered from the newest, without gaps, and none is newer than the
\* latest slot: "backup 1" is where the client saved before. A client that repeats its
\* login gets older slots back under the backups it has, and only such a client can
\* find them out of order (loadPositionsFromDatabase restores no backups).
BackupsNewestFirst ==
    \A g \in Guid \ Repeated, t \in Team :
       LET b == backups[g][t]
       IN  /\ \A j \in Backup, i \in Backup : i < j /\ b[j].isValid =>
                 b[i].isValid /\ b[i].origin > b[j].origin
           /\ \A s \in LatestSlots(g, t) : b[1].isValid => saves[g][t][s].origin > b[1].origin

\* A run is made with its own positions: whatever a client saves, loads, backs up or
\* is quick deployed to, over team changes, earlier runs and reconnects, a run that
\* goes on has only been teleported to positions saved in that very run, and a run
\* without saves to none. Only a login repeated in the run itself breaks it: it puts
\* other origins under the marks of the run, and the next run is sound again.
RunUsesOwnPositions ==
    \A c \in Client :
       timerunActive[c] /\ ~repeatedInRun[c] =>
          loaded[c] \subseteq (IF "NoSave" \in runSpawnflags[c] THEN {} ELSE {run[c]})

\* On a map with a limit nobody saves more often than it allows by reconnecting, however
\* often; each repeated login gives the limit once more, and never more than that.
LimitHolds ==
    LimitedSaves > 0 => \A c \in Client : used[c] <= LimitedSaves * (1 + repeats[c])

\* "so lets just fix up anything that should happen on a disconnect" (g_client.cpp):
\* a client that returns finds the positions and the limit it left.
SavesSurviveReconnect ==
    [][\A c \in Client :
          status[c] = "connecting" /\ status'[c] = "identified" =>
             saves'[c] = saves[c] /\ saveLimit'[c] = left[c]]_saveVars
=============================================================================
