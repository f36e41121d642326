------------------------------- MODULE TimerunV2 -------------------------------
(***************************************************************************)
(* TimerunV2: runs, records and the caches of the connected players.  The  *)
(* game thread starts and stops runs, posts tasks and runs their           *)
(* callbacks; the worker thread runs the tasks against the database.       *)
(*                                                                         *)
(* SynchronizationContext_proof shows that the two queues behave as one    *)
(* first-in first-out queue, so a task is one step of the worker and a     *)
(* callback is one step of the game thread.                                *)
(***************************************************************************)
EXTENDS TimerunRepository, Sequences

CONSTANTS
    MaxClient,      \* client slots 1..MaxClient
    Nobody,         \* user id -1, of a slot without a client
    NoPlayer,       \* a null entry of _players
    NoRun,          \* an empty activeRunName
    Banned,         \* users whose guid is banned
    Commands,       \* the administration commands a run explores
    MaxPosted,      \* bound on the tasks posted
    OrderlyClients  \* TRUE: clients finish their login before they leave, and
                    \* a user plays from one slot

ASSUME ClientAssumption == MaxClient \in Nat \ {0}
ASSUME NobodyAssumption == Nobody \in User /\ NoRun \notin Run /\ Banned \subseteq User
ASSUME PostedAssumption == MaxPosted \in Nat /\ MaxPosted =< MaxDate
ASSUME OrderlyAssumption == OrderlyClients \in BOOLEAN

VARIABLES
    connected,      \* the user behind each slot
    identified,     \* whether the client of a slot has answered the guid request
    timerunActive,  \* client->sess.timerunActive
    players,        \* _players
    incomplete,     \* tasks the worker has not run
    completed,      \* tasks whose callback has not run, with their results
    active,         \* _activeSeasonsIds
    posted,         \* history: number of tasks posted
    announced       \* history: the last overall record broadcast for each run

clients == <<connected, identified, timerunActive>>
tasks == <<incomplete, completed, posted>>
timerunVars == <<repositoryVars, clients, players, tasks, active, announced>>

Slot == 1..MaxClient
Person == User \ {Nobody}

\* player->records: the rows of one user in the active seasons.
CacheKey == Season \X Run
Cache == [CacheKey -> Completion \cup {NoRecord}]
NoRecords == [k \in CacheKey |-> NoRecord]

\* A cache after the rows of a patch were replaced.
Patched(cache, patch) ==
    [k \in CacheKey |-> IF k \in DOMAIN patch THEN patch[k] ELSE cache[k]]

\* A newly made Player is not in a run.
NewPlayer(u, records) == [user |-> u, records |-> records, running |-> FALSE, run |-> NoRun]

PlayerState == [user : User, records : Cache, running : BOOLEAN, run : Run \cup {NoRun}]

ASSUME NoPlayerAssumption == NoPlayer \notin PlayerState

TimerunInit ==
    /\ RepositoryInit
    /\ connected = [c \in Slot |-> Nobody]
    /\ identified = [c \in Slot |-> FALSE]
    /\ timerunActive = [c \in Slot |-> FALSE]
    /\ players = [c \in Slot |-> NoPlayer]
    /\ incomplete = <<>>
    /\ completed = <<>>
    /\ active = {Default}
    /\ posted = 0
    /\ announced = [r \in Run |-> 0]

\* _sc->postTask
Post(t) ==
    /\ posted < MaxPosted
    /\ incomplete' = Append(incomplete, t)
    /\ posted' = posted + 1
    /\ UNCHANGED completed

ConnectTask(c, u) == [kind |-> "connect", slot |-> c, user |-> u]

LoginPending(c) ==
    \/ \E i \in 1..Len(incomplete) : incomplete[i].kind = "connect" /\ incomplete[i].slot = c
    \/ \E i \in 1..Len(completed) : /\ completed[i].task.kind = "connect"
                                    /\ completed[i].task.slot = c

\* findPlayerByUserId returns the first slot with that user.
SlotsOf(u) == {c \in Slot : players[c] # NoPlayer /\ players[c].user = u}
FirstSlotOf(u) == CHOOSE c \in SlotsOf(u) : \A d \in SlotsOf(u) : c <= d

-----------------------------------------------------------------------------
(* Clients come and go.                                                    *)

\* ClientConnect and OnClientConnect of a new client: the guid is requested.
Connect(c, u) ==
    /\ connected[c] = Nobody
    /\ OrderlyClients => \A d \in Slot : connected[d] # u
    /\ connected' = [connected EXCEPT ![c] = u]
    /\ identified' = [identified EXCEPT ![c] = FALSE]
    /\ timerunActive' = [timerunActive EXCEPT ![c] = FALSE]
    /\ UNCHANGED <<repositoryVars, players, tasks, active, announced>>

\* The answer to the guid request.  A banned client is dropped, and the player
\* of its slot is still asked for, as user -1.
Authenticate(c) ==
    LET u == connected[c]
        banned == u \in Banned
    IN  /\ u # Nobody
        /\ OrderlyClients => ~identified[c]
        /\ Post(ConnectTask(c, IF banned THEN Nobody ELSE u))
        /\ connected' = [connected EXCEPT ![c] = IF banned THEN Nobody ELSE u]
        /\ identified' = [identified EXCEPT ![c] = ~banned]
        /\ players' = [players EXCEPT ![c] = IF banned THEN NoPlayer ELSE @]
        /\ UNCHANGED <<repositoryVars, timerunActive, active, announced>>

\* Mutant of Disconnect: the player object of the slot is kept.
DisconnectKeepingPlayer(c) ==
    /\ connected[c] # Nobody
    /\ OrderlyClients => identified[c] /\ ~LoginPending(c)
    /\ connected' = [connected EXCEPT ![c] = Nobody]
    /\ identified' = [identified EXCEPT ![c] = FALSE]
    /\ UNCHANGED <<repositoryVars, players, timerunActive, tasks, active, announced>>

\* OnClientDisconnect empties the slot; tasks that name it stay queued.
Disconnect(c) ==
    /\ connected[c] # Nobody
    /\ OrderlyClients => identified[c] /\ ~LoginPending(c)
    /\ connected' = [connected EXCEPT ![c] = Nobody]
    /\ identified' = [identified EXCEPT ![c] = FALSE]
    /\ players' = [players EXCEPT ![c] = NoPlayer]
    /\ UNCHANGED <<repositoryVars, timerunActive, tasks, active, announced>>

\* updateSeasonStates follows every season command and begins every map: any season
\* but the overall one may turn out to be past, active or upcoming.
UpdateSeasonStates == active' \in {a \in SUBSET season' : Default \in a}

\* A new map: the worker is stopped, the tasks it did not run and the callbacks
\* that did not run are dropped, the seasons are read again, and every client that is
\* carried over is loaded again, in the order of the slots, from the database.
MapChange ==
    LET carried == {c \in Slot : connected[c] # Nobody}
        n == Cardinality(carried)
    IN  /\ \A c \in carried : identified[c]
        /\ posted + n <= MaxPosted
        /\ players' = [c \in Slot |-> NoPlayer]
        /\ timerunActive' = [c \in Slot |-> FALSE]
        /\ \E order \in [1..n -> carried] :
              /\ \A i, j \in 1..n : i < j => order[i] < order[j]
              /\ incomplete' = [i \in 1..n |-> ConnectTask(order[i], connected[order[i]])]
        /\ completed' = <<>>
        /\ posted' = posted + n
        /\ announced' = [r \in Run |-> 0]
        /\ UNCHANGED <<repositoryVars, connected, identified>>
        /\ UpdateSeasonStates

-----------------------------------------------------------------------------
(* Runs.                                                                   *)

Running(c) == players[c] # NoPlayer /\ players[c].running

\* A start trigger is ignored during a run, and without a player object.
StartTimer(c, r) ==
    /\ connected[c] # Nobody
    /\ ~timerunActive[c]
    /\ players[c] # NoPlayer
    /\ ~players[c].running
    /\ players' = [players EXCEPT ![c].running = TRUE, ![c].run = r]
    /\ timerunActive' = [timerunActive EXCEPT ![c] = TRUE]
    /\ UNCHANGED <<repositoryVars, connected, identified, tasks, active, announced>>

\* Loading a position of a run interrupts the current run and starts that one.
StartSaveposTimer(c, r) ==
    /\ connected[c] # Nobody
    /\ players[c] # NoPlayer
    /\ players' = [players EXCEPT ![c].running = TRUE, ![c].run = r]
    /\ timerunActive' = [timerunActive EXCEPT ![c] = TRUE]
    /\ UNCHANGED <<repositoryVars, connected, identified, tasks, active, announced>>

EndRun(c) ==
    /\ players' = [players EXCEPT ![c].running = FALSE, ![c].run = NoRun]
    /\ timerunActive' = [timerunActive EXCEPT ![c] = FALSE]
    /\ UNCHANGED <<repositoryVars, connected, identified, active, announced>>

\* The stop trigger of the run the player is in: the completion is checked for a
\* record, unless cheats or trackers are being debugged, and the run is over.
StopTimer(c, r, t) ==
    /\ connected[c] # Nobody
    /\ Running(c)
    /\ players[c].run = r
    /\ \/ Post([kind |-> "check", user |-> players[c].user, run |-> r, time |-> t])
       \/ UNCHANGED tasks
    /\ EndRun(c)

\* Mutant of Interrupt: the session flag is left set.
InterruptKeepingFlag(c) ==
    /\ connected[c] # Nobody
    /\ Running(c)
    /\ players' = [players EXCEPT ![c].running = FALSE, ![c].run = NoRun]
    /\ UNCHANGED <<repositoryVars, clients, tasks, active, announced>>

\* interrupt: team change, death, teleport, load, ...
Interrupt(c) ==
    /\ connected[c] # Nobody
    /\ Running(c)
    /\ EndRun(c)
    /\ UNCHANGED tasks

-----------------------------------------------------------------------------
(* Commands that change the database.                                      *)

PostCommand(t) ==
    /\ t.kind \in Commands
    /\ Post(t)
    /\ UNCHANGED <<repositoryVars, clients, players, active, announced>>

\* The caller is identified; an administrator may name another user.
RemoveCommand(c, target, u, r) ==
    /\ connected[c] # Nobody /\ identified[c]
    /\ PostCommand([kind |-> "remove", target |-> target, user |-> u, run |-> r,
                    by |-> connected[c]])

\* The caller names an archived row, which may be gone when the task runs.
RestoreCommand(c, row, admin, force) ==
    /\ connected[c] # Nobody /\ identified[c]
    /\ PostCommand([kind |-> "restore", row |-> row, user |-> row.key.user,
                    caller |-> connected[c], admin |-> admin, force |-> force])

SeasonCommand(c, kind, s) ==
    /\ connected[c] # Nobody /\ identified[c]
    /\ PostCommand([kind |-> kind, season |-> s])

-----------------------------------------------------------------------------
(* The worker thread.  A task that succeeds leaves the rows its callback   *)
(* applies to the cache of a player.                                       *)

NextTask(kind) == incomplete # <<>> /\ Head(incomplete).kind = kind

Finish(patch, top) ==
    /\ incomplete' = Tail(incomplete)
    /\ completed' = Append(completed, [task |-> Head(incomplete), ok |-> TRUE,
                                       patch |-> patch, top |-> top])
    /\ UNCHANGED <<clients, players, posted, announced>>

\* The cache rows of a set of database rows.
PatchOf(d, rows) ==
    [k \in {<<x.season, x.run>> : x \in rows} |->
        LET row == CHOOSE x \in rows : <<x.season, x.run>> = k IN d.live[row]]

\* clientConnect reads the records of the user in the active seasons.
RunConnect ==
    LET t == Head(incomplete)
        rows == {Row(s, t.user, r) : s \in active, r \in Run}
    IN  /\ NextTask("connect")
        /\ Finish(Patched(NoRecords, PatchOf(db, rows)), FALSE)
        /\ UNCHANGED <<repositoryVars, active>>

\* Mutant of RunCheck: a player's own record counts as the overall one.
RunCheckOwnRecord ==
    LET t == Head(incomplete)
        c == [time |-> t.time, date |-> date + 1]
        new == NewRecordSeasons(db, active, t.user, t.run, c)
    IN  /\ NextTask("check")
        /\ Complete(active, t.user, t.run, t.time)
        /\ Finish(PatchOf(db', {Row(s, t.user, t.run) : s \in new}), Default \in new)
        /\ UNCHANGED active

\* checkRecord stores the completion in the active seasons it improves.  It is
\* the overall record if it beats every record of the run, read before the write.
RunCheck ==
    LET t == Head(incomplete)
        c == [time |-> t.time, date |-> date + 1]
        new == NewRecordSeasons(db, active, t.user, t.run, c)
        overall == {db.live[Row(Default, u, t.run)] : u \in User} \ {NoRecord}
    IN  /\ NextTask("check")
        /\ Complete(active, t.user, t.run, t.time)
        /\ Finish(PatchOf(db', {Row(s, t.user, t.run) : s \in new}),
                  Default \in new /\ \A o \in overall : c.time < o.time)
        /\ UNCHANGED active

RunRemove ==
    LET t == Head(incomplete)
    IN  /\ NextTask("remove")
        /\ Remove(t.target, t.user, t.run, t.by)
        /\ Finish(PatchOf(db', RemovedRows(db, t.target, t.user, t.run)), FALSE)
        /\ UNCHANGED active

RunRestore ==
    LET t == Head(incomplete)
        rows == {b.key : b \in Restorable(db, t.row, t.caller, t.admin)}
    IN  /\ NextTask("restore")
        /\ Restore(t.row, t.caller, t.admin, t.force)
        /\ Finish(PatchOf(db', rows), FALSE)
        /\ UNCHANGED active

RunSeasonCommand ==
    LET t == Head(incomplete)
    IN  /\ \/ NextTask("addSeason") /\ AddSeason
           \/ NextTask("deleteSeason") /\ t.season \in season /\ DeleteSeason(t.season)
           \/ NextTask("editSeason") /\ t.season \in season /\ UNCHANGED repositoryVars
        /\ UpdateSeasonStates
        /\ Finish(<<>>, FALSE)

\* Mutants of FailTask: a removal without a transaction throws between its two
\* statements, and a task that throws is queued again.
FailTaskHalfway ==
    /\ incomplete # <<>>
    /\ incomplete' = Tail(incomplete)
    /\ completed' = Append(completed, [task |-> Head(incomplete), ok |-> FALSE])
    /\ LET t == Head(incomplete)
       IN  IF t.kind = "remove" /\ CanRemove(db, season, t.target, t.user, t.run)
           THEN db' = [RemoveRecord(db, t.target, t.user, t.run, t.by) EXCEPT !.live = db.live]
           ELSE UNCHANGED db
    /\ UNCHANGED <<season, lastSeason, date, clients, players, posted, active, announced>>

RetryTask ==
    /\ incomplete # <<>>
    /\ incomplete' = Append(Tail(incomplete), Head(incomplete))
    /\ UNCHANGED <<repositoryVars, clients, completed, players, posted, active, announced>>

\* A task that throws has changed nothing.
FailTask ==
    /\ incomplete # <<>>
    /\ incomplete' = Tail(incomplete)
    /\ completed' = Append(completed, [task |-> Head(incomplete), ok |-> FALSE])
    /\ UNCHANGED <<repositoryVars, clients, players, posted, active, announced>>

RunTask ==
    RunConnect \/ RunCheck \/ RunRemove \/ RunRestore \/ RunSeasonCommand \/ FailTask

-----------------------------------------------------------------------------
(* Callbacks, run by the game thread one after the other.                  *)

PopCompleted == completed' = Tail(completed) /\ UNCHANGED <<incomplete, posted>>

\* The player the callback finds for the user of the task has its records
\* patched; nobody has to be there.
PatchPlayer(u, patch) ==
    players' = IF SlotsOf(u) = {} THEN players
               ELSE [players EXCEPT ![FirstSlotOf(u)].records = Patched(@, patch)]

\* clientConnect's callback makes the player of the slot, whoever is in it now.
ConnectCallback ==
    LET o == Head(completed)
    IN  /\ completed # <<>> /\ o.ok /\ o.task.kind = "connect"
        /\ players' = [players EXCEPT ![o.task.slot] = NewPlayer(o.task.user, o.patch)]
        /\ PopCompleted
        /\ UNCHANGED <<repositoryVars, clients, active, announced>>

\* checkRecord's callback announces an overall record and patches the cache.
CheckCallback ==
    LET o == Head(completed)
    IN  /\ completed # <<>> /\ o.ok /\ o.task.kind = "check"
        /\ announced' = IF o.top THEN [announced EXCEPT ![o.task.run] = o.task.time]
                        ELSE announced
        /\ PatchPlayer(o.task.user, o.patch)
        /\ PopCompleted
        /\ UNCHANGED <<repositoryVars, clients, active>>

\* Mutant of ArchiveCallback: the cached records are not purged.
ArchiveCallbackPrintsOnly ==
    LET o == Head(completed)
    IN  /\ completed # <<>> /\ o.ok /\ o.task.kind \in {"remove", "restore"}
        /\ announced' = [announced EXCEPT ![IF o.task.kind = "remove" THEN o.task.run
                                            ELSE o.task.row.key.run] = 0]
        /\ PopCompleted
        /\ UNCHANGED <<repositoryVars, clients, players, active>>

\* removeRecord's and restoreRecord's callbacks patch the cache.  The overall
\* record of the run may be any time now.
ArchiveCallback ==
    LET o == Head(completed)
    IN  /\ completed # <<>> /\ o.ok /\ o.task.kind \in {"remove", "restore"}
        /\ announced' = [announced EXCEPT ![IF o.task.kind = "remove" THEN o.task.run
                                            ELSE o.task.row.key.run] = 0]
        /\ PatchPlayer(o.task.user, o.patch)
        /\ PopCompleted
        /\ UNCHANGED <<repositoryVars, clients, active>>

\* The callbacks of season commands and all error callbacks only print.
PrintCallback ==
    /\ completed # <<>>
    /\ ~Head(completed).ok \/ Head(completed).task.kind \in {"addSeason", "editSeason", "deleteSeason"}
    /\ PopCompleted
    /\ UNCHANGED <<repositoryVars, clients, players, active, announced>>

RunCallback == ConnectCallback \/ CheckCallback \/ ArchiveCallback \/ PrintCallback

-----------------------------------------------------------------------------
ClientStep ==
    \/ \E c \in Slot :
          \/ \E u \in Person : Connect(c, u)
          \/ Authenticate(c) \/ Disconnect(c) \/ Interrupt(c)
          \/ \E r \in Run : StartTimer(c, r) \/ StartSaveposTimer(c, r)
          \/ \E r \in Run, t \in 1..MaxTime : StopTimer(c, r, t)
    \/ MapChange

CommandStep ==
    \E c \in Slot :
       \/ \E target \in season \cup {AnySeason}, u \in Person, r \in Run :
             RemoveCommand(c, target, u, r)
       \/ \E row \in db.archive, admin, force \in BOOLEAN : RestoreCommand(c, row, admin, force)
       \/ \E kind \in {"addSeason", "editSeason", "deleteSeason"}, s \in Season \ {Default} :
             SeasonCommand(c, kind, s)

TimerunNext == ClientStep \/ CommandStep \/ RunTask \/ RunCallback

TimerunSpec == TimerunInit /\ [][TimerunNext]_timerunVars

\* The worker runs the tasks it is given and every frame runs their callbacks.
TimerunFairSpec == TimerunSpec /\ WF_timerunVars(RunTask) /\ WF_timerunVars(RunCallback)

-----------------------------------------------------------------------------
(* Properties.                                                             *)

TimerunTypeOK ==
    /\ RepositoryTypeOK
    /\ connected \in [Slot -> User]
    /\ identified \in [Slot -> BOOLEAN]
    /\ timerunActive \in [Slot -> BOOLEAN]
    /\ players \in [Slot -> PlayerState \cup {NoPlayer}]
    /\ active \in SUBSET season
    /\ posted \in 0..MaxPosted
    /\ announced \in [Run -> 0..MaxTime]

\* A player object belongs to the client of its slot: a run is recorded for the
\* one who made it, and an empty slot holds nobody.  It rests on no client leaving
\* while its clientConnect task is under way.
PlayerIsClient == \A c \in Slot : players[c] # NoPlayer => players[c].user = connected[c]

\* The session flag that blocks a second start agrees with the player object: no
\* interleaving leaves a client that can neither start nor stop a run.
ActiveIffRunning == \A c \in Slot : connected[c] # Nobody => (timerunActive[c] <=> Running(c))

\* The callbacks still to run that will write row k into the cache of user u.
Patching(u, k) ==
    {i \in 1..Len(completed) :
        /\ completed[i].ok
        /\ completed[i].task.kind \in {"connect", "check", "remove", "restore"}
        /\ completed[i].task.user = u
        /\ k \in DOMAIN completed[i].patch}

\* What they will make of that row: the last of them decides.
Settled(records, u, k) ==
    IF Patching(u, k) = {} THEN records[k]
    ELSE completed[CHOOSE i \in Patching(u, k) : \A j \in Patching(u, k) : j <= i].patch[k]

\* A player's cached overall records are the stored ones as soon as the callbacks
\* of what the worker has done are in: no order of connects, completions, removals
\* and restores makes startTimer announce a record the database does not hold.
CacheFollowsDatabase ==
    \A c \in Slot, r \in Run :
       players[c] # NoPlayer =>
          Settled(players[c].records, players[c].user, <<Default, r>>)
             = db.live[Row(Default, players[c].user, r)]

\* Between removals and restores the overall records broadcast for a run only get
\* faster, whoever sets them and however their tasks and callbacks interleave.
AnnouncementsImprove ==
    [][\A r \in Run :
          announced'[r] # announced[r] =>
             announced'[r] = 0 \/ announced[r] = 0 \/ announced'[r] < announced[r]]_timerunVars

\* The database only changes by whole repository operations.
IsRepository == RepositorySpec

\* "Resolve by user ID so we target a valid slot" (etj_timerun_v2.cpp, checkRecord):
\* the slot findPlayerByUserId returns is the one that user plays from.
ResolvedSlotIsValid ==
    \A u \in Person : SlotsOf(u) # {} => connected[FirstSlotOf(u)] = u

\* Every login is answered: the slot's clientConnect callback runs, or the map
\* changes, while clients come and go.
LoginAnswered == \A c \in Slot : LoginPending(c) ~> ~LoginPending(c)
=============================================================================
