# A TLA+ model of ETJump

ETJump is a trickjump mod for *Wolfenstein: Enemy Territory*. Its core is the
server-side game module (`src/src/game`), and what that module adds to the
released game is mostly the *timerun* system: players race through a map, the
server keeps the records of every season in a database, and administrators can
remove and restore them. All of this happens in a game that runs frame by frame
on one thread while the database work runs on another, and clients come, go and
are carried from map to map meanwhile. This directory models that part, together
with the votes, the saved positions and the fireteams of the same clients, checks it
with TLC and proves what matters most with TLAPS.

Paths below are relative to `src/src/game/` unless they say otherwise.

## Inventory

| component | files | state | operations | what is hard | modelled by |
|---|---|---|---|---|---|
| task queue and worker thread | `etj_synchronization_context.*` | two queues, two mutexes, a condition variable, an atomic flag | start, stop, post, process, worker loop | interleavings, lost wakeups, shutdown | `SynchronizationContext`, `TaskQueue` |
| timerun database | `etj_timerun_repository.*`, `etj_timerun_models.h` | tables `record`, `removed_records`, `season` | record a completion, remove, restore, add/edit/delete a season | cascades over seasons, failures in the middle, long sequences of legal commands | `TimerunRepository` |
| best segments | the same, `etj_timerun_shared.cpp` | tables `player_best_segments`, `best_segments`, `removed_segments`, `record_history` | every operation above, remove and restore a segment, seed at game start | derived data kept up to date incrementally | `TimerunSegments` |
| timerun system | `etj_timerun_v2.*` | one player object per slot with cached records, the active seasons | login, start, stop, interrupt, checkpoints, commands, callbacks | callbacks that run when the client has left, caches behind the database | `TimerunV2` |
| client lifecycle | `etj_main_ext.cpp`, `g_client.cpp`, `etj_utilities.cpp` | who is in a slot, `sess.timerunActive` | connect, authenticate, disconnect, map change, shutdown | slots are reused, sessions outlive maps | parts of `TimerunV2`, `SaveSystem` and `Fireteams` |
| sessions and levels | `etj_session.*`, `etj_levels.*`, `etj_user.*` | guid, user and level of each slot | login, bans, permissions | stale levels, data kept in cvars across maps | effect on logins only |
| voting, rock the vote | `etj_rtv.*`, parts of `g_cmds.cpp`, `g_main.cpp`, `g_client.cpp` | ballots, counters, per-map counts | call, vote, re-vote, cancel, pass, check, leave | counters that must follow the ballots, commands between two frames | `Voting` |
| vote commands | `g_vote.cpp` | cvars | what each vote does when it passes | sequential | not modelled |
| saved positions | `etj_save_system.*`, `etj_savepos_*` | slots, backups and quick deploy copies per guid and team, a snapshot per guid | save, load, backups, forced saves, resets, clearing at a start, quick deploy, store and restore across a reconnect | what interrupts a run, what survives a reconnect | `SaveSystem` |
| fireteams, countdown | `g_fireteams.cpp`, `etj_fireteam_countdown.*`, `etj_target_ft_setrules.cpp`, parts of `g_cmds.cpp`, `g_client.cpp`, `g_session.cpp` | the teams and their join orders, questions by slot with an end time, rules, countdowns | create, apply, invite, propose, answer, kick, leave, disband, rules, countdown | questions answered late, teams that outlive a map, rules that exclude runs | `Fireteams`, `FireteamQuestions`, `Rosters` |
| deathruns, progression | `etj_deathrun_system.*`, `etj_progression_tracker.*` | per-client counters and bits | hit a location, start, end | sequences of triggers | not modelled |
| map statistics, custom votes, tokens, chat replay, banners, message of the day, inactivity | their files | counters, files read at map start | | sequential, file formats | not modelled |
| game failure | `etj_game_failure.*`, `etj_fatal_error_shared.*` | a failure flag with deadlines | activate, drop, shut down | order of drops and shutdown | not modelled |
| client game | `../cgame` | display state, demo recorder, event loop | | mostly drawing | not modelled |
| user interface | `../ui` | menus, demo queue | | | not modelled |
| base game | `bg_*`, most `g_*` | the game world | | physics, scripts | not modelled, but for the parts named above |

How the modelled components interact: `OnGameInit` makes a `TimerunV2` with a
`SynchronizationContext` and a `TimerunRepository` and starts one worker.
Client events, triggers and commands call `TimerunV2` on the game thread. What
needs the database is posted as a *task* with a *callback* and an *error
callback*. The worker runs the task against the repository; the next frame
(`TimerunV2::runFrame`) runs the callback on the game thread, where it patches
`_players` and prints. `OnGameShutdown` stops the worker, then destroys the
repository. Nothing else is shared, except that the task of `loadCheckpoints`
touches `_players` from the worker (see *Not modelled*).

What makes each one correct: the queue loses nothing, keeps the order and stops
cleanly; the repository never loses or duplicates a copy of a completion and
every removal can be undone; the derived tables equal what they are derived
from; the caches and flags of the game thread follow the database and the
clients; the totals of a vote are those of its ballots, and nothing of a vote
reaches the next.

Voting is a component of its own: commands of clients and administrators change
`level.voteInfo`, `game.rtv` and the client's `votingInfo`, `ClientDisconnect`
takes a ballot out again, and `CheckVote` decides once a frame.

The saved positions meet the runs in two places. A start trigger clears what an
earlier run saved (`Utilities::startRun`), and a position that was not saved in
a run ends the run it is loaded in (`InterruptRun`). They meet the sessions in two
more: they are found by the guid of the session, and a snapshot of them is taken
at a disconnect and given back when the client is identified again. What makes
them correct: a run is made with its own positions only, the order of slots and
backups is that of the saves, and a reconnect neither costs nor gains anything.

The fireteams meet all of them: a question is answered with the vote command, before
`Cmd_Vote_f` looks at the vote; a rule of the team gives its members a number of saves,
which `SaveSystem::save` counts down; another forbids the runs that do not allow it,
which a start trigger and a spawn look for; and the teams, kept by slot, are carried over
a map change before their members are. What makes them correct: every team has a leader
and only members that are there, nobody is on two, whoever gets in is let in by an answer
to a question between its slot and that of the leader of the moment, and what a rule
promises holds for members that came before and after it was set. That the answer is
between the two clients that were in those slots at the question does not hold (see
*Findings*).

## Modules

`SynchronizationContext` keeps the class at the level of its locks. One action
per step between two synchronisation points, in the order of the code: the game
thread is `mainPc` (`StartWorkerThreads`, `PostTask`, `BeginProcessing` ..
`EndProcessing`, `StopWorkerThreads`, `NotifyAll`, `JoinWorkers`), a worker is
`pc[w]` (`LoopTest`, `LockIncomplete`, `TestPredicate`, `Sleep`, `ExitWorker`,
`TakeTask`, `RunTask`, `PushCompleted`, and `SpuriousWakeup`). The predicate of
the wait and the sleep are two steps, because the flag is changed without the
mutex; the mutex is held over both, because the queue is not. Tasks are
identities that succeed or fail, each posted at most once; `posted` and
`delivered` are history variables.

`TaskQueue` is what `TimerunV2` relies on: a first-in first-out queue with
`Post`, `Deliver` and `Close`. `SynchronizationContext` implements it for one
worker (`IsTaskQueue`, with the refinement mapping `Undelivered`,
`DeliveredTasks`, `~Stopping`).

`TimerunRepository` is the database. `db.live` is table `record` as a function
of its primary key, `db.archive` is `removed_records`. A completion is a time
and a `record_date`, which the code uses as the identity of the run. The
operators (`RecordCompletion`, `RemoveRecord`, `RestoreRecord`, `PurgeSeason`)
are the transactions, written as functions of the database so that other modules
can apply them; the actions (`Complete`, `Remove`, `Restore`, `AddSeason`,
`DeleteSeason`) run them with the guards of the code's early returns and
exceptions. `RepositoryNext` may run them in any order with any arguments.

`TimerunSegments` extends it with the segment tables. A run is a sequence of
leg times, 0 for a leg the code could not measure. `ApplyBestSegments`,
`VoidBestSegments` and `RecomputeSegments` are the code's building blocks;
`CompleteRun`, `RemoveRun`, `RestoreRun` and `PurgeSegments` are the repository
actions together with what they do to the segments, `RemoveSegment` and
`RestoreSegment` the commands on single segments, and `Restart` the seeding at
game start.

`TimerunV2` composes the repository with clients, player objects and the task
queue. As `SynchronizationContext` is proved to be a first-in first-out queue, a
task is one step of the worker (`RunConnect`, `RunCheck`, `RunRemove`,
`RunRestore`, `RunSeasonCommand`, `FailTask`) and a callback one step of the game
thread (`ConnectCallback`, `CheckCallback`, `ArchiveCallback`,
`PrintCallback`). `Connect`, `Authenticate`, `Disconnect` and `MapChange` are the
client events, `StartTimer`, `StartSaveposTimer`, `StopTimer` and `Interrupt` the
life of a run. `IsRepository` states that the database only ever changes by
repository transactions: `TimerunV2` refines `TimerunRepository`.

`Voting` is the vote of a server. `connected`, `team`, `voted` (`EF_VOTED`) and
`votingInfo` are the clients', `voteInfo` is `level.voteInfo` with `voteTime` as
`open` and `age`, `rtv` the flag and the counts of `game.rtv`; `history`
remembers who withdrew the vote and how it ended. `CallVote` and `CallAutoRtv`
open one; `CancelOwnVote`, `FirstBallot`, `RevoteYes`, `RevoteNo` and `RevoteRtv`
are the branches of `Cmd_Vote_f` with what `updateVotingInfo` does in each;
`CancelVote` and `PassVote` are the administrators' commands, `Disconnect` the
part of `ClientDisconnect` about the vote, and `CheckVote` one frame, which does
nothing when no vote is open. Time counts frames. One playing team stands for
both. Cooldowns, limits and permissions of `callvote` are left open: any client
may call whenever the code could let it. `isWarned`, and the `time` a refused
re-vote sets when the window has closed, decide only a message and are left out.

`SaveSystem` is the class of that name with the parts of the base game that call
it. `status` and `team`, `limbo`, `timerunActive`, `runSpawnflags` and
`saveLimit` are the client's; `saves`, `backups` and `quickDeploy` the class's
`_clients` by guid, `savedPositions` its `_savedPositions`. `Save`, `ForceSave`,
`Load`, `LoadBackupPosition` and `ResetSavedPositions` are its commands and
entities, `StartRun` (with `ClearTimerunSaves`), `StopRun`, `SetTeam`, `Die` and the
three spawns the events of the game that reach it, `Connect`, `Authenticate` and
`Disconnect` the life of a connection. A position stands for its origin, a number
given in the order of saving; `savedIn`, `run`, `loaded`, `used` and `left` are
history. A guid is its client, and `NoGuid` the empty string that `Session::Init`
leaves, so that an operation between the two finds the positions of nobody. A client
may be authenticated again at any moment of its connection: `LoadPositionsFromDatabase`
then brings back the slots and the limit of its last disconnect, as the entry is never
erased. `repeats` counts that, and `repeatedInRun` remembers it of the current run; the
properties it breaks in the code say so. Cheats are off and saving is on; a player has
joined a team only once it is identified; a client killed or moved to another team waits
in limbo until it is spawned. A load by a gibbed client respawns it first,
which is a `Load` followed by a `SpawnAtSpawnPoint`. The session is renewed at the
disconnect already, as nothing reads it before the next connect renews it.

`Fireteams` is `level.fireTeams` with what other files do to it. `joinOrder` is the
join order up to its first -1, the leader its head. `application`, `invitation` and
`proposition` are the client's `pers` fields with their end times: a slot, or `Nobody`
when there is no question. `privatePrompt` is a question without a client. `RegisterFireteam`, `Leave`,
`Kick`, `DestroyFireteam`, `ApplyToFireTeam`, `Invite`, `InviteMultiple`, `Propose`,
`SetSaveLimit`, `SetNoGhost` and `StartCountdown` are the subcommands of `fireteam` (the
rules also those of `target_ft_setrules`), `AnswerApplication` .. `AnswerPrivate` the
branches of `Cmd_Vote_f`, each with the guard that no earlier one applies, and `Expire`
an end time that passes. `Connect`, `Reconnect`, `Begin`, `Respawn`, `Disconnect` and
`MapChange` are the life of a client: `Reconnect` forces a disconnect only of a client
that had begun, and `Respawn` follows the order of `ClientSpawn`, which clears the mark of
the life, fires the targets of the spawn point and then sets the mark.
`SavePosition`, `StartRun` and `EndRun` are what the rules are about. Any client may set
any rule of its team, as a map entity can do it for any member. Whether the leader, the
members or the room of a team changed since a question was asked is not remembered by
the code, nor by the model.

`FireteamQuestions` is `Fireteams` with one history variable, `asked`: which client has
asked which, forgotten when either slot gets a new client. It shows what becomes of a
question whose client has left.

`Rosters` is what the fireteams promise about their members: clients `Enter` and
`Depart`, a free one may `Found` a team or `Join` one with room as its last, a member may
`Leave`, which closes its place and keeps the order of the others, and a team may
`Disband`. `Fireteams` implements it (`IsRosters`, with the join orders as `roster` and
the slots that are not `"gone"` as `present`): everything else the code does, the
questions, answers, rules, lives, reconnects and changes of map, is one of these steps or
leaves the members as they are.

The `MC*` modules add the symmetry sets and the bounds of TLC's instances. An
operator whose comment calls it a *mutant* is not part of a specification: it is
a plausible mistake in the code, used to see that a property would notice.

## Runs

| run | instance | asks | result |
|---|---|---|---|
| `SynchronizationContextQueue` | 3 tasks, 1 worker, fair | is the class a queue that loses nothing, and does it make progress | `ExactlyOnce`, `PopIsSafe`, `NoTaskAfterStop`, `NoLockCycle`, `IsTaskQueue`, `EventuallyDelivered`, `StopReturnsWhenAwake` hold |
| `SynchronizationContextStop` | 1 task, 1 worker, fair | does a shutdown always end | `StopReturns` is violated |
| `TimerunSegments` | 2 users, 1 run, 2 seasons, 2 legs, 3 times, 2 completions, at most 2 rows in the archives | can commands lose, duplicate or mix records, and are the derived tables right | of the records `LiveOrArchivedOnce`, `DateIdentifiesCompletion`, `NoOrphans`, `RemovalCanBeUndone`, `RecordsAreKept`, of the segments `SegmentsTypeOK`, `GlobalIsBestPersonal`, `RemovedNeverCounts`, `SplitsAreTraceable`, `SplitsOnlyImprove` hold |
| `TimerunV2Records` | 2 slots, 2 users, 2 seasons, 4 tasks, every command, orderly clients | do caches, flags and announcements follow | `PlayerIsClient`, `ActiveIffRunning`, `CacheFollowsDatabase`, `AnnouncementsImprove` hold |
| `TimerunV2Disorderly` | 2 slots, a banned user, every command, any client behaviour, fair | what still holds when clients leave at any moment | `IsRepository`, `LoginAnswered` hold |
| `TimerunV2LateLogin` | the same, no commands | does a lookup by user find a valid slot | `ResolvedSlotIsValid` is violated |
| `Voting` | 3 clients, 2 maps, a vote of 3 frames | do totals and map counts follow the ballots, and is a decision what the ballots say | `TalliesFollowBallots`, `MapCountsFollowBallots`, `NextVoteStartsClean`, `CallerIsPresent`, `PassedHasMajority`, `WinnerExists` hold |
| `VotingWithdrawn` | the same | does a vote its caller withdrew stay withdrawn | `WithdrawnNeverPasses` is violated |
| `SaveSystem` | 1 client, 2 slots, 2 backups, 3 positions, a limit of 1, 3 kinds of runs, one repeated login | can a run use what is not its own, can slots or backups get out of order, does a reconnect change anything | `LatestIsSaved`, `BackupsNewestFirst`, `RunUsesOwnPositions`, `LimitHolds`, `SavesSurviveReconnect` hold |
| `SaveSystemReconnect` | the same with quick reconnects | and a reconnect the server has not noticed | `SavesSurviveReconnect` is violated |
| `Fireteams` | 3 clients, 2 teams, 2 questions or countdowns at a time, a limit of 1, noghost | do teams stay valid, do their rules hold for every member, and does everybody get in by an answer that names its slot and the leader's, whatever happens between question and answer | `TeamsAreValid`, `EndsWithMembership`, `TeamLimitHolds`, `NoGhostHasNoRun`, `AdmittedByLeader`, `IsRosters` hold |
| `FireteamsStaleQuestion` | 2 clients, 1 team, 1 question at a time, no rules | and is it the client that was asked or asked itself | `AskedByThatClient` is violated |

The type invariant of every module is a theorem, for all values of the constants, so the
runs leave it out; only that of `TimerunSegments` is also checked, as its types say that no
leg of time zero is ever stored.

**Bounds and why they suffice.** The game starts exactly one worker
(`etj_timerun_v2.cpp:260`), and spurious wakeups make it wake for nothing as
competitors would; the theorems cover any number. Three tasks are the least that can be reordered
around one that is running. A cascade relates two seasons, so two seasons show
every case of it; a forced restore needs a removed completion and one in its way, so two
completions; a third that could be taken for either is left to the theorems, which know no bound. Two users show
every comparison between records (self and other). The properties of the records are
checked in `TimerunSegments`, whose steps are those of `TimerunRepository` with the
segments added (`SegmentsRefineRepository`). In it the two
archives together hold at most `MaxRemoved` rows (`FewRemoved`), which leaves
room for a run and a split removed by different callers, the case the code guards
specially; two legs are needed for a run that keeps one split and loses the
other. In `TimerunV2`, `MaxPosted` bounds the tasks of a behaviour: logins for two
clients and two of completion, removal, restore and season command, or one login
and three. `MaxDate` bounds completions,
`MaxSeason` season identifiers, `MaxTime` and `MaxSplit` times; the guards that
use them are `Complete`, `AddSeason` and `Post`. Deadlock is not checked there: every
one of these systems stops at its bounds, and the queue stops after shutdown.

In `Voting`, three clients make a caller, a voter and a bystander, and a majority
that is neither all nor one. Two maps make a re-vote move a ballot. A vote
of three frames (`VoteTime`) has its re-vote window in the first third, that is at
ages 0 and 1, in which a client that must wait one frame (`VotingTimeout`) and has
one attempt (`VotingAttempts`) can vote, vote again, and be refused. The vote is
decided from the first frame on (`MinVoteDuration`), so every frame can be the last.
Spectators may vote but not call (`SpectatorVote` is 1), which makes the set of
valid voters change with every ballot. Nothing else is bounded: `voteInfo.age` is
bounded by the code itself. The run uses symmetry of slots and a view; the
view drops what no later step and no property reads: the totals of a vote that is
over, what an empty slot remembers, and the attempts and age of a ballot that can
no longer be changed. Deadlock is not checked: a server without clients may wait.

In `SaveSystem` the positions of different guids never meet, except through the
empty guid, which only a client in the middle of a reconnect writes; one client
shows every case, and the theorems are for any number. Two slots make a latest one
and another, two backups an order, three positions fill both and push one out
(`MaxOrigin`), two runs (`MaxRun`) make an earlier one. One repeated login
(`MaxRepeats`) is enough to break each property that speaks of them, if it did not.
The map's runs
are one with default flags, one without backups that survives deaths and team
changes, and one without saves that ends on either. The limit is 1, so the
save is followed by a refused one, and a repeated login by one save more. The view drops
the origins of positions that are not valid, the flags of a run that is over and what is
stored for no guid. Deadlock is not checked: a server without
clients may wait.

In `Fireteams` three clients make a leader, the one that takes its place and one that
comes between, and two teams a place to be instead. Two questions, prompts or countdowns
under way at a time (`MaxPending`, a guard of every action that starts one) make one that
waits while another is answered. A limit of 1 leaves one save and none. The constraint
`OneRule` keeps a limit and noghost or a run out of the same state: the two rules share
nothing but the teams, and the theorems need no such bound. A team has room for all three,
so a full one is met by the proofs only, and the map has no spawn point with a
start timer. The run uses symmetry of slots (no step prefers one; the order of answers is
that of the questions, not of the slots) and a view that drops what no later step
and no property reads: what an empty slot remembers, the leftovers of a team not in use,
whether a team is private, the saves of a client without a limit, and the mark of a life
not begun. Deadlock is not checked: a server without clients may wait.

**Fairness.** `SynchronizationContext!Fairness` is weak fairness of every step of
a thread that can run (the scheduler), of the frames, and of a task (it returns);
nothing forces the game to post or to stop. Taking a mutex is strongly fair,
which stands for a mutex that does not starve a thread for ever: the game thread
takes and releases the mutexes once a frame. `TimerunFairSpec` asks weak fairness
of the worker and of callbacks only; clients and administrators owe nothing.

**Assumptions the runs make visible.** `OrderlyClients = TRUE` restricts the
record runs to clients that stay until their login is answered, authenticate
once, and users that play from one slot; the findings say what happens
otherwise. In every run of `TimerunV2` a map change happens only when all connected clients
are identified: of one that is not, `Session::ReadSessionData` takes the start time for
the guid (`etj_session.cpp:97-131`), and its login is that of a user nobody is. An
error callback does not throw: the class calls it inside the `try`
(`etj_synchronization_context.cpp:74-78`), so one that throws would be called a second time by the
handler, which `SynchronizationContext` does not tell from one return. A task is atomic because one worker runs them and its writes are
in a transaction; a task that throws has changed nothing (`FailTask`). The overall
season is always active. `record_date` is distinct for every completion: it has a
resolution of a second, and one run of one player cannot be finished twice in
one; the tie-break by user id of two players who finish in the same second
is therefore not exercised. One map is modelled, as no operation relates two.

## Findings

1. **A shutdown can hang** (`etj_synchronization_context.cpp:44`).
   `stopWorkerThreads` lowers `_running` without the mutex of the wait. A worker
   that has just found its predicate false and is about to block misses the flag
   and the notification, and `join` waits for ever. `SynchronizationContextStop`
   shows the trace; `StopReturnsWhenAwake` shows it is the only one: the shutdown
   returns if no worker is between its predicate and its sleep.
2. **A login answered late makes a player in somebody else's slot**
   (`etj_timerun_v2.cpp:316`). The client may leave, and another may
   connect, before the callback of `clientConnect` runs, which puts the player of
   the first into the slot. For a banned client this is certain, as
   `OnClientCommand` posts the task after the client was dropped.
   `PlayerIsClient` holds for orderly clients only, for this reason.
3. **A withdrawn vote can go on** (`g_cmds.cpp:3215`). `vote no` by the caller cancels
   the vote, says the comment at line 3056, but only sets `voteCanceled` for the next
   `CheckVote`. A first ballot of any other client that arrives before it clears the
   flag again, and the vote passes on the ballots that follow. The same holds
   for an administrator's `cancelvote`. `VotingWithdrawn` shows the trace.
4. **A quick reconnect loses saves or refills the limit** (`g_client.cpp:2075`). When a
   client connects again before the server has noticed that it left, `ClientConnect`
   initialises the new session, which clears the guid, and then forces the
   `ClientDisconnect` of the old one, which stores its positions and its save limit
   under the empty guid. The client gets the snapshot of an earlier
   disconnect over what it saved since, or its positions with a full limit.
   `SaveSystemReconnect` shows the trace. What does not depend on it is proved
   for both settings: `RunUsesOwnPositions`, `LatestIsSaved`.
5. **A fireteam question is answered about the next client in a slot** (`g_cmds.cpp:2886`).
   Questions name a slot and are answered up to twenty seconds later; nothing
   clears them when the client they name leaves. If another connects to its
   slot before the answer, that one is admitted to a team it never applied to, though "this client
   has requested to join your fireteam" (`g_local.h:936`) is true of the other; and an
   invitation of a leader that left leads onto the team of its successor in the slot, if
   that one has made one. `FireteamsStaleQuestion` shows the trace. `AdmittedByLeader` speaks of
   slots, as the code does, and holds.

Seen while modelling, and taken into account by the guards, assumptions and properties:

- Each AUTHENTICATE restores the slots and the save limit of the last disconnect, not only
  the first of a connection: nothing at `etj_main_ext.cpp:363-367` asks whether the client is
  identified already, and `loadPositionsFromDatabase` never erases its entry
  (`etj_save_system.cpp:655-698`). A second one in mid-session puts older positions into the slots. The
  backups stay, and may be newer than the latest slot (`BackupsNewestFirst` exempts the
  client); slots keep their run marks, so a run can be carried on from a position of another time
  (`RunUsesOwnPositions` exempts the run, and no later one); and a save limit that was used up is
  refilled to what was left at the disconnect (`LimitHolds` allows one limit more for each
  repetition). The stock client sends one per request of the server
  (`../cgame/etj_client_authentication.cpp:43-61`), and the server requests one per connection.

- The segments can be seeded more than once (`etj_timerun_repository.cpp:2890`). The
  comment at 2882 says the seed skips for ever after the first completion; a table
  emptied by removals is seeded again at the next game start, from completions that had
  been superseded. What removals promise (`RemovedNeverCounts`) still holds.
- `ClientSpawn` fires the targets of the spawn point (`g_client.cpp:2646`) after it cleared
  `ftNoGhostThisLife` and before it sets it again, so a start timer there does not see
  it, and a member of a team with noghost is in a run that does not allow it. That is
  why `NoGhostCorrect` assumes `~SpawnStartsRun`.
- A member that leaves a fireteam refills the saves of all who stay
  (`g_fireteams.cpp:410`), so a limit bounds what is left, not what is used.
- The questions to create or join a fireteam (`g_cmds.cpp:2991-3029`) are never asked, and
  `priv` decides nothing but what `G_FindFreePublicFireteam` finds for them.
- While the client a fireteam question names is not connected (`g_cmds.cpp:2877`), its answer and
  any vote behind it are ignored until the end time.
- A client that voted no on a rock the vote has `lastRtvMapVoted` 0, so its re-vote for
  the first map of the list is taken for one of the same map and ignored
  (`g_cmds.cpp:3089`); `RevoteRtv` keeps it.

## Proofs

`SynchronizationContext_proof` proves for any set of tasks and any number of
workers that `TypeOK`, `PopIsSafe`, `NoTaskAfterStop` and `NoLockCycle` are
invariants, and for one worker that `Spec => IsTaskQueue`. The safety invariants
are not inductive alone. `IInv` is `TypeOK /\ MutexInv /\ HoldingInv /\ LifeInv /\
PopIsSafe`. `MutexInv` reads the holder of each mutex off the program counters, so
a worker between predicate and pop excludes every other; `HoldingInv` says that a
worker holds a task exactly while it runs and pushes it, and the game thread an
operation exactly in its callback; `LifeInv` says that `_running` is set exactly
while the game thread is in a frame, that workers are idle before they are created
and have exited once `stopWorkerThreads` has returned. The refinement
needs in addition that `posted` is the concatenation of what was delivered, is
being delivered, completed, held by the worker and incomplete, in that order;
every step moves one task across one boundary or none. `ExactlyOnce` is proved for
any finite set of workers: `TaskOnce` counts the places of a task in the two
queues, in the workers' hands and among the delivered, and every step takes a
task from one of these places to another.

`TimerunRepository_proof` proves for any users, runs and bounds that every
invariant of the records holds, and the action property
`RecordsAreKept`. The inductive invariant is the conjunction of the type
invariant, `DatesPast` (no stored date is later than the last one given),
`DateIdentifiesCompletion`, `NoOrphans` and `LiveOrArchivedOnce`: uniqueness
needs that a new completion has a date no row has, and a forced restore needs
that two archived rows of one date and key are the same row.
`RemovalCanBeUndone` and `RecordsAreKept` follow from it without induction.

`TimerunSegments_proof` proves for any users, seasons, runs, legs and bounds every property
of the segments in their run, and that `SegmentsSpec => RepositorySpec`: deriving segments alters no
record. `GlobalIsBestPersonal` compares a table kept up to date row by row with a minimum
over other rows, so three things carry the proof. Rows are totally ordered by time, date
and, on a board, user, so a set of rows with different dates has one best row
(`BestExists`, `BestIsUnique`). `SegmentsInv` says that a date names one run of one user
wherever it is stored: in the personal and the removed rows, the history, the records and
the archive together (`OneRunPerDate` of `Uses`). And a run offers a board one row at most
(`OfferOfRun`), which its upserts compare with what is there (`MergeOffer`). Each operation
then has to show what it stores of other runs (nothing, for all but a completion), what
it does to the boards of the legs it clears (`ClearBoard`, `RecomputeBoards`), and that what it
lets compete is not archived (`NeverCounts`), which a restore needs for both the rows
that come back and those in their way. A row in the removed segments is there once
(`RemovedOnce`), or the unique index over it would be hit. `BestSplitsOnlyImprove` says of
every step that a best split gives way only to a better one, or because it or its run was
removed (`Improves`). The splits of
a run, which `computeSegmentTimes` makes of its checkpoints, are an input: any are allowed.

`TimerunV2_proof` proves for any users, slots, runs and bounds that `TimerunTypeOK`
is an invariant and that `TimerunSpec => IsRepository`, whatever the clients do. The
types of what a task leaves for its callback are `Task` and `Outcome`; each task is
shown once (`ConnectTaskRuns` ... `FailTaskRuns`) to move one outcome through the
queue (`Moved`) and to hand over every overall record it changed (`Follows`). The
types need the inductive invariant of `TimerunRepository_proof`, and the refinement
needs the types: a queued task names a user, a run and rows the repository knows.
For orderly clients (`OrderlyClients`, nobody banned) `PlayerIsClient` and
`ActiveIffRunning` follow from `LoginInv`: a login under way is that of the client of
its slot, is the only one to that slot, and finds no player there; that a user plays
from one slot is part of it. For them the slot a callback resolves is valid, too
(`SlotsResolve`): the second finding needs a client that leaves in the middle of its login.

`TimerunCaches_proof` proves the two properties about late callbacks.
`CacheFollowsDatabase` rests on `CacheInv`: of the callbacks that will write a row the
last writes what is stored, and a row none will write is stored already; it needs
`LoginInv`, as a callback patches the first player of its user only.
`AnnouncementsImprove` needs no assumption on clients. Its invariant sees what was
announced and the outcomes in the queue as one sequence: each announcement to come is
faster than the one before (`TopsFall`) and no faster than the best stored record
(`TopsReached`), unless a removal or a restore lies between.

`Voting_proof` proves for any clients, maps, durations and cvars that
`VotingTypeOK`, `CallerIsPresent` and `NextVoteStartsClean` are invariants. `IInv`
is their conjunction with two facts they need: `BlankUntilVoted` (while a vote is
open, a client that has not voted has a blank ballot), which bounds the attempts, and `CallerIsClient` (an open
vote that was not called by the server has a client as its caller), which makes
the slot `CheckVote` reads exist.

Its second part builds on this: for any number of clients and maps
`TalliesFollowBallots` and `MapCountsFollowBallots` are invariants, and
`PassedHasMajority` and `WinnerExists` hold. A step changes the ballot of one client
at most, so each set of ballots changes by that client (`OneBallot`); what remains
for each action is that it adds to a total what the client adds to the set
(`FollowsTotals`, `FollowsMaps`). `TallyInv` adds that the caller of a regular vote has
no ballot of its own and that the total in favour never exceeds the ballots in favour,
also after a withdrawal set it to 0: the majority follows from that bound, and the
map of a winner from a ballot in favour that the majority implies.

`SaveSystem_proof` proves for any clients, positions and limits that
`SaveTypeOK`, `LatestIsSaved` and `RunUsesOwnPositions` hold, whichever way
`QuickReconnects` is set, and `LimitHolds` and `SavesSurviveReconnect` when no
client reconnects before its disconnect is handled. The invariants are `BaseInv`,
`UseInv` and `LimitInv`: the first is about every slot, the second about the
positions a run used, the third about the stored positions of who is away.
`BackupsNewestFirst` needs the last as well: the snapshot a client gets back must
be what its slots still hold, and after a quick reconnect it may be an older one, so it too is
proved without those. Logins may be repeated at any moment: `UseInv` speaks of the runs without
one, whose marks it keeps apart from those of runs with one; `LimitInv` counts one limit
more for each (`AllowanceGrows`), and the order of slots and backups is an invariant of the
clients without one, whom the steps of others do not touch (`OthersNewest`). A save pushes the latest slot, which is newer than every backup, to
the front (`StoreSaveNewest`). A run that clears the positions of earlier ones moves up the
backups it keeps, each to its place among them; the places leave no gap
(`PlacesHaveNoGaps`, from the least number that reaches a place) and keep the order
(`ClearedOrdered`).

`Fireteams_proof` proves for any clients, teams, room and limits that the types and every invariant of
its run hold, the action property `AdmittedByLeader`, that `FireteamSpec => IsRosters`, and
`SeniorityKept`, which no run checks, as `IsRosters` says more.
`FireteamInv` is the types, `TeamInv` (`OneTeamEach` and `WellFormed`: in use exactly
with members, no more than its room, a name of its own), `MembersPresent`,
`TeamLimitHolds` and the two parts of `EndsWithMembership`. What a step does to the
teams is one of five moves: a client leaves, joins, creates, a team is disbanded, or the join orders
stay (`Moves`); each has a lemma that says what becomes of the members and leaders
(`Leaving`, `Joining`, `Creating`, `Disbanding`, `Staying`), and the invariants follow
from the moves, not from the actions. The moves are also the steps of `Rosters`: that a
leaving client closes one place (`LeavingCloses`) and that a step brings or takes one client at
most (`PresenceStep`) is what remains. That a client is on one team is what makes the
`CHOOSE` of `TeamOf` the team it leaves (`TheTeam`). `NoGhostCorrect` assumes
`~SpawnStartsRun` and needs `LifeInv` beside it: a run is of a client that plays, and who
plays in a team with noghost has its life marked.

The constant assumptions used are the named ones of the modules
(`ThreadAssumption`, `TaskAssumption`, `BoundAssumption`, `NoRecordAssumption`,
`ClientAssumption`, `NobodyAssumption`, `PostedAssumption`, `OrderlyAssumption`,
`NoPlayerAssumption`, `MapsAssumption`, `TimesAssumption`, `CvarsAssumption`,
`SaveAssumption`, `NoEntryAssumption`, `FireteamAssumption`, `SegmentAssumption`,
`NoSplitAssumption`);
TLC evaluates them in every run.

Every safety invariant, action property and refinement of a passing run is proved.
Model-checked only: liveness (`EventuallyDelivered`, `StopReturnsWhenAwake`,
`LoginAnswered`), as fairness and `ENABLED` are outside the prover, and so is induction
over data: what a fold computes for every input, such as the time of a run from its legs
(`RunTime`), stays with TLC.
The theorems assume no bound of the runs: constraints, views and symmetry are TLC's only.

## Not modelled

- The caches of best segments (`bestSegments` of the map and of each player),
  ranks, and checkpoints inside a run; they change what is displayed.
- `player_best_segments_history`, the progression; it is only ever appended to.
- `loadCheckpoints`, whose task writes `_players[clientNum]` from the worker
  thread (`etj_timerun_v2.cpp:998`): a data race with the game thread.
- Failures after a commit: a task whose transaction is committed and whose later
  read throws leaves the caches behind the database.
- Runs without checkpoints in `TimerunSegments`: they have no segments.
- Names, name resolution, suggestions, messages and metadata; names are model
  values that are resolved already.
- One-time migrations (`tryToMigrateRecords`, `seedRecordHistory`).
- Around a vote: cooldowns and limits of `callvote`, and what a passed vote does.
- Of fireteams: teamjump mode and the static clients it synchronises, warnings and
  races, bots, cheats and the restrictions of worldspawn, portals and `hideMe`, and the
  shuffle of the teams, which takes whoever changes team out of its fireteam (`g_team.cpp:1686`).
- A map restart under an open vote. `G_InitGame` keeps `level.voteInfo`
  (`g_main.cpp:1961-1969`) while `ClientConnect` clears the ballots; whether the
  memory survives at all is up to the engine, which is not in the repository.
- SQLite and the C++ runtime: transactions are atomic, mutexes and the condition
  variable behave as the language standard says.
