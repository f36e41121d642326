---------------------------- MODULE SaveSystem_proof ----------------------------
(***************************************************************************)
(* SaveSystem for any number of clients, slots, backups and runs: types,   *)
(* the latest slots, the positions a run is made with, the limit, and the  *)
(* order of the backups.                                                   *)
(***************************************************************************)
EXTENDS SaveSystem, TLAPS, FiniteSetTheorems, WellFoundedInduction

\* At most one slot of a team is the latest, and it is valid.
Sound(slots) ==
    \A s \in Slot : slots[s].isLatest =>
       slots[s].isValid /\ \A other \in Slot : slots[other].isLatest => other = s

\* Every team's slots are sound, those kept for clients that left included: the latest
\* slot that is backed up is then the one slot that says so.
LatestInv ==
    /\ \A g \in Guid, t \in Team : Sound(saves[g][t])
    /\ \A g \in Guid : savedPositions[g] # NoEntry =>
          \A t \in Team : Sound(savedPositions[g].saves[t])

BaseInv == SaveTypeOK /\ LatestInv

\* What happens to a single position keeps its type.
LEMMA PositionTypes ==
    /\ NoPosition \in Position
    /\ \A p \in Position : /\ Invalidated(p) \in Position /\ NotLatest(p) \in Position
                           /\ ClearedSave(p) \in Position /\ ClearedQuick(p) \in Position
                           /\ Snapshot(p) \in StoredPosition
    /\ \A p \in Position, q \in StoredPosition : Restored(p, q) \in Position
  <1>1. NoPosition \in Position
    BY SaveAssumption DEF NoPosition, Position
  <1>2. \A p \in Position : Invalidated(p) \in Position /\ NotLatest(p) \in Position
    BY DEF Invalidated, NotLatest, Position
  <1>3. \A p \in Position : ClearedSave(p) \in Position /\ ClearedQuick(p) \in Position
    BY <1>2 DEF ClearedSave, ClearedQuick
  <1>4. \A p \in Position : Snapshot(p) \in StoredPosition
    BY DEF Snapshot, Position, StoredPosition
  <1>5. \A p \in Position, q \in StoredPosition : Restored(p, q) \in Position
    BY DEF Restored, Position, StoredPosition
  <1> QED BY <1>1, <1>2, <1>3, <1>4, <1>5

\* Backups that are kept are backups.
LEMMA ClearedBackupsType ==
    ASSUME NEW bs \in [Backup -> Position]
    PROVE  ClearedBackups(bs) \in [Backup -> Position]
  <1>1. ASSUME NEW i \in Backup, \E b \in Kept(bs) : Place(bs, b) = i
        PROVE  bs[CHOOSE b \in Kept(bs) : Place(bs, b) = i] \in Position
    BY <1>1 DEF Kept
  <1> QED BY <1>1, PositionTypes DEF ClearedBackups

\* The guid of a client is one.
LEMMA GuidOfType == \A c \in Client : GuidOf(c) \in Guid
  BY DEF GuidOf, Guid

-----------------------------------------------------------------------------
(* Types.                                                                  *)

LEMMA InitType == SaveInit => SaveTypeOK
  <1> SUFFICES ASSUME SaveInit PROVE SaveTypeOK
    OBVIOUS
  <1> USE SaveAssumption, PositionTypes DEF SaveInit
  <1>1. saves \in [Guid -> [Team -> [Slot -> Position]]]
    OBVIOUS
  <1>2. backups \in [Guid -> [Team -> [Backup -> Position]]]
    OBVIOUS
  <1>3. /\ quickDeploy \in [Guid -> [Team -> Position]]
        /\ savedPositions \in [Guid -> Stored \cup {NoEntry}]
    OBVIOUS
  <1>4. /\ saveLimit \in [Client -> 0..LimitedSaves] /\ left \in [Client -> 0..LimitedSaves]
        /\ origins \in 0..MaxOrigin /\ savedIn \in [0..MaxOrigin -> 0..MaxRun]
        /\ run \in [Client -> 0..MaxRun]
    OBVIOUS
  <1> QED BY <1>1, <1>2, <1>3, <1>4 DEF SaveTypeOK

\* The types that runs and their ends keep.
TimerunTypeOK == /\ timerunActive \in [Client -> BOOLEAN]
                 /\ runSpawnflags \in [Client -> SUBSET Flag]
                 /\ run \in [Client -> 0..MaxRun]
                 /\ loaded \in [Client -> SUBSET (0..MaxRun)]
                 /\ repeatedInRun \in [Client -> BOOLEAN]

LEMMA EndRunIfType ==
    ASSUME SaveTypeOK, NEW c \in Client, NEW STATE condition, EndRunIf(c, condition)
    PROVE  TimerunTypeOK'
  BY DEF SaveTypeOK, TimerunTypeOK, EndRunIf, EndRun, timerun

LEMMA TeleportToType ==
    ASSUME SaveTypeOK, NEW c \in Client, NEW STATE p, p \in Position, NEW STATE interrupts,
           TeleportTo(c, p, interrupts)
    PROVE  TimerunTypeOK'
  <1>1. CASE timerunActive[c] /\ ~interrupts
    <2>1. savedIn[p.origin] \in 0..MaxRun
      BY DEF SaveTypeOK, Position
    <2> DEFINE more == loaded[c] \cup {savedIn[p.origin]}
    <2>2. more \in SUBSET (0..MaxRun) /\ loaded \in [Client -> SUBSET (0..MaxRun)]
      BY <2>1 DEF SaveTypeOK
    <2>3. loaded' = [loaded EXCEPT ![c] = more]
      BY <1>1 DEF TeleportTo
    <2>4. loaded' \in [Client -> SUBSET (0..MaxRun)]
      <3> HIDE DEF more
      <3> QED BY <2>2, <2>3
    <2>5. UNCHANGED <<timerunActive, runSpawnflags, run, repeatedInRun>>
      BY <1>1 DEF TeleportTo
    <2> QED BY <2>4, <2>5 DEF SaveTypeOK, TimerunTypeOK
  <1>2. CASE ~(timerunActive[c] /\ ~interrupts)
    BY <1>2 DEF TeleportTo, EndRunIf, EndRun, timerun, SaveTypeOK, TimerunTypeOK
  <1> QED BY <1>1, <1>2

\* The first of the latest slots is one of them: there is no other.
LEMMA LatestIsFirst ==
    ASSUME BaseInv
    PROVE  \A g \in Guid, t \in Team :
              LatestSlots(g, t) # {} => FirstOf(LatestSlots(g, t)) \in LatestSlots(g, t)
  <1> SUFFICES ASSUME NEW g \in Guid, NEW t \in Team, LatestSlots(g, t) # {}
               PROVE  FirstOf(LatestSlots(g, t)) \in LatestSlots(g, t)
    OBVIOUS
  <1>1. PICK f \in LatestSlots(g, t) : TRUE
    OBVIOUS
  <1>2. f \in Slot /\ f \in Nat /\ \A other \in LatestSlots(g, t) : other = f
    BY SaveAssumption DEF BaseInv, LatestInv, Sound, LatestSlots, Slot
  <1>3. \A other \in LatestSlots(g, t) : f =< other
    BY <1>2
  <1> QED BY <1>3 DEF FirstOf

LEMMA StoreSaveType ==
    ASSUME BaseInv, NEW c \in Client, team[c] \in Team, NEW s \in Slot,
           StoreSave(c, team[c], s)
    PROVE  /\ saves' \in [Guid -> [Team -> [Slot -> Position]]]
           /\ backups' \in [Guid -> [Team -> [Backup -> Position]]]
           /\ origins' \in 0..MaxOrigin
           /\ savedIn' \in [0..MaxOrigin -> 0..MaxRun]
  <1> DEFINE g == GuidOf(c)
             t == team[c]
             row == [i \in Slot |-> IF i = s THEN NewPosition(c) ELSE NotLatest(saves[g][t][i])]
             pushed == [b \in Backup |-> IF b = 1 THEN saves[g][t][BackedUp(g, t, s)]
                                         ELSE backups[g][t][b - 1]]
  <1>1. /\ g \in Guid /\ t \in Team
        /\ saves \in [Guid -> [Team -> [Slot -> Position]]]
        /\ backups \in [Guid -> [Team -> [Backup -> Position]]]
    BY GuidOfType DEF BaseInv, SaveTypeOK
  <1>2. origins + 1 \in 0..MaxOrigin /\ origins' = origins + 1
    BY SaveAssumption DEF StoreSave, StoredIn, BaseInv, SaveTypeOK
  <1>3. NewPosition(c) \in Position
    BY <1>2 DEF NewPosition, Position, BaseInv, SaveTypeOK
  <1>4. row \in [Slot -> Position]
    BY <1>1, <1>3, PositionTypes
  <1>5. saves' = [saves EXCEPT ![g][t] = row]
    BY DEF StoreSave
  <1>6. saves' \in [Guid -> [Team -> [Slot -> Position]]]
    BY <1>1, <1>4, <1>5
  <1>7. savedIn' \in [0..MaxOrigin -> 0..MaxRun]
    BY <1>2, SaveAssumption DEF StoreSave, StoredIn, BaseInv, SaveTypeOK
  <1>8. CASE LatestSlots(g, t) = {} \/ RunHas(c, "NoBackups")
    BY <1>1, <1>2, <1>6, <1>7, <1>8 DEF StoreSave, BackUpLatest
  <1>9. CASE ~(LatestSlots(g, t) = {} \/ RunHas(c, "NoBackups"))
    <2>1. BackedUp(g, t, s) \in Slot
      BY <1>1, <1>9, LatestIsFirst DEF BackedUp, LatestSlots
    <2>2. \A b \in Backup : b # 1 => b - 1 \in Backup
      BY SaveAssumption DEF Backup
    <2>3. pushed \in [Backup -> Position]
      BY <1>1, <2>1, <2>2
    <2>4. backups' = [backups EXCEPT ![g][t] = pushed]
      BY <1>9 DEF StoreSave, BackUpLatest
    <2> QED BY <1>1, <1>2, <1>6, <1>7, <2>3, <2>4
  <1> QED BY <1>8, <1>9

\* What a client leaves in the database has the type of an entry.
LEMMA SavePositionsType ==
    ASSUME SaveTypeOK, NEW c \in Client, NEW STATE g, g \in Guid, SavePositionsToDatabase(c, g)
    PROVE  savedPositions' \in [Guid -> Stored \cup {NoEntry}]
  <1> DEFINE kept == [t \in Team |-> [s \in Slot |-> Snapshot(saves[g][t][s])]]
             entry == [saves |-> kept, saveLimit |-> saveLimit[c]]
  <1>1. kept \in [Team -> [Slot -> StoredPosition]]
    BY PositionTypes DEF SaveTypeOK
  <1>2. saveLimit[c] \in 0..LimitedSaves
    BY DEF SaveTypeOK
  <1>3. entry \in Stored
    BY <1>1, <1>2 DEF Stored
  <1>4. savedPositions' = [savedPositions EXCEPT ![g] = entry]
    BY DEF SavePositionsToDatabase
  <1> QED BY <1>3, <1>4 DEF SaveTypeOK

\* The steps of a client keep the types.
LEMMA RunStepType ==
    ASSUME BaseInv, NEW c \in Client, RunStep(c)
    PROVE  SaveTypeOK'
  <1> USE DEF BaseInv
  <1>1. ASSUME NEW flags \in RunFlags, StartRun(c, flags)
        PROVE  SaveTypeOK'
    <2>1. TimerunTypeOK'
      BY <1>1, SaveAssumption DEF StartRun, SaveTypeOK, TimerunTypeOK
    <2>2. UNCHANGED <<connection, savedPositions, counts>>
      BY <1>1 DEF StartRun
    <2>3. CASE UNCHANGED positions
      BY <2>1, <2>2, <2>3 DEF connection, counts, positions, SaveTypeOK, TimerunTypeOK
    <2>4. CASE ClearTimerunSaves(GuidOf(c))
      <3>1. GuidOf(c) \in Guid
        BY GuidOfType
      <3>2. saves' \in [Guid -> [Team -> [Slot -> Position]]]
        BY <2>4, <3>1, PositionTypes DEF ClearTimerunSaves, SaveTypeOK
      <3>3. quickDeploy' \in [Guid -> [Team -> Position]]
        BY <2>4, <3>1, PositionTypes DEF ClearTimerunSaves, SaveTypeOK
      <3>4. backups' \in [Guid -> [Team -> [Backup -> Position]]]
        BY <2>4, <3>1, ClearedBackupsType DEF ClearTimerunSaves, SaveTypeOK
      <3> QED BY <2>1, <2>2, <3>2, <3>3, <3>4 DEF connection, counts, SaveTypeOK, TimerunTypeOK
    <2> QED BY <1>1, <2>3, <2>4 DEF StartRun
  <1>2. CASE StopRun(c)
    BY <1>2 DEF StopRun, EndRun, connection, positions, counts, SaveTypeOK
  <1>3. CASE Die(c)
    <2>1. TimerunTypeOK'
      BY <1>3, EndRunIfType DEF Die
    <2> QED BY <1>3, <2>1 DEF Die, positions, counts, SaveTypeOK, TimerunTypeOK
  <1> QED BY <1>1, <1>2, <1>3 DEF RunStep

LEMMA PositionStepType ==
    ASSUME BaseInv, NEW c \in Client, PositionStep(c)
    PROVE  SaveTypeOK'
  <1> USE DEF BaseInv
  <1>0. GuidOf(c) \in Guid
    BY GuidOfType
  <1>1. ASSUME NEW s \in Slot, Save(c, s)
        PROVE  SaveTypeOK'
    <2>1. team[c] \in Team
      BY <1>1 DEF Save, Playing
    <2>2. saveLimit' \in [Client -> 0..LimitedSaves] /\ used' \in [Client -> Nat]
      <3>1. CASE LimitedSaves > 0
        <4>1. saveLimit[c] - 1 \in 0..LimitedSaves /\ used[c] + 1 \in Nat
          BY <1>1, <3>1, SaveAssumption DEF Save, SaveTypeOK
        <4> QED BY <1>1, <3>1, <4>1 DEF Save, SaveTypeOK
      <3>2. CASE ~(LimitedSaves > 0)
        BY <1>1, <3>2 DEF Save, SaveTypeOK
      <3> QED BY <3>1, <3>2
    <2>3. StoreSave(c, team[c], s)
      BY <1>1 DEF Save
    <2> QED BY <2>1, <2>2, <2>3, StoreSaveType DEF StoreSave, timerun, SaveTypeOK
  <1>2. CASE ForceSave(c)
    <2>1. team[c] \in Team /\ 0 \in Slot /\ StoreSave(c, team[c], 0)
      BY <1>2, SaveAssumption DEF ForceSave, Playing, Slot
    <2> QED BY <1>2, <2>1, StoreSaveType DEF ForceSave, StoreSave, timerun, SaveTypeOK
  <1>3. ASSUME NEW s \in Slot, Load(c, s)
        PROVE  SaveTypeOK'
    <2>1. saves[GuidOf(c)][team[c]][s] \in Position
      BY <1>0, <1>3 DEF Load, Playing, SaveTypeOK
    <2>2. TimerunTypeOK'
      BY <1>3, <2>1, TeleportToType DEF Load
    <2> QED BY <1>3, <2>2 DEF Load, connection, positions, counts, SaveTypeOK, TimerunTypeOK
  <1>4. ASSUME NEW b \in Backup, LoadBackupPosition(c, b)
        PROVE  SaveTypeOK'
    <2>1. backups[GuidOf(c)][team[c]][b] \in Position
      BY <1>0, <1>4 DEF LoadBackupPosition, Playing, SaveTypeOK
    <2>2. TimerunTypeOK'
      BY <1>4, <2>1, TeleportToType DEF LoadBackupPosition
    <2> QED BY <1>4, <2>2 DEF LoadBackupPosition, connection, positions, counts, SaveTypeOK,
                              TimerunTypeOK
  <1>5. CASE ResetSavedPositions(c)
    <2>1. /\ saves' \in [Guid -> [Team -> [Slot -> Position]]]
          /\ backups' \in [Guid -> [Team -> [Backup -> Position]]]
          /\ quickDeploy' \in [Guid -> [Team -> Position]]
      BY <1>0, <1>5, PositionTypes DEF ResetSavedPositions, SaveTypeOK
    <2> QED BY <1>5, <2>1 DEF ResetSavedPositions, connection, timerun, counts, SaveTypeOK
  <1> QED BY <1>1, <1>2, <1>3, <1>4, <1>5 DEF PositionStep

LEMMA TeamStepType ==
    ASSUME BaseInv, NEW c \in Client, TeamStep(c)
    PROVE  SaveTypeOK'
  <1> USE DEF BaseInv
  <1>0. GuidOf(c) \in Guid
    BY GuidOfType
  <1>1. ASSUME NEW t \in Team \cup {"spectator"}, SetTeam(c, t)
        PROVE  SaveTypeOK'
    <2>1. TimerunTypeOK'
      BY <1>1, EndRunIfType DEF SetTeam
    <2>2. team[c] \in Team => saves[GuidOf(c)][team[c]][0] \in Position
      BY <1>0, SaveAssumption DEF SaveTypeOK, Slot
    <2>3. quickDeploy' \in [Guid -> [Team -> Position]]
      BY <1>0, <1>1, <2>2 DEF SetTeam, SaveTypeOK
    <2>4. /\ team' \in [Client -> Team \cup {"spectator"}]
          /\ limbo' \in [Client -> BOOLEAN]
      BY <1>1 DEF SetTeam, SaveTypeOK
    <2> QED BY <1>1, <2>1, <2>3, <2>4 DEF SetTeam, counts, SaveTypeOK, TimerunTypeOK
  <1>2. CASE SpawnAtSpawnPoint(c)
    BY <1>2 DEF SpawnAtSpawnPoint, Spawn, timerun, counts, SaveTypeOK
  <1>3. Spawn(c) => quickDeploy[GuidOf(c)][team[c]] \in Position
    BY <1>0 DEF Spawn, Playing, SaveTypeOK
  <1>4. Spawn(c) /\ UseQuickDeploy(c) => quickDeploy' \in [Guid -> [Team -> Position]]
    <2> SUFFICES ASSUME Spawn(c), UseQuickDeploy(c)
                 PROVE  quickDeploy' \in [Guid -> [Team -> Position]]
      OBVIOUS
    <2>1. team[c] \in Team /\ Invalidated(quickDeploy[GuidOf(c)][team[c]]) \in Position
      BY <1>3, PositionTypes DEF Spawn, Playing
    <2> QED BY <1>0, <2>1 DEF UseQuickDeploy, SaveTypeOK
  <1>5. CASE SpawnQuickDeployed(c)
    <2>1. TimerunTypeOK'
      BY <1>3, <1>5, TeleportToType DEF SpawnQuickDeployed
    <2> QED BY <1>4, <1>5, <2>1 DEF SpawnQuickDeployed, Spawn, counts, SaveTypeOK, TimerunTypeOK
  <1>6. CASE SpawnAfterInactivity(c)
    BY <1>4, <1>6 DEF SpawnAfterInactivity, Spawn, timerun, counts, SaveTypeOK
  <1> QED BY <1>1, <1>2, <1>5, <1>6 DEF TeamStep

LEMMA ConnectionStepType ==
    ASSUME BaseInv, NEW c \in Client, ConnectionStep(c)
    PROVE  SaveTypeOK'
  <1> USE DEF BaseInv
  <1>1. NewSession(c) =>
           /\ team' \in [Client -> Team \cup {"spectator"}] /\ limbo' \in [Client -> BOOLEAN]
           /\ saveLimit' \in [Client -> 0..LimitedSaves] /\ TimerunTypeOK'
    BY SaveAssumption DEF NewSession, SaveTypeOK, TimerunTypeOK
  <1>2. CASE Connect(c)
    BY <1>1, <1>2 DEF Connect, positions, counts, SaveTypeOK, TimerunTypeOK
  <1>3. CASE Authenticate(c)
    <2>1. c \in Guid
      BY DEF Guid
    <2>2. repeats' \in [Client -> Nat] /\ repeatedInRun' \in [Client -> BOOLEAN]
      <3>1. /\ repeats \in [Client -> Nat] /\ repeatedInRun \in [Client -> BOOLEAN]
            /\ repeats[c] + 1 \in Nat /\ timerunActive[c] \in BOOLEAN
        BY DEF SaveTypeOK
      <3>2. \/ UNCHANGED <<repeats, repeatedInRun>>
            \/ /\ repeats' = [repeats EXCEPT ![c] = repeats[c] + 1]
               /\ repeatedInRun' = [repeatedInRun EXCEPT ![c] = timerunActive[c]]
        BY <1>3 DEF Authenticate, LoadPositionsFromDatabase, CountRepeat
      <3> QED BY <3>1, <3>2
    <2>3. /\ status' \in [Client -> {"gone", "connecting", "identified"}]
          /\ UNCHANGED <<team, limbo, timerunActive, runSpawnflags, run, loaded, backups,
                         quickDeploy, savedPositions, origins, savedIn, used, left>>
      BY <1>3 DEF Authenticate, SaveTypeOK
    <2>4. CASE savedPositions[c] = NoEntry
      <3>1. UNCHANGED <<saves, saveLimit>>
        BY <1>3, <2>4 DEF Authenticate, LoadPositionsFromDatabase
      <3> QED BY <2>2, <2>3, <3>1 DEF SaveTypeOK
    <2>5. CASE savedPositions[c] # NoEntry
      <3> DEFINE stored == savedPositions[c]
                 restored == [t \in Team |-> [s \in Slot |->
                                 Restored(saves[c][t][s], stored.saves[t][s])]]
      <3>1. /\ stored.saves \in [Team -> [Slot -> StoredPosition]]
            /\ stored.saveLimit \in 0..LimitedSaves
        BY <2>1, <2>5 DEF SaveTypeOK, Stored
      <3>2. restored \in [Team -> [Slot -> Position]]
        BY <2>1, <3>1, PositionTypes DEF SaveTypeOK
      <3>3. /\ saves' = [saves EXCEPT ![c] = restored]
            /\ saveLimit' = [saveLimit EXCEPT ![c] = stored.saveLimit]
        BY <1>3, <2>5 DEF Authenticate, LoadPositionsFromDatabase
      <3>4. /\ saves' \in [Guid -> [Team -> [Slot -> Position]]]
            /\ saveLimit' \in [Client -> 0..LimitedSaves]
        BY <3>1, <3>2, <3>3 DEF SaveTypeOK
      <3> QED BY <2>2, <2>3, <3>4 DEF SaveTypeOK
    <2> QED BY <2>4, <2>5
  <1>4. ASSUME NEW again \in BOOLEAN, Disconnect(c, again)
        PROVE  SaveTypeOK'
    <2>1. (IF again THEN NoGuid ELSE GuidOf(c)) \in Guid
      BY GuidOfType DEF Guid
    <2>2. savedPositions' \in [Guid -> Stored \cup {NoEntry}]
      BY <1>4, <2>1, SavePositionsType DEF Disconnect
    <2>3. left' \in [Client -> 0..LimitedSaves]
      BY <1>4 DEF Disconnect, Leaves, SaveTypeOK
    <2> QED BY <1>1, <1>4, <2>2, <2>3 DEF Disconnect, Leaves, positions, SaveTypeOK, TimerunTypeOK
  <1> QED BY <1>2, <1>3, <1>4 DEF ConnectionStep

-----------------------------------------------------------------------------
(* The latest slots.                                                       *)

\* Clearing, overwriting and restoring sound slots leaves them sound.
LEMMA SoundSlots ==
    ASSUME NEW STATE slots, slots \in [Slot -> Position], Sound(slots)
    PROVE  /\ Sound([s \in Slot |-> ClearedSave(slots[s])])
           /\ Sound([s \in Slot |-> Snapshot(slots[s])])
           /\ \A s \in Slot, p \in Position : p.isValid =>
                 Sound([i \in Slot |-> IF i = s THEN p ELSE NotLatest(slots[i])])
  <1>1. \A p \in Position : ClearedSave(p).isLatest =>
           p.isLatest /\ ClearedSave(p).isValid = p.isValid
    BY DEF ClearedSave, NotLatest, Invalidated, Position
  <1>2. Sound([s \in Slot |-> ClearedSave(slots[s])])
    BY <1>1 DEF Sound
  <1>3. Sound([s \in Slot |-> Snapshot(slots[s])])
    BY DEF Sound, Snapshot
  <1>4. \A p \in Position : ~NotLatest(p).isLatest
    BY DEF NotLatest, Position
  <1>5. ASSUME NEW s \in Slot, NEW p \in Position, p.isValid
        PROVE  Sound([i \in Slot |-> IF i = s THEN p ELSE NotLatest(slots[i])])
    BY <1>4, <1>5 DEF Sound
  <1> QED BY <1>2, <1>3, <1>5

\* So do the slots that are read back from the database.
LEMMA SoundRestored ==
    ASSUME NEW STATE slots, slots \in [Slot -> Position], NEW STATE kept, kept \in [Slot -> StoredPosition],
           Sound(kept)
    PROVE  Sound([s \in Slot |-> Restored(slots[s], kept[s])])
  BY DEF Sound, Restored

LEMMA InitLatest == SaveInit => LatestInv
  BY DEF SaveInit, LatestInv, Sound, NoPosition

LEMMA StoreSaveLatest ==
    ASSUME BaseInv, NEW c \in Client, team[c] \in Team, NEW s \in Slot,
           StoreSave(c, team[c], s)
    PROVE  LatestInv'
  <1> DEFINE g == GuidOf(c)
             t == team[c]
             row == [i \in Slot |-> IF i = s THEN NewPosition(c) ELSE NotLatest(saves[g][t][i])]
  <1>1. /\ g \in Guid /\ saves[g][t] \in [Slot -> Position] /\ Sound(saves[g][t])
        /\ saves \in [Guid -> [Team -> [Slot -> Position]]]
    BY GuidOfType DEF BaseInv, SaveTypeOK, LatestInv
  <1>2. NewPosition(c) \in Position /\ NewPosition(c).isValid
    BY SaveAssumption DEF StoreSave, StoredIn, NewPosition, Position, BaseInv, SaveTypeOK
  <1>3. Sound(row)
    BY <1>1, <1>2, SoundSlots
  <1>4. saves' = [saves EXCEPT ![g][t] = row] /\ UNCHANGED savedPositions
    BY DEF StoreSave
  <1>5. \A h \in Guid, u \in Team : saves'[h][u] = row \/ saves'[h][u] = saves[h][u]
    <2> HIDE DEF row, g, t
    <2> QED BY <1>1, <1>4
  <1>6. \A h \in Guid, u \in Team : Sound(saves[h][u])
    BY DEF BaseInv, LatestInv
  <1>7. \A h \in Guid, u \in Team : Sound(saves'[h][u])
    <2> HIDE DEF row
    <2> QED BY <1>3, <1>5, <1>6
  <1> QED BY <1>4, <1>7 DEF BaseInv, LatestInv

LEMMA StepLatest ==
    ASSUME BaseInv, NEW c \in Client,
           RunStep(c) \/ PositionStep(c) \/ TeamStep(c) \/ ConnectionStep(c)
    PROVE  LatestInv'
  <1> USE DEF BaseInv
  <1>0. /\ GuidOf(c) \in Guid /\ c \in Guid
        /\ saves \in [Guid -> [Team -> [Slot -> Position]]]
        /\ \A g \in Guid, t \in Team : Sound(saves[g][t])
    BY GuidOfType DEF Guid, SaveTypeOK, LatestInv
  <1>1. CASE UNCHANGED <<saves, savedPositions>>
    BY <1>1 DEF LatestInv
  <1>2. ASSUME NEW flags \in RunFlags, StartRun(c, flags)
        PROVE  LatestInv'
    <2>1. CASE UNCHANGED positions
      BY <1>1, <1>2, <2>1 DEF StartRun, positions
    <2>2. CASE ClearTimerunSaves(GuidOf(c))
      <3>1. \A t \in Team : Sound([s \in Slot |-> ClearedSave(saves[GuidOf(c)][t][s])])
        BY <1>0, SoundSlots
      <3>2. \A g \in Guid, t \in Team : Sound(saves'[g][t])
        BY <1>0, <2>2, <3>1 DEF ClearTimerunSaves
      <3> QED BY <1>2, <3>2 DEF StartRun, LatestInv
    <2> QED BY <1>2, <2>1, <2>2 DEF StartRun
  <1>3. ASSUME NEW s \in Slot, Save(c, s)
        PROVE  LatestInv'
    BY <1>3, StoreSaveLatest DEF Save, Playing
  <1>4. CASE ForceSave(c)
    BY <1>4, StoreSaveLatest, SaveAssumption DEF ForceSave, Playing, Slot
  <1>5. CASE ResetSavedPositions(c)
    <2>1. \A g \in Guid, t \in Team : Sound(saves'[g][t])
      BY <1>0, <1>5 DEF ResetSavedPositions, Sound, NoPosition
    <2> QED BY <1>5, <2>1 DEF ResetSavedPositions, LatestInv
  <1>6. CASE Authenticate(c)
    <2>1. CASE savedPositions[c] = NoEntry
      BY <1>1, <1>6, <2>1 DEF Authenticate, LoadPositionsFromDatabase
    <2>2. CASE savedPositions[c] # NoEntry
      <3> DEFINE stored == savedPositions[c]
                 restored == [t \in Team |-> [s \in Slot |->
                                 Restored(saves[c][t][s], stored.saves[t][s])]]
      <3>1. \A t \in Team : stored.saves[t] \in [Slot -> StoredPosition] /\ Sound(stored.saves[t])
        BY <1>0, <2>2 DEF SaveTypeOK, LatestInv, Stored
      <3>2. \A t \in Team : Sound([s \in Slot |-> Restored(saves[c][t][s], stored.saves[t][s])])
        BY <1>0, <3>1, SoundRestored
      <3>3. \A t \in Team : Sound(restored[t])
        BY <3>2
      <3>4. saves' = [saves EXCEPT ![c] = restored] /\ UNCHANGED savedPositions
        BY <1>6, <2>2 DEF Authenticate, LoadPositionsFromDatabase
      <3>5. \A g \in Guid, t \in Team : Sound(saves'[g][t])
        <4> HIDE DEF restored
        <4> QED BY <1>0, <3>3, <3>4
      <3> QED BY <3>4, <3>5 DEF LatestInv
    <2> QED BY <2>1, <2>2
  <1>7. ASSUME NEW again \in BOOLEAN, Disconnect(c, again)
        PROVE  LatestInv'
    <2> DEFINE g == IF again THEN NoGuid ELSE GuidOf(c)
               kept == [t \in Team |-> [s \in Slot |-> Snapshot(saves[g][t][s])]]
               entry == [saves |-> kept, saveLimit |-> saveLimit[c]]
    <2>1. g \in Guid
      BY <1>0 DEF Guid
    <2>2. \A t \in Team : Sound([s \in Slot |-> Snapshot(saves[g][t][s])])
      BY <1>0, <2>1, SoundSlots
    <2>3. \A t \in Team : Sound(entry.saves[t])
      BY <2>2
    <2>4. savedPositions' = [savedPositions EXCEPT ![g] = entry] /\ UNCHANGED saves
      BY <1>7 DEF Disconnect, SavePositionsToDatabase, Leaves, positions
    <2>5. \A h \in Guid : savedPositions'[h] = entry \/ savedPositions'[h] = savedPositions[h]
      <3> HIDE DEF entry, g
      <3> QED BY <2>1, <2>4 DEF SaveTypeOK
    <2>6. \A h \in Guid : savedPositions'[h] # NoEntry => \A t \in Team : Sound(savedPositions'[h].saves[t])
      <3> HIDE DEF entry, g
      <3> QED BY <2>3, <2>5 DEF LatestInv
    <2> QED BY <1>0, <2>4, <2>6 DEF LatestInv
  <1>8. CASE RunStep(c)
    BY <1>1, <1>2, <1>8 DEF RunStep, StopRun, Die, positions
  <1>9. CASE PositionStep(c)
    BY <1>1, <1>3, <1>4, <1>5, <1>9 DEF PositionStep, Load, LoadBackupPosition, positions
  <1>10. CASE TeamStep(c)
    BY <1>1, <1>10 DEF TeamStep, SetTeam, SpawnAtSpawnPoint, SpawnQuickDeployed,
                       SpawnAfterInactivity, Spawn
  <1>11. CASE ConnectionStep(c)
    BY <1>1, <1>6, <1>7, <1>11 DEF ConnectionStep, Connect, positions
  <1> QED BY <1>8, <1>9, <1>10, <1>11

LEMMA BaseStep == BaseInv /\ [SaveNext]_saveVars => BaseInv'
  <1> SUFFICES ASSUME BaseInv, [SaveNext]_saveVars PROVE BaseInv'
    OBVIOUS
  <1>1. ASSUME NEW c \in Client,
               RunStep(c) \/ PositionStep(c) \/ TeamStep(c) \/ ConnectionStep(c)
        PROVE  BaseInv'
    BY <1>1, RunStepType, PositionStepType, TeamStepType, ConnectionStepType, StepLatest
       DEF BaseInv
  <1>2. CASE UNCHANGED saveVars
    BY <1>2 DEF saveVars, connection, timerun, positions, counts, BaseInv, SaveTypeOK, LatestInv
  <1> QED BY <1>1, <1>2 DEF SaveNext

THEOREM BaseCorrect == SaveSpec => []BaseInv
  <1>1. SaveInit => BaseInv
    BY InitType, InitLatest DEF BaseInv
  <1> QED BY <1>1, BaseStep, PTL DEF SaveSpec

\* Every variable of the saved positions keeps its type: slots, backups and limits stay
\* within their arrays.
THEOREM SaveTypeCorrect == SaveSpec => []SaveTypeOK
  <1>1. BaseInv => SaveTypeOK
    BY DEF BaseInv
  <1> QED BY <1>1, BaseCorrect, PTL

\* For any number of clients and slots, the latest slot of a team is unique and valid.
THEOREM LatestCorrect == SaveSpec => []LatestIsSaved
  <1>1. BaseInv => LatestIsSaved
    <2> SUFFICES ASSUME BaseInv, NEW g \in Guid, NEW t \in Team, NEW s \in LatestSlots(g, t)
                 PROVE  saves[g][t][s].isValid /\ LatestSlots(g, t) = {s}
      BY DEF LatestIsSaved
    <2>1. Sound(saves[g][t])
      BY DEF BaseInv, LatestInv
    <2> QED BY <2>1 DEF Sound, LatestSlots
  <1> QED BY <1>1, BaseCorrect, PTL

-----------------------------------------------------------------------------
(* The positions of a run.                                                 *)

\* A timerun position of client c was saved in the client's present run.
Own(c, p) == p.isValid /\ p.isTimerunSave => savedIn[p.origin] = run[c]

OwnOf(c) == \A t \in Team :
    /\ \A s \in Slot : Own(c, saves[c][t][s])
    /\ \A b \in Backup : Own(c, backups[c][t][b])
    /\ Own(c, quickDeploy[c][t])

\* Positions are numbered as they are saved: a new one is no earlier one.
OriginsInv == \A g \in Guid, t \in Team :
    /\ \A s \in Slot : saves[g][t][s].origin <= origins
    /\ \A b \in Backup : backups[g][t][b].origin <= origins
    /\ quickDeploy[g][t].origin <= origins
    /\ savedPositions[g] # NoEntry =>
          \A s \in Slot : savedPositions[g].saves[t][s].origin <= origins

\* A run with saves in which the client has not repeated its login.
Plain(c) == timerunActive[c] /\ "NoSave" \notin runSpawnflags[c] /\ ~repeatedInRun[c]

\* Only an identified client is in a run, and the timerun positions of a client in a plain
\* run are of that run.
OwnInv == \A c \in Client : /\ timerunActive[c] => status[c] = "identified"
                            /\ Plain(c) => OwnOf(c)

UseInv == BaseInv /\ OriginsInv /\ OwnInv /\ RunUsesOwnPositions

LEMMA InitUse == SaveInit => UseInv
  <1> SUFFICES ASSUME SaveInit PROVE UseInv
    OBVIOUS
  <1>1. BaseInv
    BY InitType, InitLatest DEF BaseInv
  <1>2. OriginsInv
    BY DEF SaveInit, OriginsInv, NoPosition
  <1> QED BY <1>1, <1>2 DEF SaveInit, UseInv, OwnInv, Plain, RunUsesOwnPositions

\* The run of every client goes on as it was, or ends.
GoesOn(d) == timerunActive'[d] => timerunActive[d] /\ runSpawnflags'[d] = runSpawnflags[d]
                                  /\ run'[d] = run[d]
                                  /\ (repeatedInRun[d] => repeatedInRun'[d])

LEMMA EndRunIfGoesOn ==
    ASSUME SaveTypeOK, NEW c \in Client, NEW STATE condition, EndRunIf(c, condition)
    PROVE  /\ \A d \in Client : GoesOn(d)
           /\ \A d \in Client : timerunActive'[d] => loaded'[d] = loaded[d]
  <1>1. CASE EndRun(c)
    BY <1>1 DEF EndRun, GoesOn, SaveTypeOK
  <1>2. CASE UNCHANGED timerun
    BY <1>2 DEF timerun, GoesOn
  <1> QED BY <1>1, <1>2 DEF EndRunIf

\* A position that does not interrupt the run is the run's own: that is all a run loads.
LEMMA TeleportToGoesOn ==
    ASSUME SaveTypeOK, OwnInv, RunUsesOwnPositions, NEW c \in Client,
           NEW STATE p, p \in Position, p.isValid,
           Plain(c) => Own(c, p),
           TeleportTo(c, p, Interrupts(c, p))
    PROVE  (\A d \in Client : GoesOn(d)) /\ RunUsesOwnPositions'
  <1>1. CASE timerunActive[c] /\ ~Interrupts(c, p)
    <2> DEFINE more == loaded[c] \cup {savedIn[p.origin]}
    <2>1. "NoSave" \notin runSpawnflags[c] /\ p.isTimerunSave
      BY <1>1 DEF Interrupts
    <2>2. ~repeatedInRun[c] => more \subseteq {run[c]}
      <3>1. ~repeatedInRun[c] => Plain(c) /\ Own(c, p)
        BY <1>1, <2>1 DEF Plain
      <3> QED BY <1>1, <2>1, <3>1 DEF RunUsesOwnPositions, Own
    <2>3. /\ loaded' = [loaded EXCEPT ![c] = more]
          /\ UNCHANGED <<timerunActive, runSpawnflags, run, repeatedInRun>>
      BY <1>1 DEF TeleportTo
    <2>4. loaded'[c] = more /\ \A d \in Client : d # c => loaded'[d] = loaded[d]
      <3> HIDE DEF more
      <3> QED BY <2>3 DEF SaveTypeOK
    <2>5. RunUsesOwnPositions'
      <3> HIDE DEF more
      <3> QED BY <2>1, <2>2, <2>3, <2>4 DEF RunUsesOwnPositions
    <2> QED BY <2>3, <2>5 DEF GoesOn
  <1>2. CASE ~(timerunActive[c] /\ ~Interrupts(c, p))
    <2>1. EndRunIf(c, Interrupts(c, p))
      BY <1>2 DEF TeleportTo
    <2> QED BY <2>1, EndRunIfGoesOn DEF GoesOn, RunUsesOwnPositions
  <1> QED BY <1>1, <1>2

\* What a step leaves to show when it starts no run and saves nothing: that the
\* positions of the clients whose runs go on are positions they had.
LEMMA UseKept ==
    ASSUME UseInv, BaseInv',
           \A d \in Client : GoesOn(d), RunUsesOwnPositions',
           \A d \in Client : timerunActive'[d] => status'[d] = status[d],
           UNCHANGED <<origins, savedIn>>, OriginsInv',
           \A d \in Client : timerunActive'[d] /\ ~repeatedInRun'[d] /\ Plain(d) /\ OwnOf(d)
                              => OwnOf(d)'
    PROVE  UseInv'
  BY DEF UseInv, OwnInv, GoesOn, Plain

\* A step that leaves the positions alone.
LEMMA UseUnchanged ==
    ASSUME UseInv, BaseInv', UNCHANGED <<positions, savedPositions, origins, savedIn>>,
           \A d \in Client : GoesOn(d), RunUsesOwnPositions',
           \A d \in Client : timerunActive'[d] => status'[d] = status[d]
    PROVE  UseInv'
  <1>1. OriginsInv'
    BY DEF UseInv, OriginsInv, positions
  <1>2. \A d \in Client : timerunActive'[d] /\ OwnOf(d) => OwnOf(d)'
    BY DEF GoesOn, OwnOf, Own, positions
  <1> QED BY <1>1, <1>2, UseKept

LEMMA StoreSaveUse ==
    ASSUME UseInv, BaseInv', NEW c \in Client, Playing(c), NEW s \in Slot,
           StoreSave(c, team[c], s)
    PROVE  UseInv'
  <1> DEFINE t == team[c]
             new == NewPosition(c)
             row == [i \in Slot |-> IF i = s THEN new ELSE NotLatest(saves[c][t][i])]
             pushed == [b \in Backup |-> IF b = 1 THEN saves[c][t][BackedUp(c, t, s)]
                                         ELSE backups[c][t][b - 1]]
             Good(d, p) == p.isValid /\ p.isTimerunSave => savedIn'[p.origin] = run[d]
  <1> USE DEF UseInv, BaseInv
  <1>1. /\ GuidOf(c) = c /\ c \in Guid /\ t \in Team /\ status[c] = "identified"
        /\ saves \in [Guid -> [Team -> [Slot -> Position]]]
        /\ backups \in [Guid -> [Team -> [Backup -> Position]]]
        /\ quickDeploy \in [Guid -> [Team -> Position]]
    BY DEF Playing, GuidOf, Guid, SaveTypeOK
  <1>2. /\ UNCHANGED <<quickDeploy, savedPositions, status, timerun>>
        /\ saves' = [saves EXCEPT ![c][t] = row]
        /\ backups' = backups \/ (LatestSlots(c, t) # {} /\ backups' = [backups EXCEPT ![c][t] = pushed])
    BY <1>1 DEF StoreSave, BackUpLatest
  <1>3. /\ origins \in 0..MaxOrigin /\ origins + 1 \in 0..MaxOrigin /\ origins' = origins + 1
        /\ savedIn' = [savedIn EXCEPT ![origins + 1] = IF timerunActive[c] THEN run[c] ELSE 0]
        /\ savedIn \in [0..MaxOrigin -> 0..MaxRun]
    BY SaveAssumption DEF StoreSave, StoredIn, SaveTypeOK
  <1>4. /\ new \in Position /\ new.origin = origins + 1 /\ new.isTimerunSave = timerunActive[c]
    BY <1>3 DEF NewPosition, Position, SaveTypeOK
  <1>5. \A o \in 0..MaxOrigin : o <= origins => savedIn'[o] = savedIn[o]
    BY <1>3
  <1>6. savedIn'[origins + 1] = IF timerunActive[c] THEN run[c] ELSE 0
    BY <1>3
  <1>7. \A p \in Position : p.origin \in 0..MaxOrigin
    BY DEF Position
  <1>8. \A d \in Client, p \in Position : p.origin <= origins /\ Own(d, p) => Good(d, p)
    BY <1>5, <1>7 DEF Own
  <1>9. timerunActive[c] => Good(c, new)
    BY <1>4, <1>6
  <1>10. \A p \in Position : /\ NotLatest(p) \in Position /\ NotLatest(p).origin = p.origin
                             /\ NotLatest(p).isValid = p.isValid
                             /\ NotLatest(p).isTimerunSave = p.isTimerunSave
    BY DEF NotLatest, Position
  <1>11. /\ \A i \in Slot : saves[c][t][i] \in Position /\ saves[c][t][i].origin <= origins
         /\ \A b \in Backup : backups[c][t][b] \in Position /\ backups[c][t][b].origin <= origins
    BY <1>1 DEF OriginsInv
  <1>12. \A i \in Slot : row[i].origin <= origins + 1
    <2> HIDE DEF new
    <2> QED BY <1>3, <1>4, <1>7, <1>10, <1>11
  <1>13. LatestSlots(c, t) # {} =>
            \A b \in Backup : \/ \E i \in Slot : pushed[b] = saves[c][t][i]
                              \/ \E k \in Backup : pushed[b] = backups[c][t][k]
    <2> SUFFICES ASSUME LatestSlots(c, t) # {}, NEW b \in Backup
                 PROVE  \/ \E i \in Slot : pushed[b] = saves[c][t][i]
                        \/ \E k \in Backup : pushed[b] = backups[c][t][k]
      OBVIOUS
    <2>1. BackedUp(c, t, s) \in Slot
      BY <1>1, LatestIsFirst DEF BackedUp, LatestSlots
    <2>2. b # 1 => b - 1 \in Backup
      BY SaveAssumption DEF Backup
    <2> QED BY <2>1, <2>2
  <1>14. /\ saves'[c][t] = row /\ \A g \in Guid, u \in Team : g # c \/ u # t => saves'[g][u] = saves[g][u]
         /\ \A g \in Guid, u \in Team : g # c \/ u # t => backups'[g][u] = backups[g][u]
         /\ backups'[c][t] = backups[c][t] \/ (LatestSlots(c, t) # {} /\ backups'[c][t] = pushed)
    <2> HIDE DEF row, pushed
    <2> QED BY <1>1, <1>2
  <1>15. OriginsInv'
    <2>1. \A g \in Guid, u \in Team, i \in Slot : saves'[g][u][i].origin <= origins + 1
      <3>1. \A g \in Guid, u \in Team, i \in Slot : g # c \/ u # t =>
               saves'[g][u][i].origin <= origins /\ saves'[g][u][i].origin \in 0..MaxOrigin
        BY <1>1, <1>7, <1>14 DEF OriginsInv
      <3> HIDE DEF row
      <3> QED BY <1>3, <1>12, <1>14, <3>1
    <2>2. \A b \in Backup : backups'[c][t][b] \in Position /\ backups'[c][t][b].origin <= origins
      <3> HIDE DEF pushed
      <3> QED BY <1>11, <1>13, <1>14
    <2>3. \A g \in Guid, u \in Team, b \in Backup : backups'[g][u][b].origin <= origins + 1
      <3>1. \A g \in Guid, u \in Team, b \in Backup : g # c \/ u # t =>
               backups'[g][u][b].origin <= origins /\ backups'[g][u][b].origin \in 0..MaxOrigin
        BY <1>1, <1>7, <1>14 DEF OriginsInv
      <3>2. \A b \in Backup : backups'[c][t][b].origin <= origins + 1
        BY <1>3, <1>7, <2>2
      <3> QED BY <1>3, <3>1, <3>2
    <2>4. \A g \in Guid, u \in Team : quickDeploy[g][u].origin <= origins + 1
      BY <1>1, <1>3, <1>7 DEF OriginsInv
    <2>5. \A g \in Guid, u \in Team, i \in Slot : savedPositions[g] # NoEntry =>
             savedPositions[g].saves[u][i].origin <= origins + 1
      <3>1. \A g \in Guid, u \in Team, i \in Slot : savedPositions[g] # NoEntry =>
               savedPositions[g].saves[u][i].origin \in 0..MaxOrigin
        BY DEF SaveTypeOK, Stored, StoredPosition
      <3>2. \A g \in Guid, u \in Team, i \in Slot : savedPositions[g] # NoEntry =>
               savedPositions[g].saves[u][i].origin <= origins
        BY DEF OriginsInv
      <3>3. \A o \in 0..MaxOrigin : o <= origins => o <= origins + 1
        BY <1>3
      <3> QED BY <3>1, <3>2, <3>3
    <2>6. origins' = origins + 1 /\ UNCHANGED <<quickDeploy, savedPositions>>
      BY <1>2, <1>3
    <2>7. \A g \in Guid, u \in Team : savedPositions'[g] # NoEntry =>
             \A i \in Slot : savedPositions'[g].saves[u][i].origin <= origins'
      BY <2>5, <2>6
    <2>8. \A g \in Guid, u \in Team, i \in Slot : saves'[g][u][i].origin <= origins'
      BY <2>1, <2>6
    <2>9. \A g \in Guid, u \in Team, b \in Backup : backups'[g][u][b].origin <= origins'
      BY <2>3, <2>6
    <2>10. \A g \in Guid, u \in Team : quickDeploy'[g][u].origin <= origins'
      BY <2>4, <2>6
    <2> QED BY <2>7, <2>8, <2>9, <2>10 DEF OriginsInv
  <1>16. ASSUME NEW d \in Client, Plain(d)
         PROVE  OwnOf(d)'
    <2>1. OwnOf(d) /\ d \in Guid
      BY <1>16 DEF OwnInv, Guid
    <2>2. ASSUME NEW u \in Team
          PROVE  /\ \A i \in Slot : Good(d, saves[d][u][i])
                 /\ \A b \in Backup : Good(d, backups[d][u][b])
                 /\ Good(d, quickDeploy[d][u])
      <3>1. /\ \A i \in Slot : /\ saves[d][u][i] \in Position /\ saves[d][u][i].origin <= origins
                              /\ Own(d, saves[d][u][i])
            /\ \A b \in Backup : /\ backups[d][u][b] \in Position /\ Own(d, backups[d][u][b])
                                /\ backups[d][u][b].origin <= origins
            /\ quickDeploy[d][u] \in Position /\ Own(d, quickDeploy[d][u])
            /\ quickDeploy[d][u].origin <= origins
        BY <1>1, <2>1 DEF OwnOf, OriginsInv
      <3> HIDE DEF Good
      <3> QED BY <1>8, <3>1
    <2>3. ASSUME d = c
          PROVE  \A i \in Slot : Good(c, row[i])
      <3>1. \A i \in Slot : Good(c, saves[c][t][i])
        <4> HIDE DEF Good
        <4> QED BY <1>1, <2>2, <2>3
      <3>2. \A p \in Position : Good(c, p) => Good(c, NotLatest(p))
        BY <1>10
      <3>3. \A i \in Slot : Good(c, NotLatest(saves[c][t][i]))
        <4> HIDE DEF Good
        <4> QED BY <1>11, <3>1, <3>2
      <3>4. timerunActive[c]
        BY <1>16, <2>3 DEF Plain
      <3> HIDE DEF Good, new
      <3> QED BY <1>9, <2>3, <3>3, <3>4
    <2>4. ASSUME d = c
          PROVE  \A b \in Backup : Good(c, backups'[c][t][b])
      <3>1. /\ \A i \in Slot : Good(c, saves[c][t][i])
            /\ \A b \in Backup : Good(c, backups[c][t][b])
        <4> HIDE DEF Good
        <4> QED BY <1>1, <2>2, <2>4
      <3> SUFFICES ASSUME NEW b \in Backup
                   PROVE  Good(c, backups'[c][t][b])
        OBVIOUS
      <3>2. \/ \E i \in Slot : backups'[c][t][b] = saves[c][t][i]
            \/ \E k \in Backup : backups'[c][t][b] = backups[c][t][k]
        <4> HIDE DEF pushed
        <4> QED BY <1>13, <1>14
      <3> QED BY <3>1, <3>2
    <2>5. ASSUME NEW u \in Team
          PROVE  /\ \A i \in Slot : Good(d, saves'[d][u][i])
                 /\ \A b \in Backup : Good(d, backups'[d][u][b])
                 /\ Good(d, quickDeploy'[d][u])
      <3>1. CASE d = c /\ u = t
        <4> HIDE DEF row, Good, t
        <4> QED BY <1>2, <1>14, <2>2, <2>3, <2>4, <3>1
      <3>2. CASE d # c \/ u # t
        <4> HIDE DEF row, Good, t
        <4> QED BY <1>2, <1>14, <2>1, <2>2, <3>2
      <3> QED BY <3>1, <3>2
    <2> QED BY <1>2, <2>5 DEF OwnOf, Own, timerun
  <1>17. OwnInv' /\ RunUsesOwnPositions'
    <2>1. \A d \in Client : Plain(d)' <=> Plain(d)
      BY <1>2 DEF Plain, timerun
    <2> QED BY <1>2, <1>16, <2>1 DEF OwnInv, RunUsesOwnPositions, timerun
  <1> QED BY <1>15, <1>17

\* Clearing leaves nothing of an earlier run, and no origin that was not there.
LEMMA Cleared ==
    /\ \A p \in Position : /\ ClearedSave(p).origin = p.origin /\ ClearedQuick(p).origin = p.origin
                           /\ ~(ClearedSave(p).isValid /\ ClearedSave(p).isTimerunSave)
                           /\ ~(ClearedQuick(p).isValid /\ ClearedQuick(p).isTimerunSave)
    /\ \A bs \in [Backup -> Position], i \in Backup :
          /\ ~ClearedBackups(bs)[i].isTimerunSave
          /\ ClearedBackups(bs)[i] = NoPosition \/ \E b \in Backup : ClearedBackups(bs)[i] = bs[b]
  <1>1. \A p \in Position : /\ ClearedSave(p).origin = p.origin /\ ClearedQuick(p).origin = p.origin
                            /\ ~(ClearedSave(p).isValid /\ ClearedSave(p).isTimerunSave)
                            /\ ~(ClearedQuick(p).isValid /\ ClearedQuick(p).isTimerunSave)
    BY DEF ClearedSave, ClearedQuick, Invalidated, NotLatest, Position
  <1>2. ASSUME NEW bs \in [Backup -> Position], NEW i \in Backup
        PROVE  /\ ~ClearedBackups(bs)[i].isTimerunSave
               /\ ClearedBackups(bs)[i] = NoPosition \/ \E b \in Backup : ClearedBackups(bs)[i] = bs[b]
    <2>1. CASE \E b \in Kept(bs) : Place(bs, b) = i
      <3>1. PICK b \in Kept(bs) : ClearedBackups(bs)[i] = bs[b]
        BY <2>1 DEF ClearedBackups
      <3> QED BY <3>1 DEF Kept
    <2>2. CASE ~\E b \in Kept(bs) : Place(bs, b) = i
      BY <2>2 DEF ClearedBackups, NoPosition
    <2> QED BY <2>1, <2>2
  <1> QED BY <1>1, <1>2

LEMMA StartRunUse ==
    ASSUME UseInv, BaseInv', NEW c \in Client, NEW flags \in RunFlags, StartRun(c, flags)
    PROVE  UseInv'
  <1> USE DEF UseInv, BaseInv
  <1>1. /\ GuidOf(c) = c /\ c \in Guid /\ status[c] = "identified"
        /\ saves \in [Guid -> [Team -> [Slot -> Position]]]
        /\ backups \in [Guid -> [Team -> [Backup -> Position]]]
        /\ quickDeploy \in [Guid -> [Team -> Position]]
    BY DEF StartRun, Playing, GuidOf, Guid, SaveTypeOK
  <1>2. /\ UNCHANGED <<connection, savedPositions, counts>>
        /\ timerunActive'[c] /\ runSpawnflags'[c] = flags /\ loaded'[c] = {}
        /\ \A d \in Client : d # c => /\ timerunActive'[d] = timerunActive[d] /\ run'[d] = run[d]
                                      /\ runSpawnflags'[d] = runSpawnflags[d]
                                      /\ loaded'[d] = loaded[d]
                                      /\ repeatedInRun'[d] = repeatedInRun[d]
    BY DEF StartRun, SaveTypeOK
  <1>3. RunUsesOwnPositions'
    BY <1>2 DEF RunUsesOwnPositions
  <1>4. CASE "NoSave" \in flags
    <2>1. UNCHANGED positions
      BY <1>4 DEF StartRun
    <2>2. OriginsInv'
      BY <1>2, <2>1 DEF OriginsInv, positions, counts
    <2>3. \A d \in Client : d # c /\ OwnOf(d) => OwnOf(d)'
      BY <1>2, <2>1 DEF OwnOf, Own, positions, counts
    <2>4. OwnInv'
      BY <1>1, <1>2, <1>4, <2>3 DEF OwnInv, Plain, connection
    <2> QED BY <1>3, <2>2, <2>4
  <1>5. CASE "NoSave" \notin flags
    <2> DEFINE cs == [t \in Team |-> [s \in Slot |-> ClearedSave(saves[c][t][s])]]
               cq == [t \in Team |-> ClearedQuick(quickDeploy[c][t])]
               cb == [t \in Team |-> ClearedBackups(backups[c][t])]
    <2>0. /\ saves' = [saves EXCEPT ![c] = cs] /\ quickDeploy' = [quickDeploy EXCEPT ![c] = cq]
          /\ backups' = [backups EXCEPT ![c] = cb]
      BY <1>1, <1>5 DEF StartRun, ClearTimerunSaves
    <2>1. /\ saves'[c] = cs /\ quickDeploy'[c] = cq /\ backups'[c] = cb
          /\ \A g \in Guid : g # c => /\ saves'[g] = saves[g] /\ backups'[g] = backups[g]
                                      /\ quickDeploy'[g] = quickDeploy[g]
      <3> HIDE DEF cs, cq, cb
      <3> QED BY <1>1, <2>0
    <2>2. \A t \in Team, s \in Slot : saves'[c][t][s].origin <= origins
      <3>1. \A t \in Team, s \in Slot : saves[c][t][s] \in Position /\ saves[c][t][s].origin <= origins
        BY <1>1 DEF OriginsInv
      <3>2. \A t \in Team, s \in Slot : cs[t][s].origin = saves[c][t][s].origin
        BY <3>1, Cleared
      <3> HIDE DEF cs
      <3> QED BY <2>1, <3>1, <3>2
    <2>3. \A t \in Team : quickDeploy'[c][t].origin <= origins
      <3>1. \A t \in Team : quickDeploy[c][t] \in Position /\ quickDeploy[c][t].origin <= origins
        BY <1>1 DEF OriginsInv
      <3> QED BY <2>1, <3>1, Cleared
    <2>4. \A t \in Team, b \in Backup : backups'[c][t][b].origin <= origins
      <3>1. NoPosition.origin <= origins
        BY SaveAssumption DEF NoPosition, SaveTypeOK
      <3>2. \A t \in Team : /\ backups[c][t] \in [Backup -> Position]
                            /\ \A b \in Backup : backups[c][t][b].origin <= origins
        BY <1>1 DEF OriginsInv
      <3>3. \A t \in Team, b \in Backup : ClearedBackups(backups[c][t])[b].origin <= origins
        BY <3>1, <3>2, Cleared
      <3> QED BY <2>1, <3>3
    <2>5. OriginsInv'
      <3>1. \A g \in Guid, t \in Team : g # c =>
               /\ \A s \in Slot : saves'[g][t][s].origin <= origins
               /\ \A b \in Backup : backups'[g][t][b].origin <= origins
               /\ quickDeploy'[g][t].origin <= origins
        BY <2>1 DEF OriginsInv
      <3>2. \A g \in Guid, t \in Team : savedPositions'[g] # NoEntry =>
               \A s \in Slot : savedPositions'[g].saves[t][s].origin <= origins'
        BY <1>2 DEF OriginsInv, counts
      <3>3. origins' = origins
        BY <1>2 DEF counts
      <3>4. \A g \in Guid, t \in Team :
               /\ \A s \in Slot : saves'[g][t][s].origin <= origins'
               /\ \A b \in Backup : backups'[g][t][b].origin <= origins'
               /\ quickDeploy'[g][t].origin <= origins'
        BY <2>2, <2>3, <2>4, <3>1, <3>3
      <3> QED BY <3>2, <3>4 DEF OriginsInv
    <2>6. OwnOf(c)'
      <3>1. \A t \in Team, s \in Slot : ~(saves'[c][t][s].isValid /\ saves'[c][t][s].isTimerunSave)
        <4>1. \A t \in Team, s \in Slot : /\ saves[c][t][s] \in Position
                                         /\ saves'[c][t][s] = ClearedSave(saves[c][t][s])
          BY <1>1, <2>1
        <4> QED BY <4>1, Cleared
      <3>2. \A t \in Team, b \in Backup : ~backups'[c][t][b].isTimerunSave
        <4>1. \A t \in Team : /\ backups[c][t] \in [Backup -> Position]
                              /\ backups'[c][t] = ClearedBackups(backups[c][t])
          BY <1>1, <2>1
        <4> QED BY <4>1, Cleared
      <3>3. \A t \in Team : ~(quickDeploy'[c][t].isValid /\ quickDeploy'[c][t].isTimerunSave)
        BY <1>1, <2>1, Cleared
      <3> QED BY <3>1, <3>2, <3>3 DEF OwnOf, Own
    <2>7. \A d \in Client : d # c /\ OwnOf(d) => OwnOf(d)'
      BY <1>2, <2>1 DEF OwnOf, Own, Guid, counts
    <2>8. OwnInv'
      BY <1>1, <1>2, <2>6, <2>7 DEF OwnInv, Plain, connection
    <2> QED BY <1>3, <2>5, <2>8
  <1> QED BY <1>4, <1>5

LEMMA LoadUse ==
    ASSUME UseInv, BaseInv', NEW c \in Client,
           (\E s \in Slot : Load(c, s)) \/ (\E b \in Backup : LoadBackupPosition(c, b))
    PROVE  UseInv'
  <1> USE DEF UseInv, BaseInv
  <1>1. GuidOf(c) = c /\ c \in Guid /\ team[c] \in Team
    BY DEF Load, LoadBackupPosition, Playing, GuidOf, Guid
  <1>2. PICK p \in Position :
           /\ p.isValid /\ TeleportTo(c, p, Interrupts(c, p))
           /\ Plain(c) => Own(c, p)
    <2>1. ASSUME NEW s \in Slot, Load(c, s)
          PROVE  LET p == saves[c][team[c]][s]
                 IN  /\ p \in Position /\ p.isValid /\ TeleportTo(c, p, Interrupts(c, p))
                     /\ Plain(c) => Own(c, p)
      <3>1. saves[c][team[c]][s] \in Position
        BY <1>1 DEF SaveTypeOK
      <3>2. Plain(c) => Own(c, saves[c][team[c]][s])
        BY <1>1 DEF OwnInv, OwnOf
      <3> QED BY <1>1, <2>1, <3>1, <3>2 DEF Load
    <2>2. ASSUME NEW b \in Backup, LoadBackupPosition(c, b)
          PROVE  LET p == backups[c][team[c]][b]
                 IN  /\ p \in Position /\ p.isValid /\ TeleportTo(c, p, Interrupts(c, p))
                     /\ Plain(c) => Own(c, p)
      <3>1. backups[c][team[c]][b] \in Position
        BY <1>1 DEF SaveTypeOK
      <3>2. Plain(c) => Own(c, backups[c][team[c]][b])
        BY <1>1 DEF OwnInv, OwnOf
      <3> QED BY <1>1, <2>2, <3>1, <3>2 DEF LoadBackupPosition
    <2> QED BY <2>1, <2>2
  <1>3. (\A d \in Client : GoesOn(d)) /\ RunUsesOwnPositions'
    BY <1>2, TeleportToGoesOn
  <1>4. UNCHANGED <<connection, positions, savedPositions, counts>>
    BY DEF Load, LoadBackupPosition
  <1> QED BY <1>3, <1>4, UseUnchanged DEF connection, counts

\* A step that changes only a quick deploy position, to one the client has or to one that
\* is not valid.
LEMMA QuickDeployUse ==
    ASSUME UseInv, BaseInv', NEW c \in Client, status[c] = "identified", NEW STATE t, t \in Team,
           NEW STATE p, p \in Position, ~p.isValid \/ \E s \in Slot : p = saves[c][t][s],
           p.origin <= origins,
           quickDeploy' = [quickDeploy EXCEPT ![c][t] = p],
           UNCHANGED <<status, saves, backups, savedPositions, origins, savedIn>>,
           \A d \in Client : GoesOn(d), RunUsesOwnPositions'
    PROVE  UseInv'
  <1>1. /\ quickDeploy'[c][t] = p
        /\ \A g \in Guid, u \in Team : g # c \/ u # t => quickDeploy'[g][u] = quickDeploy[g][u]
    BY DEF UseInv, BaseInv, SaveTypeOK, Guid
  <1>2. OriginsInv'
    <2>1. \A g \in Guid, u \in Team : quickDeploy'[g][u].origin <= origins
      BY <1>1 DEF UseInv, OriginsInv
    <2> QED BY <2>1 DEF UseInv, OriginsInv
  <1>3. ASSUME NEW d \in Client, timerunActive'[d], OwnOf(d)
        PROVE  OwnOf(d)'
    <2>1. run'[d] = run[d] /\ d \in Guid
      BY <1>3 DEF GoesOn, Guid
    <2>2. \A u \in Team : \A q \in {quickDeploy'[d][u]} : q.isValid /\ q.isTimerunSave => savedIn[q.origin] = run[d]
      BY <1>1, <1>3, <2>1 DEF OwnOf, Own
    <2> QED BY <1>3, <2>1, <2>2 DEF OwnOf, Own
  <1> QED BY <1>2, <1>3, UseKept

LEMMA StepUse ==
    ASSUME UseInv, BaseInv', NEW c \in Client,
           RunStep(c) \/ PositionStep(c) \/ TeamStep(c) \/ ConnectionStep(c)
    PROVE  UseInv'
  <1> USE DEF UseInv, BaseInv
  <1>0. NoPosition.origin <= origins
    BY SaveAssumption DEF NoPosition, SaveTypeOK
  <1>1. ASSUME UNCHANGED timerun
        PROVE  (\A d \in Client : GoesOn(d)) /\ RunUsesOwnPositions'
    BY <1>1 DEF timerun, GoesOn, RunUsesOwnPositions
  <1>2. ASSUME NEW condition \in BOOLEAN, EndRunIf(c, condition)
        PROVE  (\A d \in Client : GoesOn(d)) /\ RunUsesOwnPositions'
    BY <1>2, EndRunIfGoesOn DEF GoesOn, RunUsesOwnPositions
  <1>3. CASE StopRun(c)
    <2>1. (\A d \in Client : GoesOn(d)) /\ RunUsesOwnPositions'
      BY <1>3 DEF StopRun, EndRun, GoesOn, RunUsesOwnPositions, SaveTypeOK
    <2> QED BY <1>3, <2>1, UseUnchanged DEF StopRun, connection, counts
  <1>4. CASE Die(c)
    BY <1>2, <1>4, UseUnchanged DEF Die, counts
  <1>5. CASE ResetSavedPositions(c)
    <2>1. GuidOf(c) = c /\ c \in Guid
      BY <1>5 DEF ResetSavedPositions, Playing, GuidOf, Guid
    <2>2. /\ \A t \in Team : /\ \A s \in Slot : saves'[c][t][s] = NoPosition
                             /\ \A b \in Backup : backups'[c][t][b] = NoPosition
                             /\ quickDeploy'[c][t] = NoPosition
          /\ \A g \in Guid : g # c => /\ saves'[g] = saves[g] /\ backups'[g] = backups[g]
                                      /\ quickDeploy'[g] = quickDeploy[g]
      BY <1>5, <2>1 DEF ResetSavedPositions, SaveTypeOK
    <2>3. UNCHANGED <<connection, timerun, savedPositions, counts>>
      BY <1>5 DEF ResetSavedPositions
    <2>4. OriginsInv'
      BY <1>0, <2>2, <2>3 DEF OriginsInv, counts
    <2>5. OwnOf(c)'
      BY <2>2 DEF OwnOf, Own, NoPosition
    <2>6. \A d \in Client : d # c /\ OwnOf(d) => OwnOf(d)'
      BY <2>2, <2>3 DEF OwnOf, Own, Guid, timerun, counts
    <2> QED BY <1>1, <2>3, <2>4, <2>5, <2>6, UseKept DEF connection, counts
  <1>6. ASSUME NEW t \in Team \cup {"spectator"}, SetTeam(c, t)
        PROVE  UseInv'
    <2> DEFINE first == saves[c][team[c]][0]
    <2>1. GuidOf(c) = c /\ c \in Guid /\ 0 \in Slot
      BY <1>6, SaveAssumption DEF SetTeam, GuidOf, Guid, Slot
    <2>2. (\A d \in Client : GoesOn(d)) /\ RunUsesOwnPositions'
      BY <1>6, EndRunIfGoesOn DEF SetTeam, GoesOn, RunUsesOwnPositions
    <2>3. UNCHANGED <<status, saveLimit, saves, backups, savedPositions, counts>>
      BY <1>6 DEF SetTeam
    <2>4. CASE UNCHANGED quickDeploy
      BY <2>2, <2>3, <2>4, UseUnchanged DEF positions, counts
    <2>5. CASE team[c] \in Team /\ quickDeploy' = [quickDeploy EXCEPT ![c][team[c]] = first]
      <3>1. first \in Position /\ first.origin <= origins
        BY <2>1, <2>5 DEF SaveTypeOK, OriginsInv
      <3>2. status[c] = "identified" /\ UNCHANGED <<origins, savedIn>>
        BY <1>6, <2>3 DEF SetTeam, counts
      <3> QED BY <2>1, <2>2, <2>3, <2>5, <3>1, <3>2, QuickDeployUse
    <2> QED BY <1>6, <2>1, <2>4, <2>5 DEF SetTeam
  <1>7. CASE SpawnAtSpawnPoint(c)
    BY <1>1, <1>7, UseUnchanged DEF SpawnAtSpawnPoint, Spawn, positions, counts
  <1>8. ASSUME Spawn(c)
        PROVE  LET p == quickDeploy[c][team[c]]
               IN  /\ GuidOf(c) = c /\ status[c] = "identified" /\ team[c] \in Team
                   /\ p \in Position
                   /\ Plain(c) => Own(c, p)
                   /\ Invalidated(p) \in Position /\ ~Invalidated(p).isValid
                   /\ Invalidated(p).origin <= origins
                   /\ UNCHANGED <<status, saves, backups, savedPositions, origins, savedIn>>
    <2> DEFINE p == quickDeploy[c][team[c]]
    <2>1. /\ GuidOf(c) = c /\ c \in Guid /\ status[c] = "identified" /\ team[c] \in Team
      BY <1>8 DEF Spawn, Playing, GuidOf, Guid
    <2>2. p \in Position /\ p.origin <= origins
      BY <2>1 DEF SaveTypeOK, OriginsInv
    <2>3. Plain(c) => Own(c, p)
      BY <2>1 DEF OwnInv, OwnOf
    <2>4. Invalidated(p) \in Position /\ ~Invalidated(p).isValid /\ Invalidated(p).origin = p.origin
      <3> HIDE DEF p
      <3> QED BY <2>2 DEF Invalidated, Position
    <2> QED BY <1>8, <2>1, <2>2, <2>3, <2>4 DEF Spawn, counts
  <1>9. CASE SpawnQuickDeployed(c)
    <2> DEFINE p == quickDeploy[c][team[c]]
    <2>1. p.isValid /\ TeleportTo(c, p, Interrupts(c, p)) /\ UseQuickDeploy(c)
      BY <1>8, <1>9 DEF SpawnQuickDeployed
    <2>2. (\A d \in Client : GoesOn(d)) /\ RunUsesOwnPositions'
      BY <1>8, <1>9, <2>1, TeleportToGoesOn DEF SpawnQuickDeployed
    <2>3. quickDeploy' = [quickDeploy EXCEPT ![c][team[c]] = Invalidated(p)]
      BY <1>8, <1>9, <2>1 DEF UseQuickDeploy, SpawnQuickDeployed
    <2> QED BY <1>8, <1>9, <2>2, <2>3, QuickDeployUse DEF SpawnQuickDeployed
  <1>10. CASE SpawnAfterInactivity(c)
    <2> DEFINE p == quickDeploy[c][team[c]]
    <2>1. quickDeploy' = [quickDeploy EXCEPT ![c][team[c]] = Invalidated(p)]
      BY <1>8, <1>10 DEF UseQuickDeploy, SpawnAfterInactivity
    <2>2. (\A d \in Client : GoesOn(d)) /\ RunUsesOwnPositions'
      BY <1>1, <1>10 DEF SpawnAfterInactivity
    <2> QED BY <1>8, <1>10, <2>1, <2>2, QuickDeployUse DEF SpawnAfterInactivity
  <1>11. ASSUME NewSession(c)
         PROVE  /\ (\A d \in Client : GoesOn(d)) /\ RunUsesOwnPositions'
                /\ ~timerunActive'[c]
    <2>1. /\ ~timerunActive'[c] /\ UNCHANGED run
          /\ \A d \in Client : d # c => /\ timerunActive'[d] = timerunActive[d]
                                        /\ runSpawnflags'[d] = runSpawnflags[d]
                                        /\ loaded'[d] = loaded[d]
                                        /\ repeatedInRun'[d] = repeatedInRun[d]
      BY <1>11 DEF NewSession, SaveTypeOK
    <2> QED BY <2>1 DEF GoesOn, RunUsesOwnPositions
  <1>12. CASE Connect(c)
    <2>1. \A d \in Client : timerunActive'[d] => status'[d] = status[d]
      BY <1>11, <1>12 DEF Connect, SaveTypeOK
    <2> QED BY <1>11, <1>12, <2>1, UseUnchanged DEF Connect, counts
  <1>13. CASE Authenticate(c)
    <2>1. /\ UNCHANGED <<timerunActive, runSpawnflags, run, loaded, backups, quickDeploy,
                         savedPositions, origins, savedIn>>
          /\ \A d \in Client : status[d] = "identified" => status'[d] = status[d]
      BY <1>13 DEF Authenticate, SaveTypeOK
    <2>2. /\ (\A d \in Client : GoesOn(d)) /\ RunUsesOwnPositions'
          /\ \A d \in Client : timerunActive'[d] => status'[d] = status[d]
      <3>1. \/ UNCHANGED repeatedInRun
            \/ repeatedInRun' = [repeatedInRun EXCEPT ![c] = timerunActive[c]]
        BY <1>13 DEF Authenticate, LoadPositionsFromDatabase, CountRepeat
      <3>2. ASSUME NEW d \in Client, timerunActive[d], repeatedInRun[d]
            PROVE  repeatedInRun'[d]
        <4>1. CASE UNCHANGED repeatedInRun
          BY <3>2, <4>1
        <4>2. CASE repeatedInRun' = [repeatedInRun EXCEPT ![c] = timerunActive[c]]
          <5>1. DOMAIN repeatedInRun = Client
            BY DEF SaveTypeOK
          <5>2. CASE d = c
            BY <3>2, <4>2, <5>1, <5>2
          <5>3. CASE d # c
            BY <3>2, <4>2, <5>1, <5>3
          <5> QED
            BY <5>2, <5>3
        <4> QED
          BY <3>1, <4>1, <4>2
      <3>3. \A d \in Client : GoesOn(d)
        BY <2>1, <3>2 DEF GoesOn
      <3>4. ASSUME NEW d \in Client, timerunActive'[d], ~repeatedInRun'[d]
            PROVE  loaded'[d] \subseteq (IF "NoSave" \in runSpawnflags'[d] THEN {} ELSE {run'[d]})
        <4>1. timerunActive[d] /\ ~repeatedInRun[d]
          BY <2>1, <3>2, <3>4
        <4>2. loaded[d] \subseteq (IF "NoSave" \in runSpawnflags[d] THEN {} ELSE {run[d]})
          BY <4>1 DEF RunUsesOwnPositions
        <4> QED BY <2>1, <4>2
      <3>5. RunUsesOwnPositions'
        BY <3>4 DEF RunUsesOwnPositions
      <3>6. \A d \in Client : timerunActive'[d] => status'[d] = status[d]
        BY <2>1 DEF OwnInv
      <3> QED BY <3>3, <3>5, <3>6
    <2>3. CASE UNCHANGED saves
      BY <2>1, <2>2, <2>3, UseUnchanged DEF positions
    <2>4. CASE savedPositions[c] # NoEntry
      <3> DEFINE stored == savedPositions[c]
                 restored == [t \in Team |-> [s \in Slot |->
                                 Restored(saves[c][t][s], stored.saves[t][s])]]
      <3>1. /\ saves' = [saves EXCEPT ![c] = restored] /\ c \in Guid
            /\ saves \in [Guid -> [Team -> [Slot -> Position]]]
        BY <1>13, <2>4 DEF Authenticate, LoadPositionsFromDatabase, Guid, SaveTypeOK
      <3>2. saves'[c] = restored /\ \A g \in Guid : g # c => saves'[g] = saves[g]
        <4> HIDE DEF restored
        <4> QED BY <3>1
      <3>3. \A t \in Team, s \in Slot : restored[t][s].origin <= origins
        BY <2>4, <3>1 DEF Restored, OriginsInv
      <3>4. \A g \in Guid, t \in Team, s \in Slot : saves'[g][t][s].origin <= origins
        <4> HIDE DEF restored
        <4> QED BY <3>2, <3>3 DEF OriginsInv
      <3>5. OriginsInv'
        BY <2>1, <3>4 DEF OriginsInv
      <3>6. timerunActive'[c] => repeatedInRun'[c]
        <4>1. timerunActive[c] => status[c] = "identified"
          BY DEF OwnInv
        <4>2. timerunActive[c] => repeatedInRun' = [repeatedInRun EXCEPT ![c] = timerunActive[c]]
          BY <1>13, <2>4, <4>1 DEF Authenticate, LoadPositionsFromDatabase, CountRepeat
        <4> QED BY <2>1, <4>2 DEF SaveTypeOK
      <3>7. \A d \in Client : d # c /\ OwnOf(d) => OwnOf(d)'
        <4> HIDE DEF restored
        <4> QED BY <2>1, <3>2 DEF OwnOf, Own, Guid
      <3>8. UNCHANGED <<origins, savedIn>>
        BY <2>1
      <3> QED BY <2>2, <3>5, <3>6, <3>7, <3>8, UseKept
    <2> QED BY <1>13, <2>3, <2>4 DEF Authenticate, LoadPositionsFromDatabase
  <1>14. ASSUME NEW again \in BOOLEAN, Disconnect(c, again)
         PROVE  UseInv'
    <2> DEFINE g == IF again THEN NoGuid ELSE GuidOf(c)
               kept == [t \in Team |-> [s \in Slot |-> Snapshot(saves[g][t][s])]]
               entry == [saves |-> kept, saveLimit |-> saveLimit[c]]
    <2>1. g \in Guid
      BY GuidOfType DEF Guid
    <2>2. \A t \in Team, s \in Slot : entry.saves[t][s].origin <= origins
      BY <2>1 DEF OriginsInv, Snapshot
    <2>3. savedPositions' = [savedPositions EXCEPT ![g] = entry]
      BY <1>14 DEF Disconnect, SavePositionsToDatabase
    <2>4. \A h \in Guid : savedPositions'[h] = entry \/ savedPositions'[h] = savedPositions[h]
      <3> HIDE DEF entry, g
      <3> QED BY <2>1, <2>3 DEF SaveTypeOK
    <2>5. \A h \in Guid, t \in Team : savedPositions'[h] # NoEntry =>
             \A s \in Slot : savedPositions'[h].saves[t][s].origin <= origins
      <3> HIDE DEF entry, g
      <3> QED BY <2>2, <2>4 DEF OriginsInv
    <2>6. UNCHANGED <<positions, origins, savedIn>>
      BY <1>14 DEF Disconnect, Leaves
    <2>7. OriginsInv'
      BY <2>5, <2>6 DEF OriginsInv, positions
    <2>8. \A d \in Client : timerunActive'[d] => status'[d] = status[d]
      BY <1>11, <1>14 DEF Disconnect, SaveTypeOK
    <2>9. \A d \in Client : timerunActive'[d] /\ OwnOf(d) => OwnOf(d)'
      BY <1>11, <1>14, <2>6 DEF Disconnect, OwnOf, Own, GoesOn, positions
    <2> QED BY <1>11, <1>14, <2>6, <2>7, <2>8, <2>9, UseKept DEF Disconnect
  <1>15. CASE RunStep(c)
    BY <1>3, <1>4, <1>15, StartRunUse DEF RunStep
  <1>16. CASE PositionStep(c)
    <2>1. ASSUME NEW s \in Slot, Save(c, s)
          PROVE  UseInv'
      BY <2>1, StoreSaveUse DEF Save
    <2>2. CASE ForceSave(c)
      BY <2>2, StoreSaveUse, SaveAssumption DEF ForceSave, Slot
    <2> QED BY <1>5, <1>16, <2>1, <2>2, LoadUse DEF PositionStep
  <1>17. CASE TeamStep(c)
    BY <1>6, <1>7, <1>9, <1>10, <1>17 DEF TeamStep
  <1>18. CASE ConnectionStep(c)
    BY <1>12, <1>13, <1>14, <1>18 DEF ConnectionStep
  <1> QED BY <1>15, <1>16, <1>17, <1>18

\* The positions a run uses are its own in every reachable state.
LEMMA UseCorrect == SaveSpec => []UseInv
  <1>1. UseInv /\ [SaveNext]_saveVars => UseInv'
    <2> SUFFICES ASSUME UseInv, [SaveNext]_saveVars PROVE UseInv'
      OBVIOUS
    <2>1. BaseInv'
      BY BaseStep DEF UseInv
    <2>2. CASE SaveNext
      BY <2>1, <2>2, StepUse DEF SaveNext
    <2>3. CASE UNCHANGED saveVars
      <3>1. UNCHANGED <<status, timerun, positions, savedPositions, origins, savedIn>>
        BY <2>3 DEF saveVars, connection, counts
      <3>2. (\A d \in Client : GoesOn(d)) /\ RunUsesOwnPositions'
        BY <3>1 DEF timerun, GoesOn, RunUsesOwnPositions, UseInv
      <3> QED BY <2>1, <3>1, <3>2, UseUnchanged
    <2> QED BY <2>2, <2>3
  <1> QED BY <1>1, InitUse, PTL DEF SaveSpec

\* For any runs and any number of clients, positions and backups, a run in which the client
\* has not repeated its login has only been teleported to positions that were saved in it.
THEOREM RunPositionsCorrect == SaveSpec => []RunUsesOwnPositions
  <1>1. UseInv => RunUsesOwnPositions
    BY DEF UseInv
  <1> QED BY <1>1, UseCorrect, PTL

-----------------------------------------------------------------------------
(* The limit.                                                              *)

\* What a client may save that repeats its login n times.
Allowance(n) == LimitedSaves * (1 + n)

LEMMA AllowanceGrows ==
    ASSUME NEW n \in Nat
    PROVE  /\ Allowance(n) \in Nat /\ Allowance(0) = LimitedSaves
           /\ Allowance(n + 1) = Allowance(n) + LimitedSaves
  BY SaveAssumption DEF Allowance

\* The saves of a client and what remains of its limit stay within what it may save, also
\* while it is away, when its slots and the rest of the limit are in the database.
LimitInv == \A c \in Client :
    /\ status[c] = "identified" => used[c] + saveLimit[c] <= Allowance(repeats[c])
    /\ status[c] # "identified" =>
          /\ used[c] + left[c] <= Allowance(repeats[c])
          /\ savedPositions[c] = NoEntry => saveLimit[c] = LimitedSaves /\ left[c] = LimitedSaves
          /\ savedPositions[c] # NoEntry =>
                /\ savedPositions[c].saveLimit = left[c]
                /\ \A t \in Team, s \in Slot :
                      savedPositions[c].saves[t][s] = Snapshot(saves[c][t][s])

LEMMA InitLimit == SaveInit => LimitInv
  <1> SUFFICES ASSUME SaveInit PROVE LimitInv
    OBVIOUS
  <1>1. Allowance(0) = LimitedSaves
    BY AllowanceGrows
  <1> QED BY <1>1, SaveAssumption DEF SaveInit, LimitInv, Guid

\* A client that is identified changes its positions and uses its limit.
LEMMA LimitKept ==
    ASSUME BaseInv, LimitInv, NEW c \in Client, status[c] = "identified",
           UNCHANGED <<status, savedPositions, left, repeats>>,
           used'[c] + saveLimit'[c] = used[c] + saveLimit[c],
           \A d \in Client : d # c => used'[d] = used[d] /\ saveLimit'[d] = saveLimit[d],
           \A g \in Guid : g # c => saves'[g] = saves[g]
    PROVE  LimitInv'
  <1>1. ASSUME NEW d \in Client, d # c
        PROVE  /\ status'[d] = status[d] /\ used'[d] = used[d] /\ left'[d] = left[d]
               /\ saveLimit'[d] = saveLimit[d] /\ savedPositions'[d] = savedPositions[d]
               /\ saves'[d] = saves[d]
    BY <1>1 DEF Guid
  <1>2. status'[c] = "identified" /\ used'[c] + saveLimit'[c] <= Allowance(repeats'[c])
    BY DEF LimitInv
  <1> QED BY <1>1, <1>2 DEF LimitInv

LEMMA StepLimit ==
    ASSUME ~QuickReconnects, BaseInv, LimitInv, NEW c \in Client,
           RunStep(c) \/ PositionStep(c) \/ TeamStep(c) \/ ConnectionStep(c)
    PROVE  /\ LimitInv'
           /\ \A d \in Client : status[d] = "connecting" /\ status'[d] = "identified" =>
                 saves'[d] = saves[d] /\ saveLimit'[d] = left[d]
  <1> USE DEF BaseInv
  <1>1. Playing(c) => GuidOf(c) = c /\ c \in Guid /\ status[c] = "identified"
    BY DEF Playing, GuidOf, Guid
  <1>2. ASSUME UNCHANGED <<status, saveLimit, saves, savedPositions, left, used, repeats>>
        PROVE  LimitInv' /\ UNCHANGED status
    BY <1>2 DEF LimitInv
  <1>3. ASSUME NEW flags \in RunFlags, StartRun(c, flags)
        PROVE  LimitInv' /\ UNCHANGED status
    <2>1. \A g \in Guid : g # c => saves'[g] = saves[g]
      BY <1>1, <1>3 DEF StartRun, ClearTimerunSaves, positions, SaveTypeOK
    <2>2. UNCHANGED <<status, saveLimit, savedPositions, left, used, repeats>>
      BY <1>3 DEF StartRun, connection, counts
    <2> QED BY <1>1, <1>3, <2>1, <2>2, LimitKept DEF StartRun
  <1>4. ASSUME NEW s \in Slot, StoreSave(c, team[c], s), Playing(c)
        PROVE  /\ \A g \in Guid : g # c => saves'[g] = saves[g]
               /\ UNCHANGED <<status, savedPositions, left, repeats>>
    BY <1>1, <1>4 DEF StoreSave, SaveTypeOK
  <1>5. ASSUME NEW s \in Slot, Save(c, s)
        PROVE  LimitInv' /\ UNCHANGED status
    <2>1. CASE LimitedSaves > 0
      <3> DEFINE less == saveLimit[c] - 1
                 more == used[c] + 1
      <3>1. saveLimit' = [saveLimit EXCEPT ![c] = less] /\ used' = [used EXCEPT ![c] = more]
        BY <1>5, <2>1 DEF Save
      <3>2. more + less = used[c] + saveLimit[c]
        BY SaveAssumption DEF SaveTypeOK
      <3>3. used'[c] + saveLimit'[c] = used[c] + saveLimit[c]
        <4> HIDE DEF less, more
        <4> QED BY <3>1, <3>2 DEF SaveTypeOK
      <3>4. \A d \in Client : d # c => used'[d] = used[d] /\ saveLimit'[d] = saveLimit[d]
        <4> HIDE DEF less, more
        <4> QED BY <3>1 DEF SaveTypeOK
      <3> QED BY <1>1, <1>4, <1>5, <3>3, <3>4, LimitKept DEF Save
    <2>2. CASE ~(LimitedSaves > 0)
      BY <1>1, <1>4, <1>5, <2>2, LimitKept DEF Save
    <2> QED BY <2>1, <2>2
  <1>6. CASE ForceSave(c)
    <2>1. 0 \in Slot /\ StoreSave(c, team[c], 0) /\ Playing(c) /\ UNCHANGED <<saveLimit, used>>
      BY <1>6, SaveAssumption DEF ForceSave, Slot
    <2> QED BY <1>1, <1>4, <2>1, LimitKept
  <1>7. CASE ResetSavedPositions(c)
    <2>1. \A g \in Guid : g # c => saves'[g] = saves[g]
      BY <1>1, <1>7 DEF ResetSavedPositions, SaveTypeOK
    <2>2. Playing(c) /\ UNCHANGED <<status, saveLimit, savedPositions, left, used, repeats>>
      BY <1>7 DEF ResetSavedPositions, connection, counts
    <2> QED BY <1>1, <2>1, <2>2, LimitKept
  <1>8. CASE Connect(c)
    <2>1. /\ \A d \in Client : d # c => status'[d] = status[d] /\ saveLimit'[d] = saveLimit[d]
          /\ status[c] = "gone" /\ status'[c] = "connecting" /\ saveLimit'[c] = LimitedSaves
          /\ UNCHANGED <<saves, savedPositions, left, used, repeats>>
      BY <1>8 DEF Connect, NewSession, positions, counts, SaveTypeOK
    <2> QED BY <2>1 DEF LimitInv
  <1>9. CASE Authenticate(c) /\ status[c] = "connecting"
    <2>1. /\ status[c] = "connecting" /\ c \in Guid
          /\ UNCHANGED <<savedPositions, left, used, repeats>>
          /\ status' = [status EXCEPT ![c] = "identified"]
      BY <1>9 DEF Authenticate, LoadPositionsFromDatabase, CountRepeat, Guid
    <2>2. /\ status'[c] = "identified" /\ \A d \in Client : d # c => status'[d] = status[d]
      BY <2>1 DEF SaveTypeOK
    <2>3. saves' = saves /\ saveLimit'[c] = left[c]
          /\ \A d \in Client : d # c => saveLimit'[d] = saveLimit[d]
      <3>1. CASE savedPositions[c] = NoEntry
        BY <1>9, <2>1, <3>1 DEF Authenticate, LoadPositionsFromDatabase, LimitInv
      <3>2. CASE savedPositions[c] # NoEntry
        <4> DEFINE stored == savedPositions[c]
                   restored == [t \in Team |-> [s \in Slot |->
                                   Restored(saves[c][t][s], stored.saves[t][s])]]
        <4>1. \A p \in Position : Restored(p, Snapshot(p)) = p
          BY DEF Restored, Snapshot, Position
        <4>2. \A t \in Team, s \in Slot : /\ saves[c][t][s] \in Position
                                         /\ stored.saves[t][s] = Snapshot(saves[c][t][s])
          <5>1. \A t \in Team, s \in Slot : saves[c][t][s] \in Position
            BY <2>1 DEF SaveTypeOK
          <5>2. \A t \in Team, s \in Slot : stored.saves[t][s] = Snapshot(saves[c][t][s])
            BY <2>1, <3>2 DEF LimitInv
          <5> HIDE DEF stored
          <5> QED BY <5>1, <5>2
        <4>3. \A t \in Team, s \in Slot :
                 Restored(saves[c][t][s], stored.saves[t][s]) = saves[c][t][s]
          BY <4>1, <4>2
        <4>4. \A t \in Team : restored[t] = saves[c][t]
          BY <2>1, <4>3 DEF SaveTypeOK
        <4>5. restored = saves[c]
          <5>1. saves[c] \in [Team -> [Slot -> Position]] /\ restored = [t \in Team |-> restored[t]]
            BY <2>1 DEF SaveTypeOK
          <5> HIDE DEF restored
          <5> QED BY <4>4, <5>1
        <4>6. saves' = [saves EXCEPT ![c] = restored]
              /\ saveLimit' = [saveLimit EXCEPT ![c] = stored.saveLimit]
          BY <1>9, <3>2 DEF Authenticate, LoadPositionsFromDatabase
        <4>7. saves' = saves
          <5> HIDE DEF restored
          <5> QED BY <2>1, <4>5, <4>6 DEF SaveTypeOK
        <4>8. stored.saveLimit = left[c]
          BY <2>1, <3>2 DEF LimitInv
        <4> QED BY <4>6, <4>7, <4>8 DEF SaveTypeOK
      <3> QED BY <3>1, <3>2
    <2>4. LimitInv'
      BY <2>1, <2>2, <2>3 DEF LimitInv
    <2>5. \A d \in Client : status[d] = "connecting" /\ status'[d] = "identified" => d = c
      BY <2>2
    <2> QED BY <2>3, <2>4, <2>5
  <1>10. CASE Authenticate(c) /\ status[c] = "identified"
    <2>1. UNCHANGED <<status, savedPositions, left, used>>
      BY <1>10 DEF Authenticate, SaveTypeOK
    <2>2. CASE savedPositions[c] = NoEntry
      <3>1. UNCHANGED <<saves, saveLimit, repeats>>
        BY <1>10, <2>2 DEF Authenticate, LoadPositionsFromDatabase
      <3> QED BY <1>2, <2>1, <3>1
    <2>3. CASE savedPositions[c] # NoEntry
      <3> DEFINE stored == savedPositions[c]
                 restored == [t \in Team |-> [s \in Slot |->
                                 Restored(saves[c][t][s], stored.saves[t][s])]]
      <3>1. /\ saves' = [saves EXCEPT ![c] = restored]
            /\ saveLimit' = [saveLimit EXCEPT ![c] = stored.saveLimit]
            /\ repeats' = [repeats EXCEPT ![c] = repeats[c] + 1]
        BY <1>10, <2>3 DEF Authenticate, LoadPositionsFromDatabase, CountRepeat
      <3>2. /\ stored.saveLimit \in 0..LimitedSaves /\ saveLimit[c] \in 0..LimitedSaves
            /\ used[c] \in Nat /\ repeats[c] \in Nat
        BY <2>3 DEF SaveTypeOK, Stored, Guid
      <3>3. /\ saveLimit'[c] = stored.saveLimit /\ repeats'[c] = repeats[c] + 1
            /\ \A d \in Client : d # c => /\ saveLimit'[d] = saveLimit[d] /\ saves'[d] = saves[d]
                                          /\ repeats'[d] = repeats[d]
        <4> HIDE DEF stored, restored
        <4> QED BY <3>1 DEF SaveTypeOK, Guid
      <3>4. used[c] + stored.saveLimit <= Allowance(repeats[c] + 1)
        <4>1. /\ Allowance(repeats[c]) \in Nat
              /\ Allowance(repeats[c] + 1) = Allowance(repeats[c]) + LimitedSaves
          BY <3>2, AllowanceGrows
        <4>2. used[c] + saveLimit[c] <= Allowance(repeats[c])
          BY <1>10 DEF LimitInv
        <4> HIDE DEF stored
        <4> QED BY <3>2, <4>1, <4>2, SaveAssumption
      <3>5. used'[c] + saveLimit'[c] <= Allowance(repeats'[c])
        <4> HIDE DEF stored
        <4> QED BY <2>1, <3>3, <3>4
      <3> HIDE DEF stored, restored
      <3> QED BY <1>10, <2>1, <3>3, <3>5 DEF LimitInv
    <2> QED BY <2>1, <2>2, <2>3
  <1>11. ASSUME NEW again \in BOOLEAN, Disconnect(c, again)
         PROVE  LimitInv' /\ status'[c] = "gone" /\ \A d \in Client : d # c => status'[d] = status[d]
    <2> DEFINE g == GuidOf(c)
               kept == [t \in Team |-> [s \in Slot |-> Snapshot(saves[g][t][s])]]
               entry == [saves |-> kept, saveLimit |-> saveLimit[c]]
    <2>1. again = FALSE /\ g \in Guid /\ c \in Guid
      BY <1>11, GuidOfType DEF Disconnect, Guid
    <2>2. /\ status'[c] = "gone" /\ \A d \in Client : d # c => status'[d] = status[d]
          /\ saveLimit'[c] = LimitedSaves /\ \A d \in Client : d # c => saveLimit'[d] = saveLimit[d]
          /\ UNCHANGED <<saves, used, repeats>>
      BY <1>11, <2>1 DEF Disconnect, NewSession, Leaves, positions, SaveTypeOK
    <2>3. savedPositions' = [savedPositions EXCEPT ![g] = entry]
      BY <1>11, <2>1 DEF Disconnect, SavePositionsToDatabase
    <2>4. savedPositions'[g] = entry /\ \A h \in Guid : h # g => savedPositions'[h] = savedPositions[h]
      <3> HIDE DEF entry, g
      <3> QED BY <2>1, <2>3 DEF SaveTypeOK
    <2>5. \A d \in Client : d # c => left'[d] = left[d]
      BY <1>11 DEF Disconnect, Leaves, SaveTypeOK
    <2>6. \A d \in Client : d # c => d # g /\ d \in Guid
      BY SaveAssumption DEF GuidOf, Guid
    <2>7. CASE status[c] = "identified"
      <3>1. g = c /\ left'[c] = saveLimit[c]
        BY <1>11, <2>7 DEF GuidOf, Disconnect, Leaves, SaveTypeOK
      <3>2. entry.saveLimit = left'[c]
            /\ \A t \in Team, s \in Slot : entry.saves[t][s] = Snapshot(saves[c][t][s])
        BY <3>1
      <3>3. entry # NoEntry
        <4>1. kept \in [Team -> [Slot -> StoredPosition]]
          BY <2>1, PositionTypes DEF SaveTypeOK
        <4>2. entry \in Stored
          BY <4>1 DEF Stored, SaveTypeOK
        <4> QED BY <4>2, NoEntryAssumption
      <3>4. used'[c] + left'[c] <= Allowance(repeats'[c])
        BY <2>2, <2>7, <3>1 DEF LimitInv
      <3>5. savedPositions'[c] = entry
        BY <2>4, <3>1
      <3>6. ASSUME NEW d \in Client, d # c
            PROVE  /\ status'[d] = status[d] /\ used'[d] = used[d] /\ left'[d] = left[d]
                   /\ saveLimit'[d] = saveLimit[d] /\ savedPositions'[d] = savedPositions[d]
                   /\ saves'[d] = saves[d] /\ repeats'[d] = repeats[d]
        BY <2>2, <2>4, <2>5, <2>6, <3>6
      <3>7. /\ status'[c] = "gone" /\ savedPositions'[c] # NoEntry
            /\ savedPositions'[c].saveLimit = left'[c]
            /\ \A t \in Team, s \in Slot : savedPositions'[c].saves[t][s] = Snapshot(saves'[c][t][s])
        <4> HIDE DEF entry
        <4> QED BY <2>2, <3>2, <3>3, <3>5
      <3> HIDE DEF g
      <3> QED BY <3>4, <3>6, <3>7 DEF LimitInv
    <2>8. CASE status[c] # "identified"
      <3>1. g # c /\ left'[c] = left[c]
        BY <1>11, <2>8, SaveAssumption DEF GuidOf, Disconnect, Leaves
      <3>2. savedPositions'[c] = savedPositions[c]
        BY <2>1, <2>4, <3>1
      <3> QED BY <2>2, <2>4, <2>5, <2>6, <2>8, <3>1, <3>2 DEF LimitInv
    <2> QED BY <2>2, <2>7, <2>8
  <1>12. RunStep(c) => LimitInv' /\ UNCHANGED status
    BY <1>2, <1>3 DEF RunStep, StopRun, Die, connection, positions, counts
  <1>13. PositionStep(c) => LimitInv' /\ UNCHANGED status
    <2>1. ForceSave(c) \/ ResetSavedPositions(c) => UNCHANGED status
      BY DEF ForceSave, StoreSave, ResetSavedPositions, connection
    <2> QED BY <1>2, <1>5, <1>6, <1>7, <2>1
            DEF PositionStep, Load, LoadBackupPosition, connection, positions, counts
  <1>14. TeamStep(c) => LimitInv' /\ UNCHANGED status
    BY <1>2 DEF TeamStep, SetTeam, SpawnAtSpawnPoint, SpawnQuickDeployed, SpawnAfterInactivity,
                Spawn, counts
  <1>15. Connect(c) => \A d \in Client : status'[d] = "identified" => status[d] = "identified"
    BY DEF Connect, SaveTypeOK
  <1>16. CASE ConnectionStep(c)
    <2>1. Authenticate(c) => status[c] = "connecting" \/ status[c] = "identified"
      BY DEF Authenticate, SaveTypeOK
    <2>2. CASE Authenticate(c) /\ status[c] = "identified"
      <3>1. UNCHANGED status
        BY <2>2 DEF Authenticate, SaveTypeOK
      <3> QED BY <1>10, <2>2, <3>1
    <2> QED BY <1>8, <1>9, <1>11, <1>15, <1>16, <2>1, <2>2 DEF ConnectionStep
  <1> QED BY <1>12, <1>13, <1>14, <1>16

\* When every client that returns was first noticed to be gone, reconnects give nobody a
\* save more, and a client that repeats its login n times saves at most n + 1 times what
\* the limit says, for any limit and any number of saves.
THEOREM LimitCorrect ==
    ASSUME ~QuickReconnects
    PROVE  SaveSpec => []LimitHolds
  <1>1. BaseInv /\ LimitInv /\ [SaveNext]_saveVars => LimitInv'
    <2>1. CASE UNCHANGED saveVars
      BY <2>1 DEF saveVars, connection, positions, counts, LimitInv
    <2> QED BY <2>1, StepLimit DEF SaveNext
  <1>2. BaseInv /\ LimitInv => LimitHolds
    <2> SUFFICES ASSUME BaseInv, LimitInv, NEW c \in Client
                 PROVE  used[c] <= Allowance(repeats[c])
      BY DEF LimitHolds, Allowance
    <2>1. used[c] \in Nat /\ saveLimit[c] \in Nat /\ left[c] \in Nat /\ repeats[c] \in Nat
      BY SaveAssumption DEF BaseInv, SaveTypeOK
    <2>2. \/ used[c] + saveLimit[c] <= Allowance(repeats[c])
          \/ used[c] + left[c] <= Allowance(repeats[c])
      BY DEF LimitInv
    <2>3. Allowance(repeats[c]) \in Nat
      BY <2>1, AllowanceGrows
    <2> QED BY <2>1, <2>2, <2>3
  <1> QED BY <1>1, <1>2, InitLimit, BaseCorrect, PTL DEF SaveSpec

\* And every client that returns finds the slots and the limit it left.
THEOREM ReconnectCorrect ==
    ASSUME ~QuickReconnects
    PROVE  SaveSpec => SavesSurviveReconnect
  <1>1. BaseInv /\ LimitInv /\ [SaveNext]_saveVars => LimitInv'
    <2>1. CASE UNCHANGED saveVars
      BY <2>1 DEF saveVars, connection, positions, counts, LimitInv
    <2> QED BY <2>1, StepLimit DEF SaveNext
  <1>2. BaseInv /\ LimitInv /\ [SaveNext]_saveVars =>
           [\A c \in Client :
               status[c] = "connecting" /\ status'[c] = "identified" =>
                  saves'[c] = saves[c] /\ saveLimit'[c] = left[c]]_saveVars
    BY StepLimit DEF SaveNext
  <1> QED BY <1>1, <1>2, InitLimit, BaseCorrect, PTL DEF SaveSpec, SavesSurviveReconnect
-----------------------------------------------------------------------------
(* The order of the backups.                                               *)

\* The backups of a team, from the newest and without gaps.
Ordered(bs) ==
    \A j \in Backup, i \in Backup : i < j /\ bs[j].isValid =>
       bs[i].isValid /\ bs[i].origin > bs[j].origin

\* No backup is newer than the latest slot.
LatestFirst(slots, bs) ==
    \A s \in Slot : slots[s].isLatest /\ bs[1].isValid => slots[s].origin > bs[1].origin

LEMMA NewestFirstByTeam ==
    BackupsNewestFirst <=> \A g \in Guid \ Repeated, t \in Team :
                              Ordered(backups[g][t]) /\ LatestFirst(saves[g][t], backups[g][t])
  BY DEF BackupsNewestFirst, Ordered, LatestFirst, LatestSlots

\* A set of numbers has a least one.
LEMMA LeastNumber ==
    ASSUME NEW T, T \subseteq Nat, T # {}
    PROVE  \E m \in T : \A n \in T : m =< n
  <1>1. IsWellFoundedOn(OpToRel(<, Nat), Nat)
    BY NatLessThanWellFounded
  <1>2. PICK m \in T : \A n \in T : ~(<<n, m>> \in OpToRel(<, Nat))
    BY <1>1, WFMin
  <1>3. \A n \in T : ~(n < m)
    BY <1>2 DEF OpToRel
  <1> QED BY <1>3

\* The place of a backup among those that are kept counts from none before the first, and
\* one more at each that is kept.
LEMMA PlaceCounts ==
    ASSUME NEW bs
    PROVE  /\ \A n \in Nat : Place(bs, n) \in Nat
           /\ Place(bs, 0) = 0
           /\ \A m \in Nat, n \in Nat : m =< n => Place(bs, m) =< Place(bs, n)
           /\ \A n \in Nat : /\ Place(bs, n + 1) =< Place(bs, n) + 1
                             /\ n + 1 \notin Kept(bs) => Place(bs, n + 1) = Place(bs, n)
  <1> DEFINE upTo(n) == {k \in Kept(bs) : k =< n}
  <1>1. \A n \in Nat : IsFiniteSet(upTo(n)) /\ Cardinality(upTo(n)) = Place(bs, n)
    <2> SUFFICES ASSUME NEW n \in Nat
                 PROVE  IsFiniteSet(upTo(n)) /\ Cardinality(upTo(n)) = Place(bs, n)
      OBVIOUS
    <2>1. upTo(n) \in SUBSET (1..n)
      BY SaveAssumption DEF Kept, Backup
    <2>2. IsFiniteSet(1..n)
      BY FS_Interval
    <2>3. IsFiniteSet(upTo(n))
      <3> HIDE DEF upTo
      <3> QED BY <2>1, <2>2, FS_Subset
    <2> QED BY <2>3 DEF Place
  <1>2. \A n \in Nat : Place(bs, n) \in Nat
    <2> HIDE DEF upTo
    <2> QED BY <1>1, FS_CardinalityType
  <1>3. Place(bs, 0) = 0
    <2>1. upTo(0) = {}
      BY SaveAssumption DEF Kept, Backup
    <2> HIDE DEF upTo
    <2> QED BY <1>1, <2>1, FS_EmptySet
  <1>4. ASSUME NEW m \in Nat, NEW n \in Nat, m =< n
        PROVE  Place(bs, m) =< Place(bs, n)
    <2>1. upTo(m) \in SUBSET upTo(n)
      BY <1>4, SaveAssumption DEF Kept, Backup
    <2> HIDE DEF upTo
    <2> QED BY <1>1, <2>1, FS_Subset
  <1>5. ASSUME NEW n \in Nat
        PROVE  /\ Place(bs, n + 1) =< Place(bs, n) + 1
               /\ n + 1 \notin Kept(bs) => Place(bs, n + 1) = Place(bs, n)
    <2>1. CASE n + 1 \in Kept(bs)
      <3>1. upTo(n + 1) = upTo(n) \cup {n + 1} /\ n + 1 \notin upTo(n)
        BY <2>1, SaveAssumption DEF Kept, Backup
      <3>2. IsFiniteSet(upTo(n)) /\ n + 1 \in Nat
        BY <1>1
      <3>3. Cardinality(upTo(n) \cup {n + 1}) = Cardinality(upTo(n)) + 1
        <4> HIDE DEF upTo
        <4> QED BY <3>1, <3>2, FS_AddElement
      <3>4. Place(bs, n + 1) = Place(bs, n) + 1
        <4> HIDE DEF upTo
        <4> QED BY <1>1, <3>1, <3>2, <3>3
      <3> QED BY <1>2, <2>1, <3>4
    <2>2. CASE n + 1 \notin Kept(bs)
      <3>1. upTo(n + 1) = upTo(n) /\ n + 1 \in Nat
        BY <2>2, SaveAssumption DEF Kept, Backup
      <3>2. Place(bs, n + 1) = Place(bs, n)
        <4> HIDE DEF upTo
        <4> QED BY <1>1, <3>1
      <3> QED BY <1>2, <3>2
    <2> QED BY <2>1, <2>2
  <1> QED BY <1>2, <1>3, <1>4, <1>5

\* The backups that are kept are numbered without gaps: below the place of one of them
\* every number is the place of another, which stood before it.
LEMMA PlacesHaveNoGaps ==
    ASSUME NEW bs, NEW j \in Kept(bs), NEW i \in Backup, i =< Place(bs, j)
    PROVE  \E k \in Kept(bs) : Place(bs, k) = i /\ k =< j
  <1> DEFINE T == {n \in Nat : i =< Place(bs, n)}
  <1>1. j \in Nat /\ i \in Nat /\ i >= 1 /\ j >= 1
    BY SaveAssumption DEF Kept, Backup
  <1>2. T \subseteq Nat /\ j \in T
    BY <1>1
  <1>3. PICK m \in T : \A n \in T : m =< n
    <2> HIDE DEF T
    <2> QED BY <1>2, LeastNumber
  <1>4. m \in Nat /\ i =< Place(bs, m) /\ m =< j
    BY <1>2, <1>3
  <1>5. m # 0
    BY <1>1, <1>4, PlaceCounts
  <1>6. m - 1 \in Nat /\ (m - 1) + 1 = m /\ ~(i =< Place(bs, m - 1))
    BY <1>3, <1>4, <1>5
  <1>7. Place(bs, m) \in Nat /\ Place(bs, m - 1) \in Nat
    BY <1>4, <1>6, PlaceCounts
  <1>8. Place(bs, m) =< Place(bs, m - 1) + 1
    BY <1>6, PlaceCounts
  <1>9. m \notin Kept(bs) => Place(bs, m) = Place(bs, m - 1)
    BY <1>6, PlaceCounts
  <1>10. m \in Kept(bs)
    BY <1>1, <1>4, <1>6, <1>7, <1>9
  <1>11. Place(bs, m) = i
    BY <1>1, <1>4, <1>6, <1>7, <1>8
  <1> QED BY <1>4, <1>10, <1>11

\* A cleared backup that is valid is the one kept at its place.
LEMMA ClearedFrom ==
    ASSUME NEW bs, NEW i \in Backup
    PROVE  /\ ClearedBackups(bs)[i].isValid =>
                 \E k \in Kept(bs) : Place(bs, k) = i /\ ClearedBackups(bs)[i] = bs[k]
           /\ (\E k \in Kept(bs) : Place(bs, k) = i) =>
                 \E k \in Kept(bs) : Place(bs, k) = i /\ ClearedBackups(bs)[i] = bs[k]
  <1>1. CASE \E k \in Kept(bs) : Place(bs, k) = i
    BY <1>1 DEF ClearedBackups
  <1>2. CASE ~\E k \in Kept(bs) : Place(bs, k) = i
    BY <1>2 DEF ClearedBackups, NoPosition
  <1> QED BY <1>1, <1>2

\* Clearing the positions of an earlier run keeps the others in their order.
LEMMA ClearedOrdered ==
    ASSUME NEW bs \in [Backup -> Position], Ordered(bs)
    PROVE  /\ Ordered(ClearedBackups(bs))
           /\ ClearedBackups(bs)[1].isValid =>
                 bs[1].isValid /\ bs[1].origin >= ClearedBackups(bs)[1].origin
  <1> DEFINE cs == ClearedBackups(bs)
  <1>1. \A k \in Kept(bs) : k \in Backup /\ k \in Nat /\ k >= 1 /\ bs[k].origin \in Nat
    BY SaveAssumption DEF Kept, Backup, Position
  <1>2. 1 \in Backup /\ \A i \in Backup : i \in Nat
    BY SaveAssumption DEF Backup
  <1>3. ASSUME NEW j \in Backup, NEW i \in Backup, i < j, cs[j].isValid
        PROVE  cs[i].isValid /\ cs[i].origin > cs[j].origin
    <2>1. PICK k \in Kept(bs) : Place(bs, k) = j /\ cs[j] = bs[k]
      BY <1>3, ClearedFrom
    <2>2. PICK l \in Kept(bs) : Place(bs, l) = i /\ cs[i] = bs[l]
      <3>1. i =< Place(bs, k)
        BY <1>2, <1>3, <2>1
      <3>2. \E l \in Kept(bs) : Place(bs, l) = i
        BY <3>1, PlacesHaveNoGaps
      <3> QED BY <3>2, ClearedFrom
    <2>3. l < k
      <3>1. k =< l => Place(bs, k) =< Place(bs, l)
        BY <1>1, PlaceCounts
      <3> QED BY <1>1, <1>2, <1>3, <2>1, <2>2, <3>1
    <2>4. bs[k].isValid /\ k \in Backup /\ l \in Backup
      BY <1>1, <1>3, <2>1
    <2>5. bs[l].isValid /\ bs[l].origin > bs[k].origin
      BY <2>3, <2>4 DEF Ordered
    <2> QED BY <2>1, <2>2, <2>5
  <1>4. ASSUME cs[1].isValid
        PROVE  bs[1].isValid /\ bs[1].origin >= cs[1].origin
    <2>1. PICK k \in Kept(bs) : cs[1] = bs[k]
      BY <1>2, <1>4, ClearedFrom
    <2>2. k = 1 \/ 1 < k
      BY <1>1
    <2>3. CASE k = 1
      BY <1>1, <1>4, <2>1, <2>3
    <2>4. CASE 1 < k
      <3>1. bs[1].isValid /\ bs[1].origin > bs[k].origin
        BY <1>1, <1>2, <1>4, <2>1, <2>4 DEF Ordered
      <3>2. bs[1].origin \in Nat /\ bs[k].origin \in Nat
        BY <1>1, <1>2, SaveAssumption DEF Position
      <3> QED BY <2>1, <3>1, <3>2
    <2> QED BY <2>2, <2>3, <2>4
  <1>5. Ordered(cs)
    <2> HIDE DEF cs
    <2> QED BY <1>3 DEF Ordered
  <1> QED BY <1>4, <1>5

\* Every position kept so far is older than the next one, and what is kept for a client
\* that is away is what its slots hold.
NewestInv == BaseInv /\ OriginsInv /\ LimitInv /\ BackupsNewestFirst

LEMMA InitNewest == SaveInit => BackupsNewestFirst
  <1>1. SaveInit => \A g \in Guid, t \in Team :
           /\ \A b \in Backup : ~backups[g][t][b].isValid
           /\ \A s \in Slot : ~saves[g][t][s].isLatest
    BY DEF SaveInit, NoPosition
  <1> QED BY <1>1, NewestFirstByTeam DEF Ordered, LatestFirst

\* Nothing is asked of the backups of a client that has repeated its login.
LEMMA OthersNewest ==
    ASSUME BackupsNewestFirst, NEW c \in Client, c \in Repeated', Repeated \subseteq Repeated',
           \A g \in Guid : g # c => saves'[g] = saves[g] /\ backups'[g] = backups[g]
    PROVE  BackupsNewestFirst'
  <1>1. \A g \in (Guid \ Repeated)' : /\ g \in Guid \ Repeated
                                       /\ saves'[g] = saves[g] /\ backups'[g] = backups[g]
    BY DEF Guid
  <1> QED BY <1>1 DEF BackupsNewestFirst, LatestSlots

\* A save pushes the slot that was the latest, which is newer than every backup, and
\* nothing else; in a run without backups nothing is pushed.
LEMMA StoreSaveNewest ==
    ASSUME NewestInv, NEW c \in Client, c \notin Repeated, Playing(c), NEW s \in Slot,
           StoreSave(c, team[c], s)
    PROVE  BackupsNewestFirst'
  <1> DEFINE t == team[c]
             new == NewPosition(c)
             row == [i \in Slot |-> IF i = s THEN new ELSE NotLatest(saves[c][t][i])]
             bs == backups[c][t]
             last == saves[c][t][BackedUp(c, t, s)]
             pushed == [b \in Backup |-> IF b = 1 THEN last ELSE bs[b - 1]]
  <1>1. /\ GuidOf(c) = c /\ c \in Guid /\ t \in Team
        /\ saves \in [Guid -> [Team -> [Slot -> Position]]]
        /\ backups \in [Guid -> [Team -> [Backup -> Position]]]
    BY DEF Playing, GuidOf, Guid, NewestInv, BaseInv, SaveTypeOK
  <1>2. /\ saves' = [saves EXCEPT ![c][t] = row]
        /\ \/ backups' = backups
           \/ LatestSlots(c, t) # {} /\ backups' = [backups EXCEPT ![c][t] = pushed]
    BY <1>1 DEF StoreSave, BackUpLatest
  <1>3. /\ saves'[c][t] = row
        /\ \A g \in Guid, u \in Team : g # c \/ u # t =>
              saves'[g][u] = saves[g][u] /\ backups'[g][u] = backups[g][u]
        /\ backups'[c][t] = bs \/ (LatestSlots(c, t) # {} /\ backups'[c][t] = pushed)
    <2> HIDE DEF row, pushed
    <2> QED BY <1>1, <1>2
  <1>4. origins \in Nat /\ new.origin = origins + 1
    BY SaveAssumption DEF NewPosition, NewestInv, BaseInv, SaveTypeOK
  <1>5. \A p \in Position : ~NotLatest(p).isLatest /\ p.origin \in Nat
    BY SaveAssumption DEF NotLatest, Position
  <1>6. \A g \in Guid \ Repeated, u \in Team :
           Ordered(backups[g][u]) /\ LatestFirst(saves[g][u], backups[g][u])
    BY NewestFirstByTeam DEF NewestInv
  <1>7. /\ \A i \in Slot : saves[c][t][i] \in Position /\ saves[c][t][i].origin <= origins
        /\ \A b \in Backup : bs[b] \in Position /\ bs[b].origin <= origins
    BY <1>1 DEF NewestInv, OriginsInv
  <1>8. 1 \in Backup /\ \A b \in Backup : b \in Nat /\ b >= 1 /\ (b # 1 => b - 1 \in Backup)
    BY SaveAssumption DEF Backup
  <1>9. ASSUME LatestSlots(c, t) # {}
        PROVE  /\ Ordered(pushed)
               /\ pushed[1].origin <= origins /\ pushed[1].origin \in Nat
    <2>1. BackedUp(c, t, s) \in LatestSlots(c, t)
      <3>1. BaseInv
        BY DEF NewestInv
      <3> QED BY <1>1, <1>9, <3>1, LatestIsFirst DEF BackedUp, LatestSlots
    <2>2. BackedUp(c, t, s) \in Slot /\ last.isLatest
      BY <2>1 DEF LatestSlots
    <2>3. last.isValid
      BY <1>1, <2>2 DEF NewestInv, BaseInv, LatestInv, Sound
    <2>4. bs[1].isValid => last.origin > bs[1].origin
      BY <1>1, <1>6, <2>2 DEF LatestFirst
    <2>5. last.origin <= origins /\ last.origin \in Nat
      BY <1>5, <1>7, <2>2
    <2>6. pushed[1] = last /\ \A b \in Backup : b # 1 => pushed[b] = bs[b - 1]
      <3> HIDE DEF last
      <3> QED BY <1>8
    <2>7. Ordered(bs) /\ \A b \in Backup : bs[b].origin \in Nat
      BY <1>1, <1>5, <1>6, <1>7
    <2>8. ASSUME NEW j \in Backup, NEW i \in Backup, i < j, pushed[j].isValid
          PROVE  pushed[i].isValid /\ pushed[i].origin > pushed[j].origin
      <3>1. j # 1 /\ j - 1 \in Backup /\ pushed[j] = bs[j - 1]
        BY <1>8, <2>6, <2>8
      <3>2. bs[j - 1].isValid
        BY <2>8, <3>1
      <3>3. CASE i = 1
        <4>1. bs[1].isValid /\ (1 = j - 1 \/ bs[1].origin > bs[j - 1].origin)
          BY <1>8, <2>7, <3>1, <3>2 DEF Ordered
        <4>2. last.origin > bs[j - 1].origin
          <5>1. bs[1].origin \in Nat /\ bs[j - 1].origin \in Nat
            BY <1>8, <2>7, <3>1
          <5> HIDE DEF last
          <5> QED BY <2>4, <2>5, <4>1, <5>1
        <4> QED BY <2>3, <2>6, <3>1, <3>3, <4>2
      <3>4. CASE i # 1
        <4>1. i - 1 \in Backup /\ i - 1 < j - 1 /\ pushed[i] = bs[i - 1]
          BY <1>8, <2>6, <2>8, <3>1, <3>4
        <4>2. bs[i - 1].isValid /\ bs[i - 1].origin > bs[j - 1].origin
          BY <2>7, <3>1, <3>2, <4>1 DEF Ordered
        <4> QED BY <3>1, <4>1, <4>2
      <3> QED BY <3>3, <3>4
    <2>9. Ordered(pushed)
      <3> HIDE DEF pushed
      <3> QED BY <2>8 DEF Ordered
    <2> HIDE DEF pushed
    <2> QED BY <2>5, <2>6, <2>9
  <1>10. Ordered(backups'[c][t]) /\ backups'[c][t][1].origin <= origins /\ backups'[c][t][1].origin \in Nat
    <2>1. CASE backups'[c][t] = bs
      BY <1>1, <1>5, <1>6, <1>7, <1>8, <2>1
    <2>2. CASE LatestSlots(c, t) # {} /\ backups'[c][t] = pushed
      <3> HIDE DEF pushed
      <3> QED BY <1>9, <2>2
    <2> QED BY <1>3, <2>1, <2>2
  <1>11. \A i \in Slot : row[i].isLatest => row[i].origin = origins + 1
    <2> HIDE DEF new
    <2> QED BY <1>4, <1>5, <1>7
  <1>12. LatestFirst(row, backups'[c][t])
    <2> HIDE DEF row
    <2> QED BY <1>4, <1>10, <1>11 DEF LatestFirst
  <1>13. ASSUME NEW g \in Guid \ Repeated, NEW u \in Team
         PROVE  Ordered(backups'[g][u]) /\ LatestFirst(saves'[g][u], backups'[g][u])
    <2>1. CASE g = c /\ u = t
      <3> HIDE DEF row, t
      <3> QED BY <1>3, <1>10, <1>12, <2>1
    <2>2. CASE g # c \/ u # t
      <3> HIDE DEF row, t
      <3> QED BY <1>3, <1>6, <2>2
    <2> QED BY <2>1, <2>2
  <1>14. Repeated' = Repeated
    BY DEF StoreSave, Repeated
  <1> QED BY <1>13, <1>14 DEF BackupsNewestFirst, Ordered, LatestFirst, LatestSlots

\* A run that clears the positions of earlier runs takes the mark from the latest slot
\* with them, and moves the remaining backups up.
LEMMA ClearNewest ==
    ASSUME NewestInv, NEW g \in Guid \ Repeated, ClearTimerunSaves(g), Repeated' = Repeated
    PROVE  BackupsNewestFirst'
  <1>1. /\ saves \in [Guid -> [Team -> [Slot -> Position]]]
        /\ backups \in [Guid -> [Team -> [Backup -> Position]]]
    BY DEF NewestInv, BaseInv, SaveTypeOK
  <1>2. /\ \A t \in Team : /\ backups'[g][t] = ClearedBackups(backups[g][t])
                           /\ \A s \in Slot : saves'[g][t][s] = ClearedSave(saves[g][t][s])
        /\ \A h \in Guid : h # g => saves'[h] = saves[h] /\ backups'[h] = backups[h]
    BY <1>1 DEF ClearTimerunSaves
  <1>3. \A h \in Guid \ Repeated, t \in Team :
           Ordered(backups[h][t]) /\ LatestFirst(saves[h][t], backups[h][t])
    BY NewestFirstByTeam DEF NewestInv
  <1>4. ASSUME NEW t \in Team
        PROVE  Ordered(backups'[g][t]) /\ LatestFirst(saves'[g][t], backups'[g][t])
    <2> DEFINE bs == backups[g][t]
               cs == ClearedBackups(bs)
    <2>1. bs \in [Backup -> Position] /\ Ordered(bs) /\ 1 \in Backup
      BY <1>1, <1>3, SaveAssumption DEF Backup
    <2>2. Ordered(cs) /\ (cs[1].isValid => bs[1].isValid /\ bs[1].origin >= cs[1].origin)
      <3> HIDE DEF bs
      <3> QED BY <2>1, ClearedOrdered
    <2>3. bs[1].origin \in Nat /\ cs[1].origin \in Nat
      BY <2>1, ClearedBackupsType, SaveAssumption DEF Position
    <2>4. ASSUME NEW s \in Slot, saves'[g][t][s].isLatest, cs[1].isValid
          PROVE  saves'[g][t][s].origin > cs[1].origin
      <3> DEFINE p == saves[g][t][s]
      <3>1. p \in Position /\ saves'[g][t][s] = ClearedSave(p)
        BY <1>1, <1>2
      <3>2. ClearedSave(p).isLatest => p.isLatest /\ ClearedSave(p).origin = p.origin
        <4> HIDE DEF p
        <4> QED BY <3>1 DEF ClearedSave, NotLatest, Invalidated, Position
      <3>3. p.isLatest /\ saves'[g][t][s].origin = p.origin /\ p.origin \in Nat
        BY <2>4, <3>1, <3>2, SaveAssumption DEF Position
      <3>4. p.origin > bs[1].origin
        BY <1>3, <2>2, <2>4, <3>3 DEF LatestFirst
      <3> HIDE DEF p, bs, cs
      <3> QED BY <2>2, <2>3, <2>4, <3>3, <3>4
    <2> QED BY <1>2, <2>2, <2>4 DEF LatestFirst
  <1>5. ASSUME NEW h \in Guid \ Repeated, NEW t \in Team
        PROVE  Ordered(backups'[h][t]) /\ LatestFirst(saves'[h][t], backups'[h][t])
    <2>1. CASE h = g
      BY <1>4, <2>1
    <2>2. CASE h # g
      BY <1>2, <1>3, <2>2
    <2> QED BY <2>1, <2>2
  <1> QED BY <1>5 DEF BackupsNewestFirst, Ordered, LatestFirst, LatestSlots

LEMMA StepNewest ==
    ASSUME ~QuickReconnects, NewestInv, NEW c \in Client,
           RunStep(c) \/ PositionStep(c) \/ TeamStep(c) \/ ConnectionStep(c)
    PROVE  BackupsNewestFirst'
  <1>1. ASSUME UNCHANGED <<saves, backups, repeats>>
        PROVE  BackupsNewestFirst'
    BY <1>1 DEF NewestInv, BackupsNewestFirst, LatestSlots, Repeated
  <1>2. /\ saves \in [Guid -> [Team -> [Slot -> Position]]]
         /\ backups \in [Guid -> [Team -> [Backup -> Position]]]
         /\ status \in [Client -> {"gone", "connecting", "identified"}]
         /\ repeats \in [Client -> Nat]
         /\ BackupsNewestFirst /\ c \in Guid
    BY DEF NewestInv, BaseInv, SaveTypeOK, Guid
  <1>3. Playing(c) => GuidOf(c) = c
    BY DEF Playing, GuidOf
  <1>4. ASSUME UNCHANGED repeats, c \in Repeated,
                \A g \in Guid : g # c => saves'[g] = saves[g] /\ backups'[g] = backups[g]
         PROVE  BackupsNewestFirst'
    <2>1. Repeated' = Repeated
      BY <1>4 DEF Repeated
    <2> QED BY <1>2, <1>4, <2>1, OthersNewest
  <1>5. ASSUME NEW flags \in RunFlags, StartRun(c, flags)
        PROVE  BackupsNewestFirst'
    <2>1. UNCHANGED repeats
      BY <1>5 DEF StartRun, counts
    <2>2. CASE UNCHANGED positions
      BY <1>1, <2>1, <2>2 DEF positions
    <2>3. CASE ClearTimerunSaves(c)
      <3>1. \A g \in Guid : g # c => saves'[g] = saves[g] /\ backups'[g] = backups[g]
        BY <1>2, <2>3 DEF ClearTimerunSaves
      <3>2. Repeated' = Repeated
        BY <2>1 DEF Repeated
      <3>3. CASE c \in Repeated
        BY <1>4, <2>1, <3>1, <3>3
      <3>4. CASE c \notin Repeated
        <4>1. c \in Guid \ Repeated
          BY <1>2, <3>4
        <4> QED BY <2>3, <3>2, <4>1, ClearNewest
      <3> QED BY <3>3, <3>4
    <2> QED BY <1>5, <1>3, <2>2, <2>3 DEF StartRun
  <1>6. ASSUME NEW s \in Slot, StoreSave(c, team[c], s), Playing(c)
         PROVE  BackupsNewestFirst'
    <2>1. UNCHANGED repeats
      BY <1>6 DEF StoreSave
    <2>2. \A g \in Guid : g # c => saves'[g] = saves[g] /\ backups'[g] = backups[g]
      BY <1>2, <1>3, <1>6 DEF StoreSave, BackUpLatest
    <2>3. CASE c \in Repeated
      BY <1>4, <2>1, <2>2, <2>3
    <2>4. CASE c \notin Repeated
      BY <1>6, <2>4, StoreSaveNewest
    <2> QED BY <2>3, <2>4
  <1>7. ASSUME NEW s \in Slot, Save(c, s)
        PROVE  BackupsNewestFirst'
    BY <1>7, <1>6 DEF Save
  <1>8. CASE ForceSave(c)
    BY <1>8, <1>6, SaveAssumption DEF ForceSave, Slot
  <1>9. CASE ResetSavedPositions(c)
    <2>1. /\ \A t \in Team : /\ \A s \in Slot : ~saves'[c][t][s].isLatest
                             /\ \A b \in Backup : ~backups'[c][t][b].isValid
          /\ \A h \in Guid : h # c => saves'[h] = saves[h] /\ backups'[h] = backups[h]
          /\ UNCHANGED repeats
      BY <1>9, <1>2, <1>3 DEF ResetSavedPositions, NoPosition, counts
    <2>2. \A h \in Guid \ Repeated, t \in Team :
             Ordered(backups[h][t]) /\ LatestFirst(saves[h][t], backups[h][t])
      BY NewestFirstByTeam DEF NewestInv
    <2>3. ASSUME NEW h \in Guid \ Repeated, NEW t \in Team
          PROVE  Ordered(backups'[h][t]) /\ LatestFirst(saves'[h][t], backups'[h][t])
      <3>1. CASE h = c
        BY <2>1, <3>1 DEF Ordered, LatestFirst
      <3>2. CASE h # c
        BY <2>1, <2>2, <3>2
      <3> QED BY <3>1, <3>2
    <2>4. Repeated' = Repeated
      BY <2>1 DEF Repeated
    <2> QED BY <2>3, <2>4 DEF BackupsNewestFirst, Ordered, LatestFirst, LatestSlots
  <1>10. CASE Authenticate(c)
    <2>1. UNCHANGED backups /\ \A g \in Guid : g # c => saves'[g] = saves[g]
      BY <1>10, <1>2 DEF Authenticate, LoadPositionsFromDatabase
    <2>2. CASE status[c] = "identified" /\ savedPositions[c] # NoEntry
      <3>1. repeats' = [repeats EXCEPT ![c] = repeats[c] + 1]
        BY <1>10, <2>2 DEF Authenticate, LoadPositionsFromDatabase, CountRepeat
      <3>2. c \in Repeated' /\ Repeated \subseteq Repeated'
        BY <1>2, <3>1 DEF Repeated
      <3> QED BY <1>2, <2>1, <3>2, OthersNewest
    <2>3. CASE savedPositions[c] = NoEntry
      <3>1. UNCHANGED <<saves, repeats>>
        BY <1>10, <2>3 DEF Authenticate, LoadPositionsFromDatabase
      <3> QED BY <1>1, <2>1, <3>1
    <2>4. CASE status[c] # "identified"
      <3>1. status[c] = "connecting" /\ status'[c] = "identified" /\ UNCHANGED repeats
        BY <1>10, <1>2, <2>4 DEF Authenticate, LoadPositionsFromDatabase, CountRepeat
      <3>2. saves'[c] = saves[c]
        <4>1. BaseInv /\ LimitInv
          BY DEF NewestInv
        <4> QED BY <1>10, <3>1, <4>1, StepLimit DEF ConnectionStep
      <3>3. \A g \in Guid : saves'[g] = saves[g]
        BY <2>1, <3>2
      <3>4. Repeated' = Repeated
        BY <3>1 DEF Repeated
      <3> QED BY <1>2, <2>1, <3>3, <3>4 DEF BackupsNewestFirst, LatestSlots
    <2> QED BY <2>2, <2>3, <2>4
  <1>11. ASSUME NEW again \in BOOLEAN, Disconnect(c, again)
        PROVE  BackupsNewestFirst'
    BY <1>1, <1>11 DEF Disconnect, Leaves, positions
  <1>12. CASE RunStep(c)
    BY <1>1, <1>5, <1>12 DEF RunStep, StopRun, Die, positions, counts
  <1>13. CASE PositionStep(c)
    BY <1>1, <1>7, <1>8, <1>9, <1>13 DEF PositionStep, Load, LoadBackupPosition, positions,
                                              counts
  <1>14. CASE TeamStep(c)
    BY <1>1, <1>14 DEF TeamStep, SetTeam, SpawnAtSpawnPoint, SpawnQuickDeployed,
                       SpawnAfterInactivity, Spawn, counts
  <1>15. CASE ConnectionStep(c)
    BY <1>1, <1>10, <1>11, <1>15 DEF ConnectionStep, Connect, positions, counts
  <1> QED BY <1>12, <1>13, <1>14, <1>15

\* When every client that returns was first noticed to be gone, the backups of a client
\* that has not repeated its login are numbered from the newest without gaps, behind the
\* latest slot, for any number of slots and backups: through runs that clear some of them,
\* runs without backups, resets and reconnects.
THEOREM BackupsCorrect ==
    ASSUME ~QuickReconnects
    PROVE  SaveSpec => []BackupsNewestFirst
  <1>1. SaveInit => NewestInv
    BY InitUse, InitLimit, InitNewest DEF UseInv, NewestInv
  <1>2. UseInv /\ LimitInv /\ BackupsNewestFirst /\ [SaveNext]_saveVars =>
           (LimitInv /\ BackupsNewestFirst)'
    <2> SUFFICES ASSUME UseInv, LimitInv, BackupsNewestFirst, [SaveNext]_saveVars
                 PROVE  LimitInv' /\ BackupsNewestFirst'
      OBVIOUS
    <2>1. NewestInv /\ BaseInv
      BY DEF UseInv, NewestInv
    <2>2. CASE SaveNext
      <3>1. PICK c \in Client : RunStep(c) \/ PositionStep(c) \/ TeamStep(c) \/ ConnectionStep(c)
        BY <2>2 DEF SaveNext
      <3>2. LimitInv'
        BY <2>1, <3>1, StepLimit
      <3>3. BackupsNewestFirst'
        BY <2>1, <3>1, StepNewest
      <3> QED BY <3>2, <3>3
    <2>3. CASE UNCHANGED saveVars
      BY <2>3 DEF saveVars, connection, positions, counts, LimitInv, BackupsNewestFirst, LatestSlots,
                        Repeated
    <2> QED BY <2>2, <2>3
  <1>3. SaveInit => LimitInv /\ BackupsNewestFirst
    BY <1>1 DEF NewestInv
  <1> QED BY <1>2, <1>3, UseCorrect, PTL DEF SaveSpec
=============================================================================
