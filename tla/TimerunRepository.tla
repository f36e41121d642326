--------------------------- MODULE TimerunRepository ---------------------------
(***************************************************************************)
(* The timerun database as TimerunRepository and the tasks of TimerunV2    *)
(* change it: the records of every season, the archive of removed records, *)
(* and the seasons themselves.  Every operator is one transaction, because *)
(* one worker thread runs the tasks one after the other.                   *)
(*                                                                         *)
(* Only one map is modelled: no operation relates two maps.  A record is   *)
(* its time and its record_date, which identifies the completion it comes  *)
(* from; best segments and record history are left out.                    *)
(***************************************************************************)
EXTENDS Integers, FiniteSets

CONSTANTS
    User,        \* user ids
    Run,         \* the timeruns of the map
    MaxSeason,   \* bound on season ids
    MaxTime,     \* bound on completion times
    MaxDate,     \* bound on the completions stored
    NoRecord     \* the absence of a row

ASSUME BoundAssumption == MaxSeason \in Nat \ {0} /\ MaxTime \in Nat /\ MaxDate \in Nat

VARIABLES
    db,          \* [live |-> table record, archive |-> table removed_records]
    season,      \* ids in table season
    lastSeason,  \* the last id table season gave away (autoincrement)
    date         \* record_date of the last completion

repositoryVars == <<db, season, lastSeason, date>>

Default == 1             \* Timerun::DEFAULT_SEASON_ID, the overall season
AnySeason == 0           \* a command that names no season
Season == 1..MaxSeason

\* The primary key of table record.
Key == [season : Season, user : User, run : Run]

\* What one completed run writes into every season it counts for.
Completion == [time : 1..MaxTime, date : 1..MaxDate]

ASSUME NoRecordAssumption == NoRecord \notin Completion

\* A row of table removed_records: who removed which copy of a completion.
Removed == [key : Key, completion : Completion, by : User]

Database == [live : [Key -> Completion \cup {NoRecord}], archive : SUBSET Removed]

Row(s, u, r) == [season |-> s, user |-> u, run |-> r]
RowsOf(u, r) == {k \in Key : k.user = u /\ k.run = r}
HasRecord(d, k) == d.live[k] # NoRecord

\* The copies of completions in either table.
Stored(d) ==
    {[key |-> k, completion |-> d.live[k]] : k \in {x \in Key : HasRecord(d, x)}}
    \cup {[key |-> a.key, completion |-> a.completion] : a \in d.archive}

RepositoryInit ==
    /\ db = [live |-> [k \in Key |-> NoRecord], archive |-> {}]
    /\ season = {Default}
    /\ lastSeason = Default
    /\ date = 0

-----------------------------------------------------------------------------
(* recordCompletion                                                        *)

\* checkRecord compares a completion with the player's own record of a season.
IsNewRecord(d, k, c) == ~HasRecord(d, k) \/ c.time < d.live[k].time

\* The active seasons in which completion c is a new record of user u.
NewRecordSeasons(d, active, u, r, c) == {s \in active : IsNewRecord(d, Row(s, u, r), c)}

\* Mutant of RecordCompletion: updateRecordRow writes the time and forgets the date.
UpdateTimeOnly(d, active, u, r, c) ==
    LET rows == {Row(s, u, r) : s \in NewRecordSeasons(d, active, u, r, c)}
    IN  [d EXCEPT !.live = [k \in Key |->
            IF k \notin rows THEN d.live[k]
            ELSE IF HasRecord(d, k) THEN [d.live[k] EXCEPT !.time = c.time] ELSE c]]

\* insertRecordRow or updateRecordRow for every season the completion improves.
RecordCompletion(d, active, u, r, c) ==
    LET rows == {Row(s, u, r) : s \in NewRecordSeasons(d, active, u, r, c)}
    IN  [d EXCEPT !.live = [k \in Key |-> IF k \in rows THEN c ELSE d.live[k]]]

-----------------------------------------------------------------------------
(* removeRecord                                                            *)

\* The row a removal names: a removal without a season names the overall one.
TargetRow(target, u, r) == Row(IF target = AnySeason THEN Default ELSE target, u, r)

\* Without a season the removal cascades to every season that holds a copy of
\* the same completion, as told by its record_date.
RemovedRows(d, target, u, r) ==
    LET base == TargetRow(target, u, r)
    IN  IF target = AnySeason
        THEN {k \in RowsOf(u, r) : HasRecord(d, k) /\ d.live[k].date = d.live[base].date}
        ELSE {base}

\* The command fails when the season or the record does not exist.
CanRemove(d, seasons, target, u, r) ==
    /\ target \in seasons \cup {AnySeason}
    /\ HasRecord(d, TargetRow(target, u, r))

\* Rows leave the table and are kept in the archive.
Archive(d, rows, by) ==
    [live    |-> [k \in Key |-> IF k \in rows THEN NoRecord ELSE d.live[k]],
     archive |-> d.archive \cup {[key |-> k, completion |-> d.live[k], by |-> by] : k \in rows}]

RemoveRecord(d, target, u, r, by) == Archive(d, RemovedRows(d, target, u, r), by)

-----------------------------------------------------------------------------
(* restoreRecord                                                           *)

\* Mutant of ArchivedCopies: the restoration does not cascade.
ArchivedCopyOnly(d, a) == {a}

\* Every archived season copy of the completion archived row a belongs to.
ArchivedCopies(d, a) ==
    {b \in d.archive : /\ b.key.user = a.key.user
                       /\ b.key.run = a.key.run
                       /\ b.completion.date = a.completion.date}

\* Without the admin flag only what the caller removed is restored.
Restorable(d, a, caller, admin) ==
    {b \in ArchivedCopies(d, a) : admin \/ b.by = caller}

\* Live rows in the way of the rows to restore.
Conflicts(d, rows) == {k \in Key : HasRecord(d, k) /\ \E b \in rows : b.key = k}

CanRestore(d, a, caller, admin, force) ==
    /\ a \in d.archive
    /\ Restorable(d, a, caller, admin) # {}
    /\ force \/ Conflicts(d, Restorable(d, a, caller, admin)) = {}

\* Mutants of RestoreRecord: a conflicting row is deleted instead of archived,
\* and the restored row stays in the archive.
RestoreOver(d, rows, archive) ==
    [live    |-> [k \in Key |-> IF \E b \in rows : b.key = k
                                THEN (CHOOSE b \in rows : b.key = k).completion
                                ELSE d.live[k]],
     archive |-> archive]

RestoreDroppingConflicts(d, a, caller, admin) ==
    LET rows == Restorable(d, a, caller, admin) IN RestoreOver(d, rows, d.archive \ rows)

RestoreKeepingCopies(d, a, caller, admin) ==
    LET rows == Restorable(d, a, caller, admin)
    IN  RestoreOver(d, rows, Archive(d, Conflicts(d, rows), caller).archive)

\* Conflicting rows are archived in the name of the caller, then the archived
\* copies move back.
RestoreRecord(d, a, caller, admin) ==
    LET rows == Restorable(d, a, caller, admin)
        freed == Archive(d, Conflicts(d, rows), caller)
    IN  [live    |-> [k \in Key |-> IF \E b \in rows : b.key = k
                                    THEN (CHOOSE b \in rows : b.key = k).completion
                                    ELSE freed.live[k]],
         archive |-> freed.archive \ rows]

-----------------------------------------------------------------------------
(* deleteSeason purges a season from every table.                          *)

\* Mutant of PurgeSeason: removed_records is not in the list of purged tables.
PurgeRecordsOnly(d, s) ==
    [d EXCEPT !.live = [k \in Key |-> IF k.season = s THEN NoRecord ELSE d.live[k]]]

PurgeSeason(d, s) ==
    [live    |-> [k \in Key |-> IF k.season = s THEN NoRecord ELSE d.live[k]],
     archive |-> {a \in d.archive : a.key.season # s}]

-----------------------------------------------------------------------------
(* The operations the worker thread may run, in any order.                 *)

Complete(active, u, r, t) ==
    /\ date < MaxDate
    /\ date' = date + 1
    /\ db' = RecordCompletion(db, active, u, r, [time |-> t, date |-> date + 1])
    /\ UNCHANGED <<season, lastSeason>>

Remove(target, u, r, by) ==
    /\ CanRemove(db, season, target, u, r)
    /\ db' = RemoveRecord(db, target, u, r, by)
    /\ UNCHANGED <<season, lastSeason, date>>

Restore(a, caller, admin, force) ==
    /\ CanRestore(db, a, caller, admin, force)
    /\ db' = RestoreRecord(db, a, caller, admin)
    /\ UNCHANGED <<season, lastSeason, date>>

AddSeason ==
    /\ lastSeason < MaxSeason
    /\ lastSeason' = lastSeason + 1
    /\ season' = season \cup {lastSeason + 1}
    /\ UNCHANGED <<db, date>>

DeleteSeason(s) ==
    /\ s # Default
    /\ db' = PurgeSeason(db, s)
    /\ season' = season \ {s}
    /\ UNCHANGED <<lastSeason, date>>

RepositoryNext ==
    \/ \E active \in SUBSET season, u \in User, r \in Run, t \in 1..MaxTime :
          Complete(active, u, r, t)
    \/ \E target \in season \cup {AnySeason}, u, by \in User, r \in Run :
          Remove(target, u, r, by)
    \/ \E a \in db.archive, caller \in User, admin, force \in BOOLEAN :
          Restore(a, caller, admin, force)
    \/ AddSeason
    \/ \E s \in season : DeleteSeason(s)

RepositorySpec == RepositoryInit /\ [][RepositoryNext]_repositoryVars

-----------------------------------------------------------------------------
(* Properties.                                                             *)

RepositoryTypeOK ==
    /\ db \in Database
    /\ season \in SUBSET (1..lastSeason)
    /\ Default \in season
    /\ lastSeason \in Season
    /\ date \in 0..MaxDate

\* A season's copy of a completion is a live record or an archived one, never
\* both, and it is archived once, through any sequence of completions, removals,
\* forced restores and cascades: no record can be restored twice.
LiveOrArchivedOnce ==
    /\ \A a \in db.archive : db.live[a.key] # a.completion
    /\ \A a, b \in db.archive : a.key = b.key /\ a.completion.date = b.completion.date => a = b

\* The rows a record_date selects are copies of one completion: the cascades of
\* removeRecord and restoreRecord, which follow the date, never mix two runs.
DateIdentifiesCompletion ==
    \A x, y \in Stored(db) :
       x.completion.date = y.completion.date =>
          x.completion = y.completion /\ x.key.user = y.key.user /\ x.key.run = y.key.run

\* No table refers to a season that does not exist, so restoreRecord cannot bring
\* a record back into a season that was deleted.
NoOrphans == \A x \in Stored(db) : x.key.season \in season

\* Removing a record and restoring one of the rows this archived brings every row
\* it took back, whatever else is in the archive, with the admin flag or without.
RemovalCanBeUndone ==
    \A target \in season \cup {AnySeason}, u, by \in User, r \in Run, admin \in BOOLEAN :
       CanRemove(db, season, target, u, r) =>
          LET after == RemoveRecord(db, target, u, r, by)
              rows == RemovedRows(db, target, u, r)
          IN  \A a \in after.archive \ db.archive :
                 /\ Restorable(after, a, by, admin) # {}
                 /\ \A k \in rows : RestoreRecord(after, a, by, admin).live[k] = db.live[k]

\* A stored record is never lost: it leaves its row only for the archive, for a
\* faster completion, or with its season.
RecordsAreKept ==
    [][\A k \in Key :
          HasRecord(db, k) /\ db'.live[k] # db.live[k] =>
             \/ \E a \in db'.archive : a.key = k /\ a.completion = db.live[k]
             \/ HasRecord(db', k) /\ db'.live[k].time < db.live[k].time
             \/ k.season \notin season']_repositoryVars
=============================================================================
