------------------------ MODULE TimerunRepository_proof ------------------------
(***************************************************************************)
(* Proofs about TimerunRepository for any users, runs, seasons and bounds. *)
(* The argument follows the stored copies of completions: a completion     *)
(* adds copies with a date no stored copy has, every other operation only  *)
(* moves copies between the two tables or drops them.                      *)
(***************************************************************************)
EXTENDS TimerunRepository, TLAPS

\* Every stored copy dates from a completion that has been stored.
DatesPast == \A x \in Stored(db) : x.completion.date <= date

IInv ==
    /\ RepositoryTypeOK
    /\ DatesPast
    /\ DateIdentifiesCompletion
    /\ NoOrphans
    /\ LiveOrArchivedOnce

USE BoundAssumption, NoRecordAssumption

-----------------------------------------------------------------------------
(* The two tables.                                                         *)

\* A row that is not empty holds a completion.
LEMMA LiveType ==
  ASSUME NEW d \in Database, NEW k \in Key, HasRecord(d, k)
  PROVE  d.live[k] \in Completion
  BY DEF Database, HasRecord

\* A live record is a stored copy.
LEMMA LiveStored ==
  ASSUME NEW d \in Database, NEW k \in Key, HasRecord(d, k)
  PROVE  [key |-> k, completion |-> d.live[k]] \in Stored(d)
  BY DEF Stored

\* An archived row is a stored copy.
LEMMA ArchivedStored ==
  ASSUME NEW d \in Database, NEW a \in d.archive
  PROVE  [key |-> a.key, completion |-> a.completion] \in Stored(d)
  BY DEF Stored

\* A stored copy is live or archived.
LEMMA StoredCases ==
  ASSUME NEW d \in Database, NEW x \in Stored(d)
  PROVE  /\ x.key \in Key
         /\ x.completion \in Completion
         /\ x = [key |-> x.key, completion |-> x.completion]
         /\ \/ HasRecord(d, x.key) /\ d.live[x.key] = x.completion
            \/ \E a \in d.archive : a.key = x.key /\ a.completion = x.completion
<1>1. CASE \E k \in Key : HasRecord(d, k) /\ x = [key |-> k, completion |-> d.live[k]]
  BY <1>1, LiveType
<1>2. CASE \E a \in d.archive : x = [key |-> a.key, completion |-> a.completion]
  BY <1>2 DEF Database, Removed
<1>3. QED BY <1>1, <1>2 DEF Stored

\* The row of a season, user and run is a key.
LEMMA RowType ==
  ASSUME NEW s \in Season, NEW u \in User, NEW r \in Run
  PROVE  Row(s, u, r) \in Key /\ Row(s, u, r).user = u /\ Row(s, u, r).run = r
         /\ Row(s, u, r).season = s
  BY DEF Row, Key

-----------------------------------------------------------------------------
(* What each operation does to the tables.                                 *)

\* A completion leaves a row alone or fills it.
LEMMA RecordCompletionType ==
  ASSUME NEW d \in Database, NEW active \in SUBSET Season, NEW u \in User, NEW r \in Run,
         NEW c \in Completion
  PROVE  /\ RecordCompletion(d, active, u, r, c) \in Database
         /\ RecordCompletion(d, active, u, r, c).archive = d.archive
         /\ \A k \in Key :
              \/ RecordCompletion(d, active, u, r, c).live[k] = d.live[k]
              \/ /\ RecordCompletion(d, active, u, r, c).live[k] = c
                 /\ k.user = u /\ k.run = r /\ k.season \in active
                 /\ IsNewRecord(d, k, c)
<1> DEFINE rows == {Row(s, u, r) : s \in NewRecordSeasons(d, active, u, r, c)}
           after == [d EXCEPT !.live = [k \in Key |-> IF k \in rows THEN c ELSE d.live[k]]]
<1>1. after = RecordCompletion(d, active, u, r, c)
  BY DEF RecordCompletion
<1>2. \A k \in rows : k.user = u /\ k.run = r /\ k.season \in active /\ IsNewRecord(d, k, c)
  BY RowType DEF NewRecordSeasons
<1> HIDE DEF rows
<1>3. after \in Database /\ after.archive = d.archive
  BY DEF Database
<1>4. \A k \in Key : after.live[k] = IF k \in rows THEN c ELSE d.live[k]
  BY DEF Database
<1>5. QED BY <1>1, <1>2, <1>3, <1>4

\* Archiving rows of a database gives a database.
LEMMA ArchiveInDatabase ==
  ASSUME NEW d \in Database, NEW rows \in SUBSET Key, NEW by \in User,
         \A k \in rows : HasRecord(d, k)
  PROVE  Archive(d, rows, by) \in Database
<1> DEFINE new == {[key |-> k, completion |-> d.live[k], by |-> by] : k \in rows}
<1>1. new \subseteq Removed
  BY LiveType DEF Removed
<1> HIDE DEF new
<1> DEFINE live == [k \in Key |-> IF k \in rows THEN NoRecord ELSE d.live[k]]
<1>2. live \in [Key -> Completion \cup {NoRecord}]
  BY DEF Database
<1> HIDE DEF live
<1>3. d.archive \cup new \in SUBSET Removed
  BY <1>1 DEF Database
<1>4. Archive(d, rows, by) = [live |-> live, archive |-> d.archive \cup new]
  BY DEF Archive, new, live
<1>5. QED BY <1>2, <1>3, <1>4 DEF Database

\* Archiving moves live rows from one table to the other.
LEMMA ArchiveType ==
  ASSUME NEW d \in Database, NEW rows \in SUBSET Key, NEW by \in User,
         \A k \in rows : HasRecord(d, k),
         NEW after, after = Archive(d, rows, by)
  PROVE  /\ after \in Database
         /\ \A k \in Key : after.live[k] = IF k \in rows THEN NoRecord ELSE d.live[k]
         /\ d.archive \subseteq after.archive
         /\ \A a \in after.archive :
              a \in d.archive \/ (a.key \in rows /\ a.completion = d.live[a.key] /\ a.by = by)
         /\ \A k \in rows : [key |-> k, completion |-> d.live[k], by |-> by] \in after.archive
<1> DEFINE new == {[key |-> k, completion |-> d.live[k], by |-> by] : k \in rows}
<1>1. new \subseteq Removed
  BY LiveType DEF Removed
<1> HIDE DEF new
<1> DEFINE live == [k \in Key |-> IF k \in rows THEN NoRecord ELSE d.live[k]]
<1>2. live \in [Key -> Completion \cup {NoRecord}]
  BY DEF Database
<1>3. d.archive \cup new \in SUBSET Removed
  BY <1>1 DEF Database
<1>4. after = [live |-> live, archive |-> d.archive \cup new]
  BY DEF Archive, new
<1>5. \A a \in new : a.key \in rows /\ a.completion = d.live[a.key] /\ a.by = by
  BY DEF new
<1>6. \A k \in rows : [key |-> k, completion |-> d.live[k], by |-> by] \in new
  BY DEF new
<1>7. \A k \in Key : live[k] = IF k \in rows THEN NoRecord ELSE d.live[k]
  OBVIOUS
<1> HIDE DEF live
<1>8. after \in Database
  BY <1>2, <1>3, <1>4 DEF Database
<1>9. after.live = live /\ after.archive = d.archive \cup new
  BY <1>4
<1>10. QED BY <1>5, <1>6, <1>7, <1>8, <1>9

\* It stores nothing new.
LEMMA ArchiveStored ==
  ASSUME NEW d \in Database, NEW rows \in SUBSET Key, NEW by \in User,
         \A k \in rows : HasRecord(d, k)
  PROVE  Stored(Archive(d, rows, by)) \subseteq Stored(d)
<1> DEFINE after == Archive(d, rows, by)
<1>1. /\ after \in Database
      /\ \A k \in Key : after.live[k] = IF k \in rows THEN NoRecord ELSE d.live[k]
      /\ \A a \in after.archive :
           a \in d.archive \/ (a.key \in rows /\ a.completion = d.live[a.key] /\ a.by = by)
  BY ArchiveType
<1> SUFFICES ASSUME NEW x \in Stored(after) PROVE x \in Stored(d)
  OBVIOUS
<1> HIDE DEF after
<1>2. x \in Stored(after)
  OBVIOUS
<1>3. /\ x.key \in Key
      /\ x = [key |-> x.key, completion |-> x.completion]
      /\ \/ HasRecord(after, x.key) /\ after.live[x.key] = x.completion
         \/ \E a \in after.archive : a.key = x.key /\ a.completion = x.completion
  BY <1>1, <1>2, StoredCases
<1>4. CASE HasRecord(after, x.key) /\ after.live[x.key] = x.completion
  BY <1>1, <1>3, <1>4, LiveStored DEF HasRecord
<1>5. ASSUME NEW a \in after.archive, a.key = x.key, a.completion = x.completion
      PROVE  x \in Stored(d)
  BY <1>1, <1>3, <1>5, LiveStored, ArchivedStored
<1>6. QED BY <1>3, <1>4, <1>5

\* The rows a removal takes are live.
LEMMA RemovedRowsLive ==
  ASSUME NEW d \in Database, NEW seasons \in SUBSET Season, NEW target, NEW u \in User, NEW r \in Run,
         CanRemove(d, seasons, target, u, r)
  PROVE  /\ RemovedRows(d, target, u, r) \in SUBSET Key
         /\ \A k \in RemovedRows(d, target, u, r) : HasRecord(d, k)
<1>1. TargetRow(target, u, r) \in Key
  BY RowType DEF CanRemove, TargetRow, AnySeason, Season, Default
<1>2. QED BY <1>1 DEF RemovedRows, CanRemove, RowsOf

\* The rows to restore are archived.
LEMMA RestorableArchived ==
  ASSUME NEW d \in Database, NEW a \in d.archive, NEW caller \in User, NEW admin \in BOOLEAN
  PROVE  Restorable(d, a, caller, admin) \subseteq d.archive
  BY DEF Restorable, ArchivedCopies

\* A restoration fills the rows it restores and archives what was in the way.
LEMMA RestoreTables ==
  ASSUME NEW d \in Database, NEW a \in d.archive, NEW caller \in User, NEW admin \in BOOLEAN,
         NEW rows, rows = Restorable(d, a, caller, admin),
         NEW after, after = RestoreRecord(d, a, caller, admin)
  PROVE  /\ after \in Database
         /\ rows \subseteq d.archive
         /\ \A k \in Key : (\A b \in rows : b.key # k) => after.live[k] = d.live[k]
         /\ \A k \in Key : (\E b \in rows : b.key = k) =>
                              \E b \in rows : b.key = k /\ after.live[k] = b.completion
         /\ \A x \in after.archive :
              /\ x \notin rows
              /\ \/ x \in d.archive
                 \/ /\ HasRecord(d, x.key) /\ x.completion = d.live[x.key] /\ x.by = caller
                    /\ \E b \in rows : b.key = x.key
         /\ \A k \in Key : HasRecord(d, k) /\ (\E b \in rows : b.key = k) =>
              \/ [key |-> k, completion |-> d.live[k], by |-> caller] \in rows
              \/ [key |-> k, completion |-> d.live[k], by |-> caller] \in after.archive
<1> DEFINE busy == Conflicts(d, rows)
           freed == Archive(d, busy, caller)
           live == [k \in Key |-> IF \E b \in rows : b.key = k
                                   THEN (CHOOSE b \in rows : b.key = k).completion
                                   ELSE freed.live[k]]
<1>1. rows \subseteq d.archive
  BY RestorableArchived
<1>2. /\ busy \in SUBSET Key
      /\ \A k \in Key : k \in busy <=> HasRecord(d, k) /\ \E b \in rows : b.key = k
  BY DEF Conflicts
<1>3. after = [live |-> live, archive |-> freed.archive \ rows]
  BY DEF RestoreRecord
<1> HIDE DEF busy
<1>4. /\ freed \in Database
      /\ \A k \in Key : freed.live[k] = IF k \in busy THEN NoRecord ELSE d.live[k]
      /\ \A x \in freed.archive :
           x \in d.archive \/ (x.key \in busy /\ x.completion = d.live[x.key] /\ x.by = caller)
      /\ \A k \in busy : [key |-> k, completion |-> d.live[k], by |-> caller] \in freed.archive
  <2>1. \A k \in busy : HasRecord(d, k)
    BY <1>2
  <2>2. busy \in SUBSET Key
    BY <1>2
  <2>3. freed \in Database
    BY ArchiveType, <2>1, <2>2
  <2>4. \A k \in Key : freed.live[k] = IF k \in busy THEN NoRecord ELSE d.live[k]
    BY DEF Archive
  <2>5. \A x \in freed.archive :
          x \in d.archive \/ (x.key \in busy /\ x.completion = d.live[x.key] /\ x.by = caller)
    BY ArchiveType, <2>1, <2>2
  <2>6. \A k \in busy : [key |-> k, completion |-> d.live[k], by |-> caller] \in freed.archive
    BY ArchiveType, <2>1, <2>2
  <2>7. QED BY <2>3, <2>4, <2>5, <2>6
<1> HIDE DEF freed
<1>5. \A k \in Key : (\E b \in rows : b.key = k) => \E b \in rows : b.key = k /\ live[k] = b.completion
  <2> SUFFICES ASSUME NEW k \in Key, \E b \in rows : b.key = k
               PROVE  \E b \in rows : b.key = k /\ live[k] = b.completion
    OBVIOUS
  <2> DEFINE row == CHOOSE b \in rows : b.key = k
  <2>1. row \in rows /\ row.key = k
    OBVIOUS
  <2>2. live[k] = row.completion
    OBVIOUS
  <2> HIDE DEF row, live
  <2>3. QED BY <2>1, <2>2
<1>6. \A k \in Key : (\A b \in rows : b.key # k) => live[k] = d.live[k]
  BY <1>2, <1>4
<1>7. live \in [Key -> Completion \cup {NoRecord}]
  <2>1. live = [k \in Key |-> live[k]]
    OBVIOUS
  <2> HIDE DEF live
  <2>2. \A k \in Key : live[k] \in Completion \cup {NoRecord}
    BY <1>1, <1>5, <1>6 DEF Database, Removed
  <2>3. QED BY <2>1, <2>2
<1> HIDE DEF live
<1>8. after \in Database
  BY <1>3, <1>4, <1>7 DEF Database
<1>9. after.live = live /\ after.archive = freed.archive \ rows
  BY <1>3
<1>10. \A x \in after.archive :
         /\ x \notin rows
         /\ \/ x \in d.archive
            \/ /\ HasRecord(d, x.key) /\ x.completion = d.live[x.key] /\ x.by = caller
               /\ \E b \in rows : b.key = x.key
  BY <1>2, <1>4, <1>9
<1>11. \A k \in Key : HasRecord(d, k) /\ (\E b \in rows : b.key = k) =>
         \/ [key |-> k, completion |-> d.live[k], by |-> caller] \in rows
         \/ [key |-> k, completion |-> d.live[k], by |-> caller] \in after.archive
  BY <1>2, <1>4, <1>9
<1>12. QED BY <1>1, <1>5, <1>6, <1>8, <1>9, <1>10, <1>11

\* A restoration stores nothing new.
LEMMA RestoreStored ==
  ASSUME NEW d \in Database, NEW a \in d.archive, NEW caller \in User, NEW admin \in BOOLEAN
  PROVE  Stored(RestoreRecord(d, a, caller, admin)) \subseteq Stored(d)
<1> DEFINE after == RestoreRecord(d, a, caller, admin)
           rows == Restorable(d, a, caller, admin)
<1>1. /\ after \in Database
      /\ rows \subseteq d.archive
      /\ \A k \in Key : (\A b \in rows : b.key # k) => after.live[k] = d.live[k]
      /\ \A k \in Key : (\E b \in rows : b.key = k) =>
                           \E b \in rows : b.key = k /\ after.live[k] = b.completion
      /\ \A x \in after.archive :
           x \in d.archive \/ (HasRecord(d, x.key) /\ x.completion = d.live[x.key])
  BY RestoreTables
<1> HIDE DEF after, rows
<1> SUFFICES ASSUME NEW x \in Stored(after) PROVE x \in Stored(d)
  BY DEF after
<1>2. /\ x.key \in Key
      /\ x = [key |-> x.key, completion |-> x.completion]
      /\ \/ HasRecord(after, x.key) /\ after.live[x.key] = x.completion
         \/ \E b \in after.archive : b.key = x.key /\ b.completion = x.completion
  BY <1>1, StoredCases
<1>3. ASSUME HasRecord(after, x.key), after.live[x.key] = x.completion,
             \A b \in rows : b.key # x.key
      PROVE  x \in Stored(d)
  BY <1>1, <1>2, <1>3, LiveStored DEF HasRecord
<1>4. ASSUME after.live[x.key] = x.completion, \E b \in rows : b.key = x.key
      PROVE  x \in Stored(d)
  <2>1. PICK b \in rows : b.key = x.key /\ after.live[x.key] = b.completion
    BY <1>1, <1>2, <1>4
  <2>2. QED BY <1>1, <1>2, <1>4, <2>1, ArchivedStored
<1>5. ASSUME NEW b \in after.archive, b.key = x.key, b.completion = x.completion
      PROVE  x \in Stored(d)
  BY <1>1, <1>2, <1>5, LiveStored, ArchivedStored
<1>6. QED BY <1>2, <1>3, <1>4, <1>5

\* A purge drops the copies of one season and keeps every other row.
LEMMA PurgeTables ==
  ASSUME NEW d \in Database, NEW s \in Season
  PROVE  /\ PurgeSeason(d, s) \in Database
         /\ \A k \in Key : PurgeSeason(d, s).live[k] = IF k.season = s THEN NoRecord ELSE d.live[k]
         /\ PurgeSeason(d, s).archive = {a \in d.archive : a.key.season # s}
<1> DEFINE live == [k \in Key |-> IF k.season = s THEN NoRecord ELSE d.live[k]]
           kept == {a \in d.archive : a.key.season # s}
<1>1. PurgeSeason(d, s) = [live |-> live, archive |-> kept]
  BY DEF PurgeSeason
<1>2. live \in [Key -> Completion \cup {NoRecord}] /\ kept \in SUBSET Removed
  BY DEF Database
<1>3. \A k \in Key : live[k] = IF k.season = s THEN NoRecord ELSE d.live[k]
  OBVIOUS
<1> HIDE DEF live, kept
<1>4. PurgeSeason(d, s) \in Database
  BY <1>1, <1>2 DEF Database
<1>5. PurgeSeason(d, s).live = live /\ PurgeSeason(d, s).archive = kept
  BY <1>1
<1>6. QED BY <1>3, <1>4, <1>5 DEF kept

\* What remains stored after a purge was stored and is of another season.
LEMMA PurgeStored ==
  ASSUME NEW d \in Database, NEW s \in Season, NEW x \in Stored(PurgeSeason(d, s))
  PROVE  x \in Stored(d) /\ x.key.season # s
<1> DEFINE after == PurgeSeason(d, s)
<1>1. /\ after \in Database
      /\ \A k \in Key : after.live[k] = IF k.season = s THEN NoRecord ELSE d.live[k]
      /\ after.archive = {a \in d.archive : a.key.season # s}
  BY PurgeTables
<1>2. x \in Stored(after)
  OBVIOUS
<1> HIDE DEF after
<1>3. /\ x.key \in Key
      /\ x = [key |-> x.key, completion |-> x.completion]
      /\ \/ HasRecord(after, x.key) /\ after.live[x.key] = x.completion
         \/ \E b \in after.archive : b.key = x.key /\ b.completion = x.completion
  BY <1>1, <1>2, StoredCases
<1>4. ASSUME HasRecord(after, x.key), after.live[x.key] = x.completion
      PROVE  x \in Stored(d) /\ x.key.season # s
  BY <1>1, <1>3, <1>4, LiveStored DEF HasRecord
<1>5. ASSUME NEW b \in after.archive, b.key = x.key, b.completion = x.completion
      PROVE  x \in Stored(d) /\ x.key.season # s
  BY <1>1, <1>3, <1>5, ArchivedStored
<1>6. QED BY <1>3, <1>4, <1>5

-----------------------------------------------------------------------------
(* The inductive invariant, operation by operation.                        *)

LEMMA InitInv == RepositoryInit => IInv
<1> SUFFICES ASSUME RepositoryInit PROVE IInv
  OBVIOUS
<1>1. Default \in Season /\ Default \in 1..Default
  BY DEF Default, Season
<1>2. db.live = [k \in Key |-> NoRecord] /\ db.archive = {}
  BY DEF RepositoryInit
<1>3. RepositoryTypeOK
  BY <1>1 DEF RepositoryInit, RepositoryTypeOK, Database, Default
<1>4. Stored(db) = {}
  BY <1>2 DEF Stored, HasRecord
<1>5. LiveOrArchivedOnce
  BY <1>2 DEF LiveOrArchivedOnce
<1>6. QED BY <1>3, <1>4, <1>5 DEF IInv, DatesPast, DateIdentifiesCompletion, NoOrphans

\* What speaks of stored copies only survives an operation that stores nothing new.
LEMMA StoredShrinks ==
  ASSUME IInv, Stored(db') \subseteq Stored(db), date' = date
  PROVE  DatesPast' /\ DateIdentifiesCompletion'
  BY DEF IInv, DatesPast, DateIdentifiesCompletion

\* The copies after a completion: the stored ones and copies of the completion.
LEMMA CompleteStored ==
  ASSUME NEW d \in Database, NEW active \in SUBSET Season, NEW u \in User, NEW r \in Run,
         NEW c \in Completion, NEW x \in Stored(RecordCompletion(d, active, u, r, c))
  PROVE  \/ x \in Stored(d)
         \/ x.completion = c /\ x.key.user = u /\ x.key.run = r /\ x.key.season \in active
<1> DEFINE after == RecordCompletion(d, active, u, r, c)
<1>1. /\ after \in Database
      /\ after.archive = d.archive
      /\ \A k \in Key :
           \/ after.live[k] = d.live[k]
           \/ after.live[k] = c /\ k.user = u /\ k.run = r /\ k.season \in active
  BY RecordCompletionType
<1>2. x \in Stored(after)
  OBVIOUS
<1> HIDE DEF after
<1>3. /\ x.key \in Key
      /\ x = [key |-> x.key, completion |-> x.completion]
      /\ \/ HasRecord(after, x.key) /\ after.live[x.key] = x.completion
         \/ \E b \in after.archive : b.key = x.key /\ b.completion = x.completion
  BY <1>1, <1>2, StoredCases
<1>4. CASE HasRecord(after, x.key) /\ after.live[x.key] = x.completion
  BY <1>1, <1>3, <1>4, LiveStored DEF HasRecord
<1>5. ASSUME NEW b \in after.archive, b.key = x.key, b.completion = x.completion
      PROVE  x \in Stored(d)
  BY <1>1, <1>3, <1>5, ArchivedStored
<1>6. QED BY <1>3, <1>4, <1>5

LEMMA CompleteInv ==
  ASSUME IInv, NEW active \in SUBSET season, NEW u \in User, NEW r \in Run, NEW t \in 1..MaxTime,
         Complete(active, u, r, t)
  PROVE  IInv'
<1> DEFINE c == [time |-> t, date |-> date + 1]
<1>1. db \in Database /\ active \in SUBSET Season /\ date \in Nat
  BY DEF IInv, RepositoryTypeOK, Season
<1>2. c \in Completion /\ date' \in 0..MaxDate /\ date' = date + 1 /\ c.date = date'
  BY DEF IInv, RepositoryTypeOK, Complete, Completion
<1>3. db' = RecordCompletion(db, active, u, r, c)
  BY DEF Complete
<1> HIDE DEF c
<1>4. /\ db' \in Database
      /\ db'.archive = db.archive
      /\ \A k \in Key : db'.live[k] = db.live[k] \/ db'.live[k] = c
  <2> DEFINE after == RecordCompletion(db, active, u, r, c)
  <2>1. /\ after \in Database
        /\ after.archive = db.archive
        /\ \A k \in Key : after.live[k] = db.live[k] \/ after.live[k] = c
    BY <1>1, <1>2, RecordCompletionType
  <2>2. db' = after
    BY <1>3
  <2> HIDE DEF after
  <2>3. QED BY <2>1, <2>2
<1>5. \A x \in Stored(db') :
        \/ x \in Stored(db)
        \/ x.completion = c /\ x.key.user = u /\ x.key.run = r /\ x.key.season \in active
  BY <1>1, <1>2, <1>3, CompleteStored
<1>6. RepositoryTypeOK'
  BY <1>2, <1>4 DEF IInv, RepositoryTypeOK, Complete
<1>7. \A x \in Stored(db) : x.completion \in Completion /\ x.completion.date <= date
  BY <1>1, StoredCases DEF IInv, DatesPast
<1>8. DatesPast'
  BY <1>1, <1>2, <1>5, <1>7 DEF DatesPast, Completion
<1>9. DateIdentifiesCompletion'
  BY <1>1, <1>2, <1>5, <1>7 DEF IInv, DateIdentifiesCompletion, Completion
<1>10. NoOrphans'
  BY <1>5 DEF IInv, NoOrphans, Complete
<1>11. LiveOrArchivedOnce'
  <2>1. \A a \in db.archive : a.key \in Key /\ a.completion # c
    <3> SUFFICES ASSUME NEW a \in db.archive PROVE a.key \in Key /\ a.completion # c
      OBVIOUS
    <3> DEFINE x == [key |-> a.key, completion |-> a.completion]
    <3>1. x \in Stored(db) /\ x.completion = a.completion
      BY <1>1, ArchivedStored
    <3>2. a.completion.date <= date
      BY <1>7, <3>1
    <3>3. a.key \in Key /\ a.completion \in Completion
      BY <1>1 DEF Database, Removed
    <3>4. QED BY <1>1, <1>2, <3>2, <3>3 DEF Completion
  <2>2. QED BY <1>4, <2>1 DEF IInv, LiveOrArchivedOnce
<1>12. QED BY <1>6, <1>8, <1>9, <1>10, <1>11 DEF IInv

\* An archived row holds no record that is live or archived under the same key
\* and date: what removeRecord adds to the archive is new there.
LEMMA LiveDatesUnarchived ==
  ASSUME IInv, NEW a \in db.archive, HasRecord(db, a.key)
  PROVE  a.completion.date # db.live[a.key].date
<1>1. db \in Database /\ a.key \in Key
  BY DEF IInv, RepositoryTypeOK, Database, Removed
<1> DEFINE x == [key |-> a.key, completion |-> a.completion]
           y == [key |-> a.key, completion |-> db.live[a.key]]
<1>2. x \in Stored(db) /\ y \in Stored(db)
  BY <1>1, ArchivedStored, LiveStored
<1>3. x.completion.date = y.completion.date => x.completion = y.completion
  BY <1>2 DEF IInv, DateIdentifiesCompletion
<1>4. a.completion # db.live[a.key]
  BY DEF IInv, LiveOrArchivedOnce
<1>5. QED BY <1>3, <1>4

LEMMA RemoveInv ==
  ASSUME IInv, NEW target, NEW u \in User, NEW by \in User, NEW r \in Run,
         Remove(target, u, r, by)
  PROVE  IInv'
<1> DEFINE rows == RemovedRows(db, target, u, r)
<1>1. db \in Database /\ season \in SUBSET Season
  BY DEF IInv, RepositoryTypeOK, Season
<1>2. rows \in SUBSET Key /\ \A k \in rows : HasRecord(db, k)
  BY <1>1, RemovedRowsLive DEF Remove
<1>3. db' = Archive(db, rows, by) /\ UNCHANGED <<season, lastSeason, date>>
  BY DEF Remove, RemoveRecord
<1> HIDE DEF rows
<1>4. /\ db' \in Database
      /\ \A k \in Key : db'.live[k] = IF k \in rows THEN NoRecord ELSE db.live[k]
      /\ \A a \in db'.archive :
           a \in db.archive \/ (a.key \in rows /\ a.completion = db.live[a.key] /\ a.by = by)
  <2>1. rows \in SUBSET Key
    BY <1>2
  <2>2. \A k \in rows : HasRecord(db, k)
    BY <1>2
  <2>3. db \in Database /\ db' = Archive(db, rows, by)
    BY <1>1, <1>3
  <2>4. db' \in Database
    BY ArchiveType, <2>1, <2>2, <2>3
  <2>5. \A k \in Key : db'.live[k] = IF k \in rows THEN NoRecord ELSE db.live[k]
    BY <2>3 DEF Archive
  <2>6. \A a \in db'.archive :
          a \in db.archive \/ (a.key \in rows /\ a.completion = db.live[a.key] /\ a.by = by)
    BY <2>3 DEF Archive
  <2>7. QED BY <2>4, <2>5, <2>6
<1>5. Stored(db') \subseteq Stored(db)
  BY <1>1, <1>2, <1>3, ArchiveStored
<1>6. RepositoryTypeOK'
  BY <1>3, <1>4 DEF IInv, RepositoryTypeOK
<1>7. DatesPast' /\ DateIdentifiesCompletion'
  BY <1>3, <1>5, StoredShrinks
<1>8. NoOrphans'
  BY <1>3, <1>5 DEF IInv, NoOrphans
<1>9. LiveOrArchivedOnce'
  <2>1. \A a \in db'.archive : a \in Removed /\ a.key \in Key /\ a.completion # NoRecord
    BY <1>4 DEF Database, Removed
  <2>2. ASSUME NEW a \in db'.archive PROVE db'.live[a.key] # a.completion
    BY <1>4, <2>1, <2>2 DEF IInv, LiveOrArchivedOnce
  <2>3. ASSUME NEW a \in db.archive, NEW b \in db'.archive, b \notin db.archive, a.key = b.key
        PROVE  a.completion.date # b.completion.date
    BY <1>2, <1>4, <2>3, LiveDatesUnarchived
  <2>4. ASSUME NEW a \in db'.archive, NEW b \in db'.archive, a.key = b.key,
               a \notin db.archive, b \notin db.archive
        PROVE  a = b
    BY <1>4, <2>1, <2>4 DEF Removed
  <2>5. QED BY <2>2, <2>3, <2>4 DEF IInv, LiveOrArchivedOnce
<1>10. QED BY <1>6, <1>7, <1>8, <1>9 DEF IInv

LEMMA RestoreInv ==
  ASSUME IInv, NEW a \in db.archive, NEW caller \in User, NEW admin \in BOOLEAN,
         NEW force \in BOOLEAN, Restore(a, caller, admin, force)
  PROVE  IInv'
<1> DEFINE rows == Restorable(db, a, caller, admin)
<1>1. db \in Database
  BY DEF IInv, RepositoryTypeOK
<1>2. db' = RestoreRecord(db, a, caller, admin) /\ UNCHANGED <<season, lastSeason, date>>
  BY DEF Restore
<1>3. /\ db' \in Database
      /\ rows \subseteq db.archive
      /\ \A k \in Key : (\A b \in rows : b.key # k) => db'.live[k] = db.live[k]
      /\ \A k \in Key : (\E b \in rows : b.key = k) =>
                           \E b \in rows : b.key = k /\ db'.live[k] = b.completion
      /\ \A x \in db'.archive :
           /\ x \notin rows
           /\ \/ x \in db.archive
              \/ /\ HasRecord(db, x.key) /\ x.completion = db.live[x.key] /\ x.by = caller
                 /\ \E b \in rows : b.key = x.key
  BY <1>1, <1>2, RestoreTables
<1>4. Stored(db') \subseteq Stored(db)
  BY <1>1, <1>2, RestoreStored
<1> HIDE DEF rows
<1>5. RepositoryTypeOK'
  BY <1>2, <1>3 DEF IInv, RepositoryTypeOK
<1>6. DatesPast' /\ DateIdentifiesCompletion'
  BY <1>2, <1>4, StoredShrinks
<1>7. NoOrphans'
  BY <1>2, <1>4 DEF IInv, NoOrphans
<1>8. LiveOrArchivedOnce'
  <2>1. \A x \in db'.archive : x \in Removed /\ x.key \in Key
    BY <1>3 DEF Database, Removed
  <2>2. ASSUME NEW x \in db'.archive, \A b \in rows : b.key # x.key
        PROVE  db'.live[x.key] # x.completion
    BY <1>3, <2>1, <2>2 DEF IInv, LiveOrArchivedOnce
  <2>3. ASSUME NEW x \in db'.archive, \E b \in rows : b.key = x.key
        PROVE  db'.live[x.key] # x.completion
    <3>1. PICK b \in rows : b.key = x.key /\ db'.live[x.key] = b.completion
      BY <1>3, <2>1, <2>3
    <3>2. b \in db.archive
      BY <1>3
    <3>3. CASE x \in db.archive
      BY <1>3, <3>1, <3>2, <3>3 DEF IInv, LiveOrArchivedOnce
    <3>4. CASE HasRecord(db, x.key) /\ x.completion = db.live[x.key]
      BY <3>1, <3>2, <3>4 DEF IInv, LiveOrArchivedOnce
    <3>5. QED BY <1>3, <3>3, <3>4
  <2>4. ASSUME NEW x \in db.archive, NEW y \in db'.archive, y \notin db.archive, x.key = y.key
        PROVE  x.completion.date # y.completion.date
    BY <1>3, <2>4, LiveDatesUnarchived
  <2>5. ASSUME NEW x \in db'.archive, NEW y \in db'.archive, x.key = y.key,
               x \notin db.archive, y \notin db.archive
        PROVE  x = y
    BY <1>3, <2>1, <2>5 DEF Removed
  <2>6. QED BY <2>2, <2>3, <2>4, <2>5 DEF IInv, LiveOrArchivedOnce
<1>9. QED BY <1>5, <1>6, <1>7, <1>8 DEF IInv

LEMMA AddSeasonInv ==
  ASSUME IInv, AddSeason
  PROVE  IInv'
<1>1. db' = db /\ date' = date /\ season \subseteq season'
  BY DEF AddSeason
<1>2. RepositoryTypeOK'
  <2>1. lastSeason \in 1..MaxSeason /\ lastSeason < MaxSeason /\ lastSeason' = lastSeason + 1
    BY DEF IInv, RepositoryTypeOK, AddSeason, Season
  <2>2. lastSeason' \in Season /\ season' \in SUBSET (1..lastSeason')
    BY <2>1 DEF IInv, RepositoryTypeOK, AddSeason, Season
  <2>3. QED BY <1>1, <2>2 DEF IInv, RepositoryTypeOK
<1>3. Stored(db') = Stored(db)
  BY <1>1
<1>4. QED BY <1>1, <1>2, <1>3, StoredShrinks DEF IInv, NoOrphans, LiveOrArchivedOnce

LEMMA DeleteSeasonInv ==
  ASSUME IInv, NEW s \in season, DeleteSeason(s)
  PROVE  IInv'
<1>1. db \in Database /\ s \in Season
  BY DEF IInv, RepositoryTypeOK, Season
<1>2. /\ s # Default /\ db' = PurgeSeason(db, s) /\ season' = season \ {s}
      /\ UNCHANGED <<lastSeason, date>>
  BY DEF DeleteSeason
<1>3. /\ db' \in Database
      /\ \A k \in Key : db'.live[k] = IF k.season = s THEN NoRecord ELSE db.live[k]
      /\ db'.archive = {a \in db.archive : a.key.season # s}
  BY <1>1, <1>2, PurgeTables
<1>4. \A x \in Stored(db') : x \in Stored(db) /\ x.key.season # s
  BY <1>1, <1>2, PurgeStored
<1>5. RepositoryTypeOK'
  BY <1>2, <1>3 DEF IInv, RepositoryTypeOK
<1>6. DatesPast' /\ DateIdentifiesCompletion'
  BY <1>2, <1>4, StoredShrinks
<1>7. NoOrphans'
  BY <1>2, <1>4 DEF IInv, NoOrphans
<1>8. LiveOrArchivedOnce'
  <2>1. \A a \in db'.archive : a \in db.archive /\ a.key \in Key /\ db'.live[a.key] = db.live[a.key]
    BY <1>1, <1>3 DEF Database, Removed
  <2>2. QED BY <2>1 DEF IInv, LiveOrArchivedOnce
<1>9. QED BY <1>5, <1>6, <1>7, <1>8 DEF IInv

LEMMA StepInv == IInv /\ [RepositoryNext]_repositoryVars => IInv'
<1> SUFFICES ASSUME IInv, [RepositoryNext]_repositoryVars PROVE IInv'
  OBVIOUS
<1>1. CASE UNCHANGED repositoryVars
  BY <1>1 DEF repositoryVars, IInv, RepositoryTypeOK, DatesPast, DateIdentifiesCompletion,
              NoOrphans, LiveOrArchivedOnce
<1>2. ASSUME NEW active \in SUBSET season, NEW u \in User, NEW r \in Run, NEW t \in 1..MaxTime,
             Complete(active, u, r, t)
      PROVE  IInv'
  BY <1>2, CompleteInv
<1>3. ASSUME NEW target \in season \cup {AnySeason}, NEW u \in User, NEW by \in User, NEW r \in Run,
             Remove(target, u, r, by)
      PROVE  IInv'
  BY <1>3, RemoveInv
<1>4. ASSUME NEW a \in db.archive, NEW caller \in User, NEW admin \in BOOLEAN, NEW force \in BOOLEAN,
             Restore(a, caller, admin, force)
      PROVE  IInv'
  BY <1>4, RestoreInv
<1>5. CASE AddSeason
  BY <1>5, AddSeasonInv
<1>6. ASSUME NEW s \in season, DeleteSeason(s) PROVE IInv'
  BY <1>6, DeleteSeasonInv
<1>7. QED BY <1>1, <1>2, <1>3, <1>4, <1>5, <1>6 DEF RepositoryNext

LEMMA Invariance == RepositorySpec => []IInv
  BY InitInv, StepInv, PTL DEF RepositorySpec

-----------------------------------------------------------------------------
(* The theorems.                                                           *)

\* The tables, the season list and the counters keep their types, and the overall
\* season, which deleteSeason refuses to delete, always exists.
THEOREM TypeCorrect == RepositorySpec => []RepositoryTypeOK
<1>1. IInv => RepositoryTypeOK
  BY DEF IInv
<1>2. QED BY <1>1, Invariance, PTL

\* Every season copy of a completion is live or archived, never both and never
\* archived twice, whatever the order of completions, removals and restorations.
THEOREM CopiesAreUnique == RepositorySpec => []LiveOrArchivedOnce
<1>1. IInv => LiveOrArchivedOnce
  BY DEF IInv
<1>2. QED BY <1>1, Invariance, PTL

\* The record_date that removeRecord and restoreRecord cascade over selects copies
\* of one completion of one user.
THEOREM DatesAreIdentities == RepositorySpec => []DateIdentifiesCompletion
<1>1. IInv => DateIdentifiesCompletion
  BY DEF IInv
<1>2. QED BY <1>1, Invariance, PTL

\* deleteSeason leaves nothing behind that a restoration could bring back into a
\* season that no longer exists.
THEOREM SeasonsOwnTheirRows == RepositorySpec => []NoOrphans
<1>1. IInv => NoOrphans
  BY DEF IInv
<1>2. QED BY <1>1, Invariance, PTL

\* What a step may do to a live record: archive it, better it, or purge its season.
LEMMA StepKeepsRecords ==
  ASSUME IInv, [RepositoryNext]_repositoryVars, NEW k \in Key,
         HasRecord(db, k), db'.live[k] # db.live[k]
  PROVE  \/ \E a \in db'.archive : a.key = k /\ a.completion = db.live[k]
         \/ HasRecord(db', k) /\ db'.live[k].time < db.live[k].time
         \/ k.season \notin season'
<1> DEFINE Kept == \/ \E a \in db'.archive : a.key = k /\ a.completion = db.live[k]
                   \/ HasRecord(db', k) /\ db'.live[k].time < db.live[k].time
                   \/ k.season \notin season'
<1>1. db \in Database /\ season \in SUBSET Season
  BY DEF IInv, RepositoryTypeOK, Season
<1>2. CASE UNCHANGED repositoryVars
  BY <1>2 DEF repositoryVars
<1>3. ASSUME NEW active \in SUBSET season, NEW u \in User, NEW r \in Run, NEW t \in 1..MaxTime,
             Complete(active, u, r, t)
      PROVE  Kept
  <2> DEFINE c == [time |-> t, date |-> date + 1]
             after == RecordCompletion(db, active, u, r, c)
  <2>1. c \in Completion /\ active \in SUBSET Season
    BY <1>1, <1>3 DEF IInv, RepositoryTypeOK, Complete, Completion
  <2>2. db' = after
    BY <1>3 DEF Complete
  <2> HIDE DEF c
  <2>3. \/ after.live[k] = db.live[k]
        \/ after.live[k] = c /\ IsNewRecord(db, k, c)
    BY <1>1, <2>1, RecordCompletionType
  <2> HIDE DEF after
  <2>4. db'.live[k] = c /\ IsNewRecord(db, k, c)
    BY <2>2, <2>3
  <2>5. QED BY <2>1, <2>4 DEF IsNewRecord, HasRecord
<1>4. ASSUME NEW target, NEW u \in User, NEW by \in User, NEW r \in Run,
             Remove(target, u, r, by)
      PROVE  Kept
  <2> DEFINE rows == RemovedRows(db, target, u, r)
  <2>1. db' = Archive(db, rows, by)
    BY <1>4 DEF Remove, RemoveRecord
  <2> HIDE DEF rows
  <2>2. k \in rows
    BY <2>1 DEF Archive
  <2>3. [key |-> k, completion |-> db.live[k], by |-> by] \in db'.archive
    BY <2>1, <2>2 DEF Archive
  <2>4. QED BY <2>3
<1>5. ASSUME NEW a \in db.archive, NEW caller \in User, NEW admin \in BOOLEAN, NEW force \in BOOLEAN,
             Restore(a, caller, admin, force)
      PROVE  Kept
  <2> DEFINE rows == Restorable(db, a, caller, admin)
  <2>1. db' = RestoreRecord(db, a, caller, admin)
    BY <1>5 DEF Restore
  <2>2. /\ rows \subseteq db.archive
        /\ (\A b \in rows : b.key # k) => db'.live[k] = db.live[k]
        /\ (\E b \in rows : b.key = k) =>
             \/ [key |-> k, completion |-> db.live[k], by |-> caller] \in rows
             \/ [key |-> k, completion |-> db.live[k], by |-> caller] \in db'.archive
    BY <1>1, <2>1, RestoreTables
  <2> HIDE DEF rows
  <2> DEFINE copy == [key |-> k, completion |-> db.live[k], by |-> caller]
  <2>3. copy \notin db.archive
    BY DEF IInv, LiveOrArchivedOnce
  <2>4. copy \in db'.archive
    BY <2>2, <2>3
  <2>5. QED BY <2>4
<1>6. CASE AddSeason
  BY <1>6 DEF AddSeason
<1>7. ASSUME NEW s \in season, DeleteSeason(s) PROVE Kept
  <2>1. s \in Season
    BY <1>1
  <2>2. db'.live[k] = IF k.season = s THEN NoRecord ELSE db.live[k]
    BY <1>1, <1>7, <2>1, PurgeTables DEF DeleteSeason
  <2>3. QED BY <1>7, <2>2 DEF DeleteSeason
<1>8. QED BY <1>2, <1>3, <1>4, <1>5, <1>6, <1>7 DEF RepositoryNext

\* No operation loses a record: a row changes only into the archive, into a faster
\* completion, or with its whole season.
THEOREM NoRecordIsLost == RepositorySpec => RecordsAreKept
<1>1. IInv /\ [RepositoryNext]_repositoryVars =>
        [\A k \in Key :
            HasRecord(db, k) /\ db'.live[k] # db.live[k] =>
               \/ \E a \in db'.archive : a.key = k /\ a.completion = db.live[k]
               \/ HasRecord(db', k) /\ db'.live[k].time < db.live[k].time
               \/ k.season \notin season']_repositoryVars
  BY StepKeepsRecords
<1>2. QED BY <1>1, Invariance, PTL DEF RepositorySpec, RecordsAreKept

\* A removal can be undone by the one who removed: every row it took comes back
\* when any of the rows it archived is restored, with the admin flag or without.
LEMMA UndoRemoval ==
  ASSUME IInv, NEW target, NEW u \in User, NEW by \in User, NEW r \in Run,
         CanRemove(db, season, target, u, r),
         NEW rows, rows = RemovedRows(db, target, u, r),
         NEW after, after = RemoveRecord(db, target, u, r, by),
         NEW a \in after.archive, a \notin db.archive, NEW admin \in BOOLEAN
  PROVE  /\ Restorable(after, a, by, admin) # {}
         /\ \A k \in rows : RestoreRecord(after, a, by, admin).live[k] = db.live[k]
<1>1. db \in Database /\ season \in SUBSET Season
  BY DEF IInv, RepositoryTypeOK, Season
<1>2. rows \in SUBSET Key /\ \A k \in rows : HasRecord(db, k)
  BY <1>1, RemovedRowsLive
<1>3. \A j, k \in rows : /\ j.user = k.user /\ j.run = k.run
                         /\ db.live[j].date = db.live[k].date
  <2>1. CASE target = AnySeason
    BY <2>1 DEF RemovedRows, RowsOf
  <2>2. CASE target # AnySeason
    BY <2>2 DEF RemovedRows
  <2>3. QED BY <2>1, <2>2
<1>4. after = Archive(db, rows, by)
  BY DEF RemoveRecord
<1>5. after \in Database
  <2>1. Archive(db, rows, by) \in Database
    BY <1>1, <1>2, ArchiveInDatabase
  <2>2. QED BY <1>4, <2>1
<1>6. \A b \in after.archive :
        b \in db.archive \/ (b.key \in rows /\ b.completion = db.live[b.key] /\ b.by = by)
  BY <1>4 DEF Archive
<1>7. \A k \in rows : [key |-> k, completion |-> db.live[k], by |-> by] \in after.archive
  BY <1>4 DEF Archive
<1> DEFINE back == Restorable(after, a, by, admin)
<1>8. \A k \in rows : [key |-> k, completion |-> db.live[k], by |-> by] \in back
  BY <1>3, <1>6, <1>7 DEF Restorable, ArchivedCopies
<1>9. \A b \in back : b \in after.archive /\ b.completion.date = a.completion.date
  BY DEF Restorable, ArchivedCopies
<1>10. back # {}
  BY <1>6, <1>8
<1>11. ASSUME NEW k \in rows, NEW b \in back, b.key = k
       PROVE  b.completion = db.live[k]
  <2>1. k \in Key /\ HasRecord(db, k) /\ a.completion.date = db.live[k].date
    BY <1>2, <1>3, <1>6
  <2>2. b.completion.date = db.live[k].date
    BY <1>9, <2>1
  <2>3. b \notin db.archive
    BY <1>11, <2>1, <2>2, LiveDatesUnarchived
  <2>4. QED BY <1>6, <1>9, <1>11, <2>3
<1>12. \A k \in Key : (\E b \in back : b.key = k) =>
                        \E b \in back : b.key = k
                           /\ RestoreRecord(after, a, by, admin).live[k] = b.completion
  BY <1>5, RestoreTables
<1> HIDE DEF back
<1>13. ASSUME NEW k \in rows
       PROVE  RestoreRecord(after, a, by, admin).live[k] = db.live[k]
  <2>1. \E b \in back : b.key = k
    BY <1>8
  <2>2. PICK b \in back : b.key = k /\ RestoreRecord(after, a, by, admin).live[k] = b.completion
    BY <1>2, <1>12, <2>1
  <2>3. QED BY <1>11, <2>2
<1>14. QED BY <1>10, <1>13 DEF back

\* In every reachable database a removal can be undone.
THEOREM RemovalsAreReversible == RepositorySpec => []RemovalCanBeUndone
<1>1. IInv => RemovalCanBeUndone
  <2> SUFFICES ASSUME IInv, NEW target \in season \cup {AnySeason}, NEW u \in User, NEW by \in User,
                      NEW r \in Run, CanRemove(db, season, target, u, r), NEW admin \in BOOLEAN
               PROVE  \A a \in RemoveRecord(db, target, u, r, by).archive \ db.archive :
                         /\ Restorable(RemoveRecord(db, target, u, r, by), a, by, admin) # {}
                         /\ \A k \in RemovedRows(db, target, u, r) :
                              RestoreRecord(RemoveRecord(db, target, u, r, by), a, by, admin).live[k]
                                 = db.live[k]
    BY DEF RemovalCanBeUndone
  <2> DEFINE after == RemoveRecord(db, target, u, r, by)
             rows == RemovedRows(db, target, u, r)
  <2>1. ASSUME NEW a \in after.archive, a \notin db.archive
        PROVE  /\ Restorable(after, a, by, admin) # {}
               /\ \A k \in rows : RestoreRecord(after, a, by, admin).live[k] = db.live[k]
    BY <2>1, UndoRemoval
  <2> HIDE DEF after, rows
  <2>2. \A a \in after.archive \ db.archive :
           /\ Restorable(after, a, by, admin) # {}
           /\ \A k \in rows : RestoreRecord(after, a, by, admin).live[k] = db.live[k]
    BY <2>1
  <2>3. QED BY <2>2 DEF after, rows
<1>2. QED BY <1>1, Invariance, PTL
=============================================================================
