---------------------------- MODULE TimerunSegments ----------------------------
(***************************************************************************)
(* The best segments TimerunRepository derives from the records of         *)
(* TimerunRepository.tla.  A run with checkpoints is a row of segments;    *)
(* player_best_segments holds the fastest split of every player,           *)
(* best_segments the fastest of all, removed_segments what an              *)
(* administrator took out.  Both tables follow every completion, removal   *)
(* and restoration incrementally, and are seeded from record_history when  *)
(* a game starts on an empty table.                                        *)
(*                                                                         *)
(* The progression in player_best_segments_history and the caches of the   *)
(* connected players are left out.                                         *)
(***************************************************************************)
EXTENDS TimerunRepository, Sequences, Functions

CONSTANTS
    MaxSegment,  \* segments of a run, the finish being the last one
    MaxSplit,    \* bound on the time of a segment
    NoSplit      \* the absence of a row

ASSUME SegmentAssumption == MaxSegment \in Nat \ {0} /\ MaxSplit \in Nat

VARIABLES
    segments,    \* [personal, global, removed]: the three segment tables
    history,     \* table record_history
    splits       \* the checkpoints of each completion, by record_date

segmentVars == <<repositoryVars, segments, history, splits>>

Segment == 1..MaxSegment

\* computeSegmentTimes: 0 is a leg that could not be measured.
Splits == [Segment -> 0..MaxSplit]
RunTime(sp) == FoldFunction(+, 0, sp)

\* The primary keys of player_best_segments and best_segments.
Leg == Key \X Segment
Board == Season \X Run \X Segment
BoardOf(leg) == <<leg[1].season, leg[1].run, leg[2]>>

Split == [time : 1..MaxSplit, date : 1..MaxDate]
GlobalSplit == [time : 1..MaxSplit, date : 1..MaxDate, user : User]
RemovedSplit == [leg : Leg, split : Split, by : User]

ASSUME NoSplitAssumption == NoSplit \notin Split \cup GlobalSplit

SegmentTables ==
    [personal : [Leg -> Split \cup {NoSplit}],
     global   : [Board -> GlobalSplit \cup {NoSplit}],
     removed  : SUBSET RemovedSplit]

SegmentsInit ==
    /\ RepositoryInit
    /\ segments = [personal |-> [l \in Leg |-> NoSplit], global |-> [b \in Board |-> NoSplit],
                   removed |-> {}]
    /\ history = {}
    /\ splits = <<>>

\* A lower time wins, then the earlier date.  Dates are distinct, so the lower
\* user id never has to decide.
Beats(x, y) == y = NoSplit \/ x.time < y.time \/ (x.time = y.time /\ x.date < y.date)

\* The best row of a set, NoSplit if there is none.
BestOf(rows) == IF rows = {} THEN NoSplit ELSE CHOOSE x \in rows : \A y \in rows : x = y \/ Beats(x, y)

\* The rows of player_best_segments that compete on a board.
RowsOn(personal, b) ==
    {[time |-> personal[l].time, date |-> personal[l].date, user |-> l[1].user] :
        l \in {x \in Leg : BoardOf(x) = b /\ personal[x] # NoSplit}}

-----------------------------------------------------------------------------
(* The building blocks.  Seasons never share a row, so what the code does  *)
(* season by season happens to all of them at once here.                   *)

\* The split a copy [key, completion] of a run offers for a leg of its player.
SplitOf(sp, copy, i) == [time |-> sp[copy.completion.date][i], date |-> copy.completion.date]

\* Mutants of Offered: unmeasured legs count, and removed ones come back.
OfferedUnmeasured(sp, t, copies, skipRemoved) == copies \X Segment
OfferedRemoved(sp, t, copies, skipRemoved) ==
    {o \in copies \X Segment : sp[o[1].completion.date][o[2]] > 0}

\* The legs a run may improve: measured, and on a restoration not removed.
Offered(sp, t, copies, skipRemoved) ==
    {o \in copies \X Segment :
        /\ sp[o[1].completion.date][o[2]] > 0
        /\ skipRemoved => ~\E x \in t.removed : /\ x.leg = <<o[1].key, o[2]>>
                                                /\ x.split.date = o[1].completion.date}

\* Mutant of ApplyBestSegments: the upserts overwrite whatever is stored.
OverwriteBestSegments(sp, t, copies, skipRemoved) ==
    LET offer == Offered(sp, t, copies, skipRemoved)
        rows(l) == {SplitOf(sp, o[1], o[2]) : o \in {p \in offer : <<p[1].key, p[2]>> = l}}
        boards(b) == {[time |-> SplitOf(sp, o[1], o[2]).time, date |-> o[1].completion.date,
                       user |-> o[1].key.user] :
                         o \in {p \in offer : BoardOf(<<p[1].key, p[2]>>) = b}}
    IN  [t EXCEPT !.personal = [l \in Leg |-> IF rows(l) = {} THEN @[l] ELSE BestOf(rows(l))],
                  !.global = [b \in Board |-> IF boards(b) = {} THEN @[b] ELSE BestOf(boards(b))]]

\* applyBestSegments upserts a row of each table only if it improves it.
ApplyBestSegments(sp, t, copies, skipRemoved) ==
    LET offer == Offered(sp, t, copies, skipRemoved)
        rows(l) == {SplitOf(sp, o[1], o[2]) : o \in {p \in offer : <<p[1].key, p[2]>> = l}}
        boards(b) == {[time |-> SplitOf(sp, o[1], o[2]).time, date |-> o[1].completion.date,
                       user |-> o[1].key.user] :
                         o \in {p \in offer : BoardOf(<<p[1].key, p[2]>>) = b}}
        known(x) == {x} \ {NoSplit}
    IN  [t EXCEPT !.personal = [l \in Leg |-> BestOf(rows(l) \cup known(@[l]))],
                  !.global = [b \in Board |-> BestOf(boards(b) \cup known(@[b]))]]

\* The legs whose personal row comes from one of the runs.
HeldBy(t, copies) ==
    {l \in Leg : /\ t.personal[l] # NoSplit
                 /\ \E x \in copies : x.key = l[1] /\ x.completion.date = t.personal[l].date}

Clear(t, legs) == [t EXCEPT !.personal = [l \in Leg |-> IF l \in legs THEN NoSplit ELSE @[l]]]

\* voidBestSegments deletes the personal rows the runs hold; the global rows are
\* re-derived afterwards.
VoidBestSegments(t, copies) == Clear(t, HeldBy(t, copies))

\* Mutant of RecomputeSegments: the global row is only deleted.
DropGlobalSegments(t, legs) ==
    [t EXCEPT !.global = [b \in Board |-> IF \E l \in legs : BoardOf(l) = b THEN NoSplit ELSE @[b]]]

\* recomputeAffectedSegments: the global row is the best surviving personal one.
RecomputeSegments(t, legs) ==
    [t EXCEPT !.global = [b \in Board |-> IF \E l \in legs : BoardOf(l) = b
                                          THEN BestOf(RowsOn(t.personal, b))
                                          ELSE @[b]]]

\* Rows of player_best_segments go to removed_segments.
ArchiveSegments(t, legs, by) ==
    [Clear(t, legs) EXCEPT
        !.removed = @ \cup {[leg |-> l, split |-> t.personal[l], by |-> by] : l \in legs}]

-----------------------------------------------------------------------------
(* The transactions of records, with what they do to the segments.         *)

\* recordCompletion: every completion feeds the segments, a new record or not.
CompleteRun(active, u, r, sp) ==
    LET c == [time |-> RunTime(sp), date |-> date + 1]
        copies(seasons) == {[key |-> Row(s, u, r), completion |-> c] : s \in seasons}
    IN  /\ c.time \in 1..MaxTime
        /\ Complete(active, u, r, c.time)
        /\ splits' = Append(splits, sp)
        /\ history' = history \cup copies(NewRecordSeasons(db, active, u, r, c))
        /\ segments' = ApplyBestSegments(splits', segments, copies(active), FALSE)

\* removeRecord voids the splits of the removed copies.
RemoveRun(target, u, r, by) ==
    LET copies == {[key |-> k, completion |-> db.live[k]] : k \in RemovedRows(db, target, u, r)}
    IN  /\ Remove(target, u, r, by)
        /\ segments' = RecomputeSegments(VoidBestSegments(segments, copies), HeldBy(segments, copies))
        /\ UNCHANGED <<history, splits>>

\* restoreRecord voids the splits of the records in the way, then lets the
\* restored copies compete again, without the splits removed on their own.
RestoreRun(a, caller, admin, force) ==
    LET rows == Restorable(db, a, caller, admin)
        freed == {[key |-> k, completion |-> db.live[k]] : k \in Conflicts(db, rows)}
    IN  /\ Restore(a, caller, admin, force)
        /\ segments' = RecomputeSegments(
               ApplyBestSegments(splits, VoidBestSegments(segments, freed), rows, TRUE),
               HeldBy(segments, freed))
        /\ UNCHANGED <<history, splits>>

AddSegmentSeason == AddSeason /\ UNCHANGED <<segments, history, splits>>

\* deleteSeason purges the segment tables and the history as well.
PurgeSegments(s) ==
    /\ DeleteSeason(s)
    /\ segments' = [personal |-> [l \in Leg |-> IF l[1].season = s THEN NoSplit
                                                ELSE segments.personal[l]],
                    global   |-> [b \in Board |-> IF b[1] = s THEN NoSplit ELSE segments.global[b]],
                    removed  |-> {x \in segments.removed : x.leg[1].season # s}]
    /\ history' = {h \in history : h.key.season # s}
    /\ UNCHANGED <<splits>>

-----------------------------------------------------------------------------
(* Splits removed and restored on their own.                               *)

\* removeSegment: without a season the overall row names the split, and every
\* season that holds the split of the same run loses it.
RemoveSegment(target, u, r, i, by) ==
    LET base == <<TargetRow(target, u, r), i>>
        legs == IF target # AnySeason THEN {base}
                ELSE {<<k, i>> : k \in {x \in RowsOf(u, r) :
                         /\ segments.personal[<<x, i>>] # NoSplit
                         /\ segments.personal[<<x, i>>].date = segments.personal[base].date}}
    IN  /\ target \in season \cup {AnySeason}
        /\ segments.personal[base] # NoSplit
        /\ segments' = RecomputeSegments(ArchiveSegments(segments, legs, by), legs)
        /\ UNCHANGED <<repositoryVars, history, splits>>

\* A removed split of the overall season stands for its copies in every season.
RemovedCopies(x) ==
    IF x.leg[1].season # Default THEN {x}
    ELSE {y \in segments.removed : /\ y.leg[1].user = x.leg[1].user
                                   /\ y.leg[1].run = x.leg[1].run
                                   /\ y.leg[2] = x.leg[2]
                                   /\ y.split.date = x.split.date}

\* Mutant of IsBlocked: nothing ties a split to its run.
NeverBlocked(x) == FALSE

\* The run the split comes from is itself archived.
IsBlocked(x) ==
    \E a \in db.archive : a.key = x.leg[1] /\ a.completion.date = x.split.date

\* restoreSegment: what the caller may restore goes back, and with force the
\* splits in the way are archived in the name of the caller.
RestoreSegment(x, caller, admin, force) ==
    LET rows == {y \in RemovedCopies(x) : admin \/ y.by = caller}
        legs == {y.leg : y \in rows}
        busy == {l \in legs : segments.personal[l] # NoSplit}
        freed == ArchiveSegments(segments, busy, caller)
        filled == [freed EXCEPT
                      !.personal = [l \in Leg |-> IF l \in legs
                                                  THEN (CHOOSE y \in rows : y.leg = l).split
                                                  ELSE @[l]],
                      !.removed = @ \ rows]
    IN  /\ x \in segments.removed
        /\ rows # {}
        /\ ~\E y \in rows : IsBlocked(y)
        /\ force \/ busy = {}
        /\ segments' = RecomputeSegments(filled, legs)
        /\ UNCHANGED <<repositoryVars, history, splits>>

\* seedBestSegments, when a game starts: an empty table is filled from the
\* history, without removed runs and removed splits.
Restart ==
    LET kept == {h \in history : ~\E a \in db.archive :
                    a.key = h.key /\ a.completion.date = h.completion.date}
        fresh == ApplyBestSegments(splits, segments, kept, TRUE)
    IN  /\ \A l \in Leg : segments.personal[l] = NoSplit
        /\ segments' = RecomputeSegments(fresh, Leg)
        /\ UNCHANGED <<repositoryVars, history, splits>>

-----------------------------------------------------------------------------
SegmentsNext ==
    \/ \E active \in {a \in SUBSET season : Default \in a}, u \in User, r \in Run, sp \in Splits :
          CompleteRun(active, u, r, sp)
    \/ \E target \in season \cup {AnySeason}, u, by \in User, r \in Run :
          RemoveRun(target, u, r, by)
    \/ \E a \in db.archive, caller \in User, admin, force \in BOOLEAN :
          RestoreRun(a, caller, admin, force)
    \/ AddSegmentSeason
    \/ \E s \in season : PurgeSegments(s)
    \/ \E target \in season \cup {AnySeason}, u, by \in User, r \in Run, i \in Segment :
          RemoveSegment(target, u, r, i, by)
    \/ \E x \in segments.removed, caller \in User, admin, force \in BOOLEAN :
          RestoreSegment(x, caller, admin, force)
    \/ Restart

SegmentsSpec == SegmentsInit /\ [][SegmentsNext]_segmentVars

-----------------------------------------------------------------------------
(* Properties.                                                             *)

SegmentsTypeOK ==
    /\ segments \in SegmentTables
    /\ \A h \in history : h.key \in Key /\ h.completion \in Completion
    /\ splits \in Seq(Splits) /\ Len(splits) = date

\* "The global best is a materialised min over the per-player bests": the upserts,
\* voids and partial recomputations of every operation leave it exactly that.
GlobalIsBestPersonal == \A b \in Board : segments.global[b] = BestOf(RowsOn(segments.personal, b))

\* "Removed runs and removed splits never contribute": no order of removing and
\* restoring records and segments lets a personal row come from an archived run
\* or from a split that was removed on its own.
RemovedNeverCounts ==
    \A l \in Leg :
       segments.personal[l] # NoSplit =>
          /\ ~\E a \in db.archive : a.key = l[1] /\ a.completion.date = segments.personal[l].date
          /\ ~\E x \in segments.removed : x.leg = l /\ x.split.date = segments.personal[l].date

\* Every personal and every removed split carries the time that the run its date names
\* had on that leg, through seeds, archives and restorations; and no two removed rows are
\* of one leg and one run, so archiving never hits the unique index over the identity of
\* a split.
SplitsAreTraceable ==
    /\ \A l \in Leg : segments.personal[l] # NoSplit =>
          segments.personal[l].time = splits[segments.personal[l].date][l[2]]
    /\ \A x \in segments.removed : x.split.time = splits[x.split.date][x.leg[2]]
    /\ \A x, y \in segments.removed :
          x.leg = y.leg /\ x.split.date = y.split.date => x = y

\* A split gives way only to a better one, unless it was removed itself or its run was:
\* no completion, restoration or seed replaces the best time of a leg by a worse one.
SplitsOnlyImprove ==
    [][\A l \in Leg :
          LET old == segments.personal[l]
              new == segments'.personal[l]
          IN  old # NoSplit /\ new # NoSplit =>
                 \/ new = old \/ Beats(new, old)
                 \/ \E x \in segments'.removed : x.leg = l /\ x.split = old
                 \/ \E a \in db'.archive : a.key = l[1] /\ a.completion.date = old.date]_segmentVars
=============================================================================
