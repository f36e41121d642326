---------------------------- MODULE TimerunV2_proof ----------------------------
(***************************************************************************)
(* TimerunV2 for any users, slots, runs and bounds: the database changes   *)
(* by transactions of the repository only, every variable has its type,    *)
(* and, when clients are orderly, a player object is that of the client of *)
(* its slot and agrees with its session flag.                              *)
(***************************************************************************)
EXTENDS TimerunV2, TimerunRepository_proof, FiniteSetTheorems, WellFoundedInduction

-----------------------------------------------------------------------------
(* Tasks and what they leave for their callbacks.                          *)

Task ==
    [kind : {"connect"}, slot : Slot, user : User]
    \cup [kind : {"check"}, user : User, run : Run, time : 1..MaxTime]
    \cup [kind : {"remove"}, target : Season \cup {AnySeason}, user : User, run : Run, by : User]
    \cup {t \in [kind : {"restore"}, row : Removed, user : User, caller : User,
                 admin : BOOLEAN, force : BOOLEAN] : t.user = t.row.key.user}
    \cup [kind : {"addSeason", "editSeason", "deleteSeason"}, season : Season]

\* Rows of a cache; a season command leaves none.
Patch == {<<>>} \cup UNION {[ks -> Completion \cup {NoRecord}] : ks \in SUBSET CacheKey}

Outcome ==
    {o \in [task : Task, ok : {TRUE}, patch : Patch, top : BOOLEAN] :
        o.task.kind = "connect" => o.patch \in Cache}
    \cup [task : Task, ok : {FALSE}]

\* A task and an outcome have what their kind says.
LEMMA TaskFields ==
    ASSUME NEW t \in Task
    PROVE  /\ t.kind \in {"connect", "check", "remove", "restore",
                          "addSeason", "editSeason", "deleteSeason"}
           /\ t.kind = "connect" => t.slot \in Slot /\ t.user \in User
           /\ t.kind = "check" => t.user \in User /\ t.run \in Run /\ t.time \in 1..MaxTime
           /\ t.kind = "remove" => t.user \in User /\ t.run \in Run /\ t.by \in User
           /\ t.kind = "restore" => /\ t.row \in Removed /\ t.user \in User /\ t.caller \in User
                                    /\ t.user = t.row.key.user
                                    /\ t.admin \in BOOLEAN /\ t.force \in BOOLEAN
           /\ t.kind \in {"addSeason", "editSeason", "deleteSeason"} => t.season \in Season
  BY DEF Task

LEMMA OutcomeFields ==
    ASSUME NEW o \in Outcome
    PROVE  /\ o.task \in Task
           /\ o.ok => /\ o.patch \in Patch /\ o.top \in BOOLEAN
                      /\ o.task.kind = "connect" => o.patch \in Cache
  BY DEF Outcome

\* The least of a set of numbers.
LEMMA LeastExists ==
    ASSUME NEW S, S \subseteq Nat, S # {}
    PROVE  \E x \in S : \A y \in S : x <= y
  <1>1. IsWellFoundedOn(OpToRel(<, Nat), Nat)
    BY NatLessThanWellFounded
  <1>2. PICK x \in S : \A y \in S : ~(<<y, x>> \in OpToRel(<, Nat))
    BY <1>1, WFMin
  <1>3. \A y \in S : ~(y < x)
    BY <1>2 DEF OpToRel
  <1> QED BY <1>3

-----------------------------------------------------------------------------
(* The two queues seen as one: what has run, then what has not.            *)

QueueType == incomplete \in Seq(Task) /\ completed \in Seq(Outcome)

QueueLength == Len(completed) + Len(incomplete)

QueuedTask(i) ==
    IF i <= Len(completed) THEN completed[i].task ELSE incomplete[i - Len(completed)]

\* postTask adds a task behind the others.
LEMMA PostQueue ==
    ASSUME QueueType, NEW STATE t, t \in Task, Post(t)
    PROVE  /\ QueueType' /\ QueueLength' = QueueLength + 1
           /\ QueuedTask(QueueLength)' = t
           /\ \A i \in 1..QueueLength : QueuedTask(i)' = QueuedTask(i)
           /\ completed' = completed
  <1>1. incomplete' = Append(incomplete, t) /\ completed' = completed
    BY DEF Post
  <1>2. /\ incomplete' \in Seq(Task) /\ Len(incomplete') = Len(incomplete) + 1
        /\ incomplete'[Len(incomplete) + 1] = t
        /\ \A i \in 1..Len(incomplete) : incomplete'[i] = incomplete[i]
    BY <1>1 DEF QueueType
  <1>3. Len(incomplete) \in Nat /\ Len(completed) \in Nat
    BY DEF QueueType
  <1>4. QueuedTask(QueueLength)' = t
    <2>1. ~(QueueLength' <= Len(completed')) /\ QueueLength' - Len(completed') = Len(incomplete) + 1
      BY <1>1, <1>2, <1>3 DEF QueueLength
    <2> QED BY <1>2, <2>1 DEF QueuedTask
  <1>5. ASSUME NEW i \in 1..QueueLength
        PROVE  QueuedTask(i)' = QueuedTask(i)
    <2>1. CASE i <= Len(completed)
      BY <1>1, <2>1 DEF QueuedTask
    <2>2. CASE ~(i <= Len(completed))
      <3>1. i - Len(completed) \in 1..Len(incomplete)
        BY <1>3, <2>2 DEF QueueLength
      <3> QED BY <1>1, <1>2, <2>2, <3>1 DEF QueuedTask
    <2> QED BY <2>1, <2>2
  <1> QED BY <1>1, <1>2, <1>3, <1>4, <1>5 DEF QueueType, QueueLength

\* The worker moves the first task it has not run, in place.
Moved(o) ==
    /\ incomplete # <<>> /\ o \in Outcome /\ o.task = Head(incomplete)
    /\ incomplete' = Tail(incomplete) /\ completed' = Append(completed, o)

LEMMA WorkQueue ==
    ASSUME QueueType, NEW STATE o, Moved(o)
    PROVE  /\ QueueType' /\ QueueLength' = QueueLength
           /\ \A i \in 1..QueueLength : QueuedTask(i)' = QueuedTask(i)
           /\ Len(completed') = Len(completed) + 1 /\ completed'[Len(completed) + 1] = o
           /\ \A i \in 1..Len(completed) : completed'[i] = completed[i]
  <1>1. /\ incomplete \in Seq(Task) /\ incomplete # <<>> /\ completed \in Seq(Outcome) /\ o \in Outcome
        /\ incomplete' = Tail(incomplete) /\ completed' = Append(completed, o)
        /\ o.task = incomplete[1]
    BY DEF QueueType, Moved
  <1>2. /\ completed' \in Seq(Outcome) /\ Len(completed') = Len(completed) + 1
        /\ completed'[Len(completed) + 1] = o
        /\ \A i \in 1..Len(completed) : completed'[i] = completed[i]
    BY <1>1
  <1>3. /\ incomplete' \in Seq(Task) /\ Len(incomplete') = Len(incomplete) - 1
        /\ \A i \in 1..Len(incomplete') : incomplete'[i] = incomplete[i + 1]
        /\ Len(incomplete) >= 1
    BY <1>1
  <1>4. Len(incomplete) \in Nat /\ Len(completed) \in Nat
    BY <1>1
  <1>5. ASSUME NEW i \in 1..QueueLength
        PROVE  QueuedTask(i)' = QueuedTask(i)
    <2>1. CASE i <= Len(completed)
      BY <1>2, <1>4, <2>1 DEF QueuedTask
    <2>2. CASE i = Len(completed) + 1
      BY <1>1, <1>2, <1>4, <2>2 DEF QueuedTask
    <2>3. CASE i > Len(completed) + 1
      <3>1. /\ ~(i <= Len(completed)) /\ ~(i <= Len(completed'))
            /\ i - Len(completed') \in 1..Len(incomplete')
            /\ (i - Len(completed')) + 1 = i - Len(completed)
        BY <1>2, <1>3, <1>4, <2>3 DEF QueueLength
      <3> QED BY <1>3, <3>1 DEF QueuedTask
    <2> QED BY <1>4, <2>1, <2>2, <2>3
  <1> QED BY <1>2, <1>3, <1>4, <1>5 DEF QueueType, QueueLength

\* The game thread takes the first callback off.
LEMMA PopQueue ==
    ASSUME QueueType, completed # <<>>, PopCompleted
    PROVE  /\ QueueType' /\ QueueLength' = QueueLength - 1 /\ QueueLength >= 1
           /\ \A i \in 1..QueueLength' : QueuedTask(i)' = QueuedTask(i + 1)
           /\ QueuedTask(1) = Head(completed).task /\ Head(completed) \in Outcome
           /\ Head(completed) = completed[1] /\ Len(completed) >= 1
           /\ Len(completed') = Len(completed) - 1
           /\ \A i \in 1..Len(completed') : completed'[i] = completed[i + 1]
  <1>1. /\ incomplete \in Seq(Task) /\ completed \in Seq(Outcome) /\ completed # <<>>
        /\ incomplete' = incomplete /\ completed' = Tail(completed)
    BY DEF QueueType, PopCompleted
  <1>2. /\ completed' \in Seq(Outcome) /\ Len(completed') = Len(completed) - 1
        /\ \A i \in 1..Len(completed') : completed'[i] = completed[i + 1]
        /\ Len(completed) >= 1 /\ Head(completed) = completed[1] /\ Head(completed) \in Outcome
    BY <1>1
  <1>3. Len(incomplete) \in Nat /\ Len(completed) \in Nat
    BY <1>1
  <1>4. QueuedTask(1) = Head(completed).task
    BY <1>2 DEF QueuedTask
  <1>5. ASSUME NEW i \in 1..(QueueLength - 1)
        PROVE  QueuedTask(i)' = QueuedTask(i + 1)
    <2>1. CASE i + 1 <= Len(completed)
      <3>1. i <= Len(completed') /\ i \in 1..Len(completed')
        BY <1>2, <1>3, <2>1
      <3> QED BY <1>2, <2>1, <3>1 DEF QueuedTask
    <2>2. CASE ~(i + 1 <= Len(completed))
      <3>1. ~(i <= Len(completed')) /\ i - Len(completed') = (i + 1) - Len(completed)
        BY <1>2, <1>3, <2>2 DEF QueueLength
      <3> QED BY <1>1, <2>2, <3>1 DEF QueuedTask
    <2> QED BY <2>1, <2>2
  <1>6. QueueLength' = QueueLength - 1 /\ QueueLength >= 1
    BY <1>1, <1>2, <1>3 DEF QueueLength
  <1> QED BY <1>1, <1>2, <1>4, <1>5, <1>6 DEF QueueType

\* A queued task is a task.
LEMMA QueuedType ==
    ASSUME QueueType, NEW i \in 1..QueueLength
    PROVE  QueuedTask(i) \in Task
  <1>1. /\ incomplete \in Seq(Task) /\ completed \in Seq(Outcome)
        /\ Len(incomplete) \in Nat /\ Len(completed) \in Nat
    BY DEF QueueType
  <1>2. CASE i <= Len(completed)
    <2>1. completed[i] \in Outcome
      BY <1>1, <1>2
    <2> QED BY <1>2, <2>1, OutcomeFields DEF QueuedTask
  <1>3. CASE ~(i <= Len(completed))
    <2>1. i - Len(completed) \in 1..Len(incomplete)
      BY <1>1, <1>3 DEF QueueLength
    <2> QED BY <1>1, <1>3, <2>1 DEF QueuedTask
  <1> QED BY <1>2, <1>3

-----------------------------------------------------------------------------
(* What the worker reads for a cache.                                      *)

RowKey(x) == <<x.season, x.run>>

\* The rows of a patch are those of the database, one for each season and run.
LEMMA PatchRows ==
    ASSUME NEW d \in Database, NEW rows, rows \subseteq Key,
           \A x, y \in rows : RowKey(x) = RowKey(y) => x = y
    PROVE  /\ PatchOf(d, rows) \in Patch
           /\ DOMAIN PatchOf(d, rows) = {RowKey(x) : x \in rows}
           /\ DOMAIN PatchOf(d, rows) \subseteq CacheKey
           /\ \A x \in rows : PatchOf(d, rows)[RowKey(x)] = d.live[x]
  <1> DEFINE ks == {RowKey(x) : x \in rows}
             at(k) == CHOOSE x \in rows : <<x.season, x.run>> = k
  <1>1. PatchOf(d, rows) = [k \in ks |-> d.live[at(k)]]
    BY DEF PatchOf, RowKey
  <1>2. ks \subseteq CacheKey
    BY DEF Key, CacheKey, RowKey
  <1>3. \A x \in rows : at(RowKey(x)) = x
    BY DEF RowKey
  <1>4. \A k \in ks : d.live[at(k)] \in Completion \cup {NoRecord}
    <2> TAKE k \in ks
    <2>1. PICK x \in rows : k = RowKey(x)
      OBVIOUS
    <2>2. at(k) \in Key
      BY <1>3, <2>1
    <2> HIDE DEF at
    <2> QED BY <2>2 DEF Database
  <1> HIDE DEF ks, at
  <1>5. PatchOf(d, rows) \in [ks -> Completion \cup {NoRecord}]
    BY <1>1, <1>4
  <1>6. PatchOf(d, rows) \in Patch
    BY <1>2, <1>5 DEF Patch
  <1>7. \A x \in rows : PatchOf(d, rows)[RowKey(x)] = d.live[x]
    BY <1>1, <1>3 DEF ks
  <1>8. DOMAIN PatchOf(d, rows) = ks
    BY <1>1
  <1> QED BY <1>2, <1>6, <1>7, <1>8 DEF ks

\* A patch replaces rows of a cache by rows.
LEMMA PatchedType ==
    ASSUME NEW cache \in Cache, NEW patch \in Patch
    PROVE  Patched(cache, patch) \in Cache
  <1>1. \A k \in DOMAIN patch : patch[k] \in Completion \cup {NoRecord}
    BY DEF Patch
  <1> QED BY <1>1 DEF Patched, Cache

\* The rows of one user.
OneUser(rows, u) == rows \subseteq Key /\ \A x \in rows : x.user = u

LEMMA OneUserRows ==
    ASSUME NEW rows, NEW u, OneUser(rows, u)
    PROVE  rows \subseteq Key /\ \A x, y \in rows : RowKey(x) = RowKey(y) => x = y
  BY DEF OneUser, Key, RowKey

TypeInv == TimerunTypeOK /\ QueueType /\ Default \in active

\* The active seasons exist.
LEMMA ActiveSeasons ==
    ASSUME TypeInv
    PROVE  /\ db \in Database /\ season \subseteq Season /\ active \subseteq season
           /\ active \subseteq Season /\ Default \in active /\ Default \in Season
  <1>1. /\ db \in Database /\ active \subseteq season /\ Default \in active
        /\ season \subseteq 1..lastSeason /\ lastSeason \in 1..MaxSeason
    BY DEF TypeInv, TimerunTypeOK, RepositoryTypeOK, Season
  <1>2. 1..lastSeason \subseteq 1..MaxSeason
    BY <1>1, BoundAssumption
  <1> QED BY <1>1, <1>2 DEF Season

\* What a task that succeeds leaves, and what it may do to the database.
LEMMA ConnectTaskRuns ==
    ASSUME TypeInv, RunConnect
    PROVE  LET t == Head(incomplete)
               patch == Patched(NoRecords, PatchOf(db, {Row(s, t.user, r) : s \in active, r \in Run}))
           IN  /\ Moved([task |-> t, ok |-> TRUE, patch |-> patch, top |-> FALSE])
               /\ t.user \in User /\ patch \in Cache
               /\ \A r \in Run : patch[<<Default, r>>] = db.live[Row(Default, t.user, r)]
  <1> DEFINE t == Head(incomplete)
             rows == {Row(s, t.user, r) : s \in active, r \in Run}
             patch == Patched(NoRecords, PatchOf(db, rows))
             o == [task |-> t, ok |-> TRUE, patch |-> patch, top |-> FALSE]
  <1>1. /\ incomplete # <<>> /\ t.kind = "connect" /\ t \in Task
        /\ incomplete' = Tail(incomplete) /\ completed' = Append(completed, o)
    BY DEF RunConnect, NextTask, Finish, TypeInv, QueueType
  <1>2. t.user \in User /\ db \in Database /\ active \subseteq Season /\ Default \in active
    BY <1>1, TaskFields, ActiveSeasons
  <1>3. OneUser(rows, t.user)
    BY <1>2, RowType DEF OneUser
  <1> HIDE DEF t, rows
  <1>4. /\ PatchOf(db, rows) \in Patch /\ DOMAIN PatchOf(db, rows) = {RowKey(x) : x \in rows}
        /\ \A x \in rows : PatchOf(db, rows)[RowKey(x)] = db.live[x]
    BY <1>2, <1>3, OneUserRows, PatchRows
  <1>5. NoRecords \in Cache
    BY DEF NoRecords, Cache
  <1>6. patch \in Cache
    BY <1>4, <1>5, PatchedType
  <1>7. ASSUME NEW r \in Run
        PROVE  patch[<<Default, r>>] = db.live[Row(Default, t.user, r)]
    <2>1. Row(Default, t.user, r) \in rows /\ RowKey(Row(Default, t.user, r)) = <<Default, r>>
      BY <1>2 DEF rows, Row, RowKey
    <2>2. <<Default, r>> \in CacheKey
      BY <1>2 DEF CacheKey
    <2> QED BY <1>4, <2>1, <2>2 DEF Patched
  <1>8. o \in Outcome
    <2>1. Cache \subseteq Patch
      BY DEF Cache, Patch
    <2> QED BY <1>1, <1>6, <2>1 DEF Outcome
  <1> HIDE DEF patch
  <1>9. Moved(o)
    BY <1>1, <1>8 DEF Moved, t
  <1> QED BY <1>2, <1>6, <1>7, <1>9 DEF t, rows, patch

\* An outcome writes row k into the cache of user v, and what it writes is stored.
Writes(o, v, k) ==
    /\ o.ok /\ o.task.kind \in {"connect", "check", "remove", "restore"}
    /\ o.task.user = v /\ k \in DOMAIN o.patch

Follows(o) ==
    \A v \in User, r \in Run :
       IF Writes(o, v, <<Default, r>>)
       THEN o.patch[<<Default, r>>] = db'.live[Row(Default, v, r)]
       ELSE db'.live[Row(Default, v, r)] = db.live[Row(Default, v, r)]

\* A task that hands over the rows of a user it may have changed follows the database.
LEMMA PatchFollows ==
    ASSUME TypeInv, db' \in Database, NEW STATE t, t \in Task,
           t.kind \in {"check", "remove", "restore"}, NEW STATE rows, OneUser(rows, t.user),
           \A k \in Key : k \notin rows => db'.live[k] = db.live[k],
           NEW STATE o, NEW top, top \in BOOLEAN,
           o = [task |-> t, ok |-> TRUE, patch |-> PatchOf(db', rows), top |-> top]
    PROVE  o \in Outcome /\ Follows(o)
  <1>1. /\ PatchOf(db', rows) \in Patch
        /\ DOMAIN PatchOf(db', rows) = {RowKey(x) : x \in rows}
        /\ \A x \in rows : PatchOf(db', rows)[RowKey(x)] = db'.live[x]
    BY OneUserRows, PatchRows
  <1>2. o \in Outcome
    BY <1>1 DEF Outcome
  <1>3. /\ o.task = t /\ o.ok /\ o.patch = PatchOf(db', rows)
    OBVIOUS
  <1>4. ASSUME NEW v \in User, NEW r \in Run
        PROVE  IF Writes(o, v, <<Default, r>>)
               THEN o.patch[<<Default, r>>] = db'.live[Row(Default, v, r)]
               ELSE db'.live[Row(Default, v, r)] = db.live[Row(Default, v, r)]
    <2> DEFINE k == Row(Default, v, r)
    <2>1. k \in Key /\ k.user = v /\ RowKey(k) = <<Default, r>>
      BY ActiveSeasons DEF Row, RowKey, Key
    <2>2. ASSUME Writes(o, v, <<Default, r>>)
          PROVE  o.patch[<<Default, r>>] = db'.live[k]
      <3>1. t.user = v /\ <<Default, r>> \in DOMAIN PatchOf(db', rows)
        BY <1>3, <2>2 DEF Writes
      <3>2. PICK x \in rows : RowKey(x) = <<Default, r>>
        BY <1>1, <3>1
      <3>3. x = k
        BY <3>1, <3>2 DEF OneUser, Key, RowKey, Row
      <3> HIDE DEF k
      <3> QED BY <1>1, <1>3, <3>2, <3>3
    <2>3. ASSUME ~Writes(o, v, <<Default, r>>)
          PROVE  db'.live[k] = db.live[k]
      <3>1. k \notin rows
        <4> SUFFICES ASSUME k \in rows PROVE FALSE
          OBVIOUS
        <4>1. t.user = v /\ <<Default, r>> \in DOMAIN PatchOf(db', rows)
          <5> HIDE DEF k
          <5> QED BY <1>1, <2>1 DEF OneUser
        <4> QED BY <1>3, <2>3, <4>1 DEF Writes
      <3> QED BY <2>1, <3>1
    <2> QED BY <2>2, <2>3
  <1> QED BY <1>2, <1>4 DEF Follows

\* checkRecord: the rows of the seasons the completion improves.
LEMMA CheckTaskRuns ==
    ASSUME TypeInv, RunCheck
    PROVE  LET t == Head(incomplete)
               c == [time |-> t.time, date |-> date + 1]
               new == NewRecordSeasons(db, active, t.user, t.run, c)
               overall == {db.live[Row(Default, u, t.run)] : u \in User} \ {NoRecord}
               top == Default \in new /\ \A x \in overall : c.time < x.time
               o == [task |-> t, ok |-> TRUE, top |-> top,
                     patch |-> PatchOf(db', {Row(s, t.user, t.run) : s \in new})]
           IN  /\ Moved(o) /\ Follows(o)
               /\ t.kind = "check" /\ t.user \in User /\ t.run \in Run /\ t.time \in 1..MaxTime
               /\ c \in Completion /\ db' = RecordCompletion(db, active, t.user, t.run, c)
  <1> DEFINE t == Head(incomplete)
             c == [time |-> t.time, date |-> date + 1]
             new == NewRecordSeasons(db, active, t.user, t.run, c)
             rows == {Row(s, t.user, t.run) : s \in new}
             overall == {db.live[Row(Default, u, t.run)] : u \in User} \ {NoRecord}
             top == Default \in new /\ \A x \in overall : c.time < x.time
             o == [task |-> t, ok |-> TRUE, patch |-> PatchOf(db', rows), top |-> top]
  <1>1. /\ incomplete # <<>> /\ t.kind = "check" /\ t \in Task
        /\ incomplete' = Tail(incomplete) /\ completed' = Append(completed, o)
    BY DEF RunCheck, NextTask, Finish, TypeInv, QueueType
  <1>2. t.user \in User /\ t.run \in Run /\ t.time \in 1..MaxTime
    BY <1>1, TaskFields
  <1>3. /\ date < MaxDate /\ db' = RecordCompletion(db, active, t.user, t.run, c)
    BY DEF RunCheck, Complete
  <1>4. c \in Completion
    <2>1. date \in 0..MaxDate
      BY DEF TypeInv, TimerunTypeOK, RepositoryTypeOK
    <2> QED BY <1>2, <1>3, <2>1, BoundAssumption DEF Completion
  <1> HIDE DEF c
  <1>5. /\ db' \in Database
        /\ \A k \in Key : \/ db'.live[k] = db.live[k]
                          \/ /\ k.user = t.user /\ k.run = t.run /\ k.season \in active
                             /\ IsNewRecord(db, k, c)
    <2> HIDE DEF t
    <2> QED BY <1>2, <1>3, <1>4, ActiveSeasons, RecordCompletionType
  <1>6. \A k \in Key : k \notin rows => db'.live[k] = db.live[k]
    <2> TAKE k \in Key
    <2>1. k.user = t.user /\ k.run = t.run /\ k.season \in active /\ IsNewRecord(db, k, c) => k \in rows
      <3>1. k.user = t.user /\ k.run = t.run => k = Row(k.season, t.user, t.run)
        BY DEF Key, Row
      <3> HIDE DEF t
      <3> QED BY <3>1 DEF NewRecordSeasons
    <2> QED BY <1>5, <2>1
  <1>7. OneUser(rows, t.user)
    <2>1. new \subseteq Season
      BY ActiveSeasons DEF NewRecordSeasons
    <2> HIDE DEF new, t
    <2> QED BY <1>2, <2>1, RowType DEF OneUser
  <1>8. top \in BOOLEAN
    OBVIOUS
  <1> HIDE DEF t, rows, top
  <1>9. o \in Outcome /\ Follows(o)
    BY <1>1, <1>5, <1>6, <1>7, <1>8, PatchFollows
  <1>10. o.task = t
    OBVIOUS
  <1> HIDE DEF o
  <1>11. Moved(o)
    BY <1>1, <1>9, <1>10 DEF Moved, t
  <1> QED BY <1>1, <1>2, <1>3, <1>4, <1>9, <1>11 DEF t, rows, top, c, o

\* removeRecord: the rows removed, all of one user and run.
LEMMA RemoveTaskRuns ==
    ASSUME TypeInv, RunRemove
    PROVE  LET t == Head(incomplete)
               rows == RemovedRows(db, t.target, t.user, t.run)
               o == [task |-> t, ok |-> TRUE, patch |-> PatchOf(db', rows), top |-> FALSE]
           IN  /\ Moved(o) /\ Follows(o)
               /\ t.kind = "remove" /\ t.user \in User /\ t.run \in Run /\ t.by \in User
               /\ \A k \in Key : k.run # t.run => db'.live[k] = db.live[k]
  <1> DEFINE t == Head(incomplete)
             rows == RemovedRows(db, t.target, t.user, t.run)
             o == [task |-> t, ok |-> TRUE, patch |-> PatchOf(db', rows), top |-> FALSE]
  <1>1. /\ incomplete # <<>> /\ t.kind = "remove" /\ t \in Task
        /\ incomplete' = Tail(incomplete) /\ completed' = Append(completed, o)
    BY DEF RunRemove, NextTask, Finish, TypeInv, QueueType
  <1>2. t.user \in User /\ t.run \in Run /\ t.by \in User
    BY <1>1, TaskFields
  <1>3. /\ CanRemove(db, season, t.target, t.user, t.run)
        /\ db' = Archive(db, rows, t.by)
    BY DEF RunRemove, Remove, RemoveRecord
  <1> HIDE DEF t
  <1>4. /\ rows \in SUBSET Key /\ \A k \in rows : HasRecord(db, k)
    BY <1>2, <1>3, ActiveSeasons, RemovedRowsLive
  <1>5. \A k \in rows : k.user = t.user /\ k.run = t.run
    BY DEF RemovedRows, RowsOf, TargetRow, Row
  <1> HIDE DEF rows
  <1>6. db' \in Database /\ \A k \in Key : k \notin rows => db'.live[k] = db.live[k]
    <2>1. db \in Database /\ t.by \in User /\ rows \in SUBSET Key
      BY <1>2, <1>4, ActiveSeasons
    <2>2. \A k \in rows : HasRecord(db, k)
      BY <1>4
    <2>3. db' = Archive(db, rows, t.by)
      BY <1>3
    <2>4. db' \in Database
      BY <2>1, <2>2, <2>3, ArchiveInDatabase
    <2>5. \A k \in Key : db'.live[k] = IF k \in rows THEN NoRecord ELSE db.live[k]
      BY <2>3 DEF Archive
    <2> QED BY <2>4, <2>5
  <1>7. OneUser(rows, t.user)
    BY <1>4, <1>5 DEF OneUser
  <1>8. o \in Outcome /\ Follows(o)
    BY <1>1, <1>6, <1>7, PatchFollows
  <1>9. o.task = t
    OBVIOUS
  <1> HIDE DEF o
  <1>10. Moved(o)
    BY <1>1, <1>8, <1>9 DEF Moved, t
  <1>11. \A k \in Key : k.run # t.run => db'.live[k] = db.live[k]
    BY <1>5, <1>6
  <1> QED BY <1>1, <1>2, <1>8, <1>10, <1>11 DEF t, rows, o

\* restoreRecord: the rows restored, all of the user and run of the archived row.
LEMMA RestoreTaskRuns ==
    ASSUME TypeInv, RunRestore
    PROVE  LET t == Head(incomplete)
               rows == {b.key : b \in Restorable(db, t.row, t.caller, t.admin)}
               o == [task |-> t, ok |-> TRUE, patch |-> PatchOf(db', rows), top |-> FALSE]
           IN  /\ Moved(o) /\ Follows(o)
               /\ t.kind = "restore" /\ t.row \in db.archive /\ t.row \in Removed
               /\ t.user \in User /\ t.caller \in User
               /\ t.admin \in BOOLEAN /\ t.force \in BOOLEAN
               /\ \A k \in Key : k.run # t.row.key.run => db'.live[k] = db.live[k]
  <1> DEFINE t == Head(incomplete)
             copies == Restorable(db, t.row, t.caller, t.admin)
             rows == {b.key : b \in copies}
             o == [task |-> t, ok |-> TRUE, patch |-> PatchOf(db', rows), top |-> FALSE]
  <1>1. /\ incomplete # <<>> /\ t.kind = "restore" /\ t \in Task
        /\ incomplete' = Tail(incomplete) /\ completed' = Append(completed, o)
    BY DEF RunRestore, NextTask, Finish, TypeInv, QueueType
  <1>2. /\ t.row \in Removed /\ t.user \in User /\ t.caller \in User /\ t.user = t.row.key.user
        /\ t.admin \in BOOLEAN /\ t.force \in BOOLEAN
    BY <1>1, TaskFields
  <1>3. t.row \in db.archive /\ db' = RestoreRecord(db, t.row, t.caller, t.admin)
    BY DEF RunRestore, Restore, CanRestore
  <1> HIDE DEF t
  <1>4. \A b \in copies : b.key.user = t.user /\ b.key.run = t.row.key.run
    BY <1>2 DEF Restorable, ArchivedCopies
  <1> HIDE DEF copies
  <1>5. /\ db' \in Database /\ copies \subseteq db.archive
        /\ \A k \in Key : (\A b \in copies : b.key # k) => db'.live[k] = db.live[k]
    BY <1>2, <1>3, ActiveSeasons, RestoreTables DEF copies
  <1>6. \A b \in copies : b.key \in Key
    BY <1>5, ActiveSeasons DEF Database, Removed
  <1>7. OneUser(rows, t.user)
    BY <1>4, <1>6 DEF OneUser
  <1>8. \A k \in Key : k \notin rows => db'.live[k] = db.live[k]
    BY <1>5
  <1>9. o \in Outcome /\ Follows(o)
    <2> HIDE DEF rows
    <2> QED BY <1>1, <1>5, <1>7, <1>8, PatchFollows
  <1>10. \A k \in Key : k.run # t.row.key.run => db'.live[k] = db.live[k]
    BY <1>4, <1>5
  <1>11. o.task = t
    OBVIOUS
  <1> HIDE DEF rows, o
  <1>12. Moved(o)
    BY <1>1, <1>9, <1>11 DEF Moved, t
  <1> QED BY <1>1, <1>2, <1>3, <1>9, <1>10, <1>12 DEF t, copies, rows, o

\* The season commands leave the overall season alone.
LEMMA SeasonTaskRuns ==
    ASSUME TypeInv, RunSeasonCommand
    PROVE  LET t == Head(incomplete)
               o == [task |-> t, ok |-> TRUE, patch |-> <<>>, top |-> FALSE]
           IN  /\ Moved(o) /\ Follows(o)
               /\ t.kind \in {"addSeason", "editSeason", "deleteSeason"}
               /\ \/ AddSeason
                  \/ t.season \in season /\ DeleteSeason(t.season)
                  \/ UNCHANGED repositoryVars
               /\ \A u \in User, r \in Run : db'.live[Row(Default, u, r)] = db.live[Row(Default, u, r)]
  <1> DEFINE t == Head(incomplete)
             o == [task |-> t, ok |-> TRUE, patch |-> <<>>, top |-> FALSE]
  <1>1. /\ incomplete # <<>> /\ t \in Task /\ t.kind \in {"addSeason", "editSeason", "deleteSeason"}
        /\ incomplete' = Tail(incomplete) /\ completed' = Append(completed, o)
    BY DEF RunSeasonCommand, NextTask, Finish, TypeInv, QueueType
  <1>2. \/ AddSeason
        \/ t.season \in season /\ DeleteSeason(t.season)
        \/ UNCHANGED repositoryVars
    BY DEF RunSeasonCommand
  <1>3. \A u \in User, r \in Run : db'.live[Row(Default, u, r)] = db.live[Row(Default, u, r)]
    <2>1. CASE AddSeason \/ UNCHANGED repositoryVars
      BY <2>1 DEF AddSeason, repositoryVars
    <2>2. CASE t.season \in season /\ DeleteSeason(t.season)
      <3>1. t.season \in Season /\ t.season # Default /\ db' = PurgeSeason(db, t.season)
        BY <2>2, ActiveSeasons DEF DeleteSeason
      <3>2. \A k \in Key : db'.live[k] = IF k.season = t.season THEN NoRecord ELSE db.live[k]
        <4> HIDE DEF t
        <4> QED BY <3>1, ActiveSeasons, PurgeTables
      <3> QED BY <3>1, <3>2, RowType, ActiveSeasons
    <2> QED BY <1>2, <2>1, <2>2
  <1>4. o \in Outcome /\ o.task = t
    BY <1>1 DEF Outcome, Patch
  <1>5. Moved(o)
    <2> HIDE DEF o
    <2> QED BY <1>1, <1>4 DEF Moved
  <1>6. Follows(o)
    BY <1>1, <1>3 DEF Follows, Writes
  <1> QED BY <1>1, <1>2, <1>3, <1>5, <1>6

\* A task that throws leaves nothing.
LEMMA FailTaskRuns ==
    ASSUME TypeInv, FailTask
    PROVE  LET o == [task |-> Head(incomplete), ok |-> FALSE]
           IN  Moved(o) /\ Follows(o) /\ UNCHANGED repositoryVars
  <1> DEFINE o == [task |-> Head(incomplete), ok |-> FALSE]
  <1>1. /\ incomplete # <<>> /\ Head(incomplete) \in Task /\ UNCHANGED repositoryVars
        /\ incomplete' = Tail(incomplete) /\ completed' = Append(completed, o)
    BY DEF FailTask, TypeInv, QueueType
  <1>2. o \in Outcome
    BY <1>1 DEF Outcome
  <1>3. Follows(o)
    BY <1>1 DEF Follows, Writes, repositoryVars
  <1> QED BY <1>1, <1>2, <1>3 DEF Moved

\* What every task has in common: it moves one outcome, which follows the database,
\* and the database changes by one transaction or not at all.
LEMMA TaskSteps ==
    ASSUME TypeInv, RunTask
    PROVE  /\ \E o : Moved(o) /\ Follows(o)
           /\ [RepositoryNext]_repositoryVars
           /\ UNCHANGED <<clients, players, posted, announced>>
           /\ \/ active' = active /\ season' = season
              \/ active' \subseteq season' /\ Default \in active'
  <1>1. CASE RunConnect
    <2>1. Follows([task |-> Head(incomplete), ok |-> TRUE, top |-> FALSE,
                   patch |-> Patched(NoRecords, PatchOf(db, {Row(s, Head(incomplete).user, r) :
                                                                s \in active, r \in Run}))])
      <3> DEFINE patch == Patched(NoRecords, PatchOf(db, {Row(s, Head(incomplete).user, r) :
                                                             s \in active, r \in Run}))
                 o == [task |-> Head(incomplete), ok |-> TRUE, patch |-> patch, top |-> FALSE]
      <3>1. /\ db' = db /\ \A r \in Run : patch[<<Default, r>>] = db.live[Row(Default, o.task.user, r)]
        BY <1>1, ConnectTaskRuns DEF RunConnect, repositoryVars
      <3>2. o.patch = patch
        OBVIOUS
      <3> HIDE DEF o, patch
      <3>3. Follows(o)
        BY <3>1, <3>2 DEF Follows, Writes
      <3> QED BY <3>3 DEF o, patch
    <2> QED BY <1>1, <2>1, ConnectTaskRuns DEF RunConnect, Finish, repositoryVars
  <1>2. CASE RunCheck
    <2>1. \E o : Moved(o) /\ Follows(o)
      BY <1>2, CheckTaskRuns
    <2>2. RepositoryNext
      <3> DEFINE t == Head(incomplete)
      <3>1. t.user \in User /\ t.run \in Run /\ t.time \in 1..MaxTime
        BY <1>2, CheckTaskRuns
      <3>2. Complete(active, t.user, t.run, t.time) /\ active \in SUBSET season
        BY <1>2, ActiveSeasons DEF RunCheck
      <3> HIDE DEF t
      <3> QED BY <3>1, <3>2 DEF RepositoryNext
    <2> QED BY <1>2, <2>1, <2>2 DEF RunCheck, Finish, Complete
  <1>3. CASE RunRemove
    <2>1. \E o : Moved(o) /\ Follows(o)
      BY <1>3, RemoveTaskRuns
    <2>2. RepositoryNext
      <3> DEFINE t == Head(incomplete)
      <3>1. t.user \in User /\ t.run \in Run /\ t.by \in User
        BY <1>3, RemoveTaskRuns
      <3>2. Remove(t.target, t.user, t.run, t.by)
        BY <1>3 DEF RunRemove
      <3>3. t.target \in season \cup {AnySeason}
        BY <3>2 DEF Remove, CanRemove
      <3> HIDE DEF t
      <3> QED BY <3>1, <3>2, <3>3 DEF RepositoryNext
    <2> QED BY <1>3, <2>1, <2>2 DEF RunRemove, Finish, Remove
  <1>4. CASE RunRestore
    <2>1. \E o : Moved(o) /\ Follows(o)
      BY <1>4, RestoreTaskRuns
    <2>2. RepositoryNext
      <3> DEFINE t == Head(incomplete)
      <3>1. t.row \in db.archive /\ t.caller \in User /\ t.admin \in BOOLEAN /\ t.force \in BOOLEAN
        BY <1>4, RestoreTaskRuns
      <3>2. Restore(t.row, t.caller, t.admin, t.force)
        BY <1>4 DEF RunRestore
      <3> HIDE DEF t
      <3> QED BY <3>1, <3>2 DEF RepositoryNext
    <2> QED BY <1>4, <2>1, <2>2 DEF RunRestore, Finish, Restore
  <1>5. CASE RunSeasonCommand
    <2>1. \E o : Moved(o) /\ Follows(o)
      BY <1>5, SeasonTaskRuns
    <2>2. [RepositoryNext]_repositoryVars
      BY <1>5, SeasonTaskRuns DEF RepositoryNext
    <2> QED BY <1>5, <2>1, <2>2 DEF RunSeasonCommand, Finish, UpdateSeasonStates
  <1>6. CASE FailTask
    <2>1. \E o : Moved(o) /\ Follows(o)
      BY <1>6, FailTaskRuns
    <2> QED BY <1>6, <2>1 DEF FailTask, repositoryVars
  <1> QED BY <1>1, <1>2, <1>3, <1>4, <1>5, <1>6 DEF RunTask

-----------------------------------------------------------------------------
(* Clients, runs and commands.                                             *)

\* The types of what the game thread keeps.
GameType ==
    /\ connected \in [Slot -> User] /\ identified \in [Slot -> BOOLEAN]
    /\ timerunActive \in [Slot -> BOOLEAN] /\ players \in [Slot -> PlayerState \cup {NoPlayer}]
    /\ posted \in 0..MaxPosted /\ announced \in [Run -> 0..MaxTime]

\* A slot that is not empty has a player.
LEMMA PlayerType ==
    ASSUME TypeInv, NEW c \in Slot, players[c] # NoPlayer
    PROVE  players[c] \in PlayerState
  BY DEF TypeInv, TimerunTypeOK

\* A task that is posted is counted.
LEMMA PostCounts ==
    ASSUME TypeInv, NEW STATE t, Post(t)
    PROVE  posted' \in 0..MaxPosted
  BY PostedAssumption DEF TypeInv, TimerunTypeOK, Post

\* The slots that are carried to the next map.
Carried == {c \in Slot : connected[c] # Nobody}

LEMMA CarriedCount == Cardinality(Carried) \in Nat
  <1>1. IsFiniteSet(1..MaxClient)
    BY ClientAssumption, FS_Interval
  <1> QED BY <1>1, FS_Subset, FS_CardinalityType DEF Carried, Slot

\* The order in which they are loaded again: every slot at most once.
LEMMA MapChangeQueue ==
    ASSUME TypeInv, MapChange
    PROVE  /\ QueueType' /\ completed' = <<>> /\ posted' \in 0..MaxPosted
           /\ \E order \in [1..Cardinality(Carried) -> Carried] :
                 /\ \A i, j \in 1..Cardinality(Carried) : order[i] = order[j] => i = j
                 /\ QueueLength' = Cardinality(Carried)
                 /\ \A i \in 1..Cardinality(Carried) :
                       QueuedTask(i)' = ConnectTask(order[i], connected[order[i]])
  <1> DEFINE n == Cardinality(Carried)
  <1>1. PICK order \in [1..n -> Carried] :
           /\ \A i, j \in 1..n : i < j => order[i] < order[j]
           /\ incomplete' = [i \in 1..n |-> ConnectTask(order[i], connected[order[i]])]
    BY DEF MapChange, Carried
  <1>2. completed' = <<>> /\ posted' = posted + n /\ posted + n <= MaxPosted
    BY DEF MapChange, Carried
  <1>3. n \in Nat
    BY CarriedCount
  <1> HIDE DEF n
  <1>4. \A i \in 1..n : order[i] \in Slot /\ connected[order[i]] \in User
    BY DEF Carried, TypeInv, TimerunTypeOK
  <1>5. \A i \in 1..n : ConnectTask(order[i], connected[order[i]]) \in Task
    BY <1>4 DEF ConnectTask, Task
  <1>6. incomplete' \in Seq(Task) /\ Len(incomplete') = n
    BY <1>1, <1>3, <1>5
  <1>7. QueueType' /\ Len(completed') = 0
    BY <1>2, <1>6 DEF QueueType
  <1>8. QueueLength' = n
    BY <1>3, <1>6, <1>7 DEF QueueLength
  <1>9. \A i \in 1..n : QueuedTask(i)' = ConnectTask(order[i], connected[order[i]])
    BY <1>1, <1>3, <1>7 DEF QueuedTask
  <1>10. \A i, j \in 1..n : order[i] = order[j] => i = j
    <2>1. \A i \in 1..n : order[i] \in Int
      BY <1>4 DEF Slot
    <2> QED BY <1>1, <1>3, <2>1
  <1>11. posted' \in 0..MaxPosted
    BY <1>2, <1>3, PostedAssumption DEF TypeInv, TimerunTypeOK
  <1> QED BY <1>2, <1>7, <1>8, <1>9, <1>10, <1>11 DEF n

\* A command posts a task of its kind.
LEMMA CommandTasks ==
    ASSUME TypeInv, CommandStep
    PROVE  \E t \in Task : t.kind # "connect" /\ Post(t)
  <1>1. ASSUME NEW c \in Slot, NEW target \in season \cup {AnySeason}, NEW u \in Person,
               NEW r \in Run, RemoveCommand(c, target, u, r)
        PROVE  \E t \in Task : t.kind # "connect" /\ Post(t)
    <2>1. [kind |-> "remove", target |-> target, user |-> u, run |-> r, by |-> connected[c]] \in Task
      BY ActiveSeasons DEF Task, Person, TypeInv, TimerunTypeOK
    <2> QED BY <1>1, <2>1 DEF RemoveCommand, PostCommand
  <1>2. ASSUME NEW c \in Slot, NEW row \in db.archive, NEW admin \in BOOLEAN, NEW force \in BOOLEAN,
               RestoreCommand(c, row, admin, force)
        PROVE  \E t \in Task : t.kind # "connect" /\ Post(t)
    <2>1. row \in Removed /\ row.key.user \in User /\ connected[c] \in User
      BY ActiveSeasons DEF Database, Removed, Key, TypeInv, TimerunTypeOK
    <2> DEFINE t == [kind |-> "restore", row |-> row, user |-> row.key.user,
                     caller |-> connected[c], admin |-> admin, force |-> force]
    <2>2. t \in Task
      <3>1. t \in [kind : {"restore"}, row : Removed, user : User, caller : User,
                   admin : BOOLEAN, force : BOOLEAN] /\ t.user = t.row.key.user
        BY <2>1
      <3> HIDE DEF t
      <3> QED BY <3>1 DEF Task
    <2>3. Post(t)
      BY <1>2 DEF RestoreCommand, PostCommand
    <2> QED BY <2>2, <2>3
  <1>3. ASSUME NEW c \in Slot, NEW kind \in {"addSeason", "editSeason", "deleteSeason"},
               NEW s \in Season \ {Default}, SeasonCommand(c, kind, s)
        PROVE  \E t \in Task : t.kind # "connect" /\ Post(t)
    <2>1. [kind |-> kind, season |-> s] \in Task
      BY DEF Task
    <2> QED BY <1>3, <2>1 DEF SeasonCommand, PostCommand
  <1> QED BY <1>1, <1>2, <1>3 DEF CommandStep

\* Whatever clients and administrators do, the database stays, the active seasons are
\* seasons, and the queue stays, grows by one task or starts again.
LEMMA GameSteps ==
    ASSUME TypeInv, ClientStep \/ CommandStep
    PROVE  /\ UNCHANGED repositoryVars
           /\ active' \in SUBSET season' /\ Default \in active'
           /\ UNCHANGED tasks \/ MapChange \/ \E t \in Task : Post(t)
  <1>1. ASSUME NEW c \in Slot, Authenticate(c)
        PROVE  \E t \in Task : Post(t)
    <2>1. ConnectTask(c, IF connected[c] \in Banned THEN Nobody ELSE connected[c]) \in Task
      BY NobodyAssumption DEF ConnectTask, Task, TypeInv, TimerunTypeOK
    <2> QED BY <1>1, <2>1 DEF Authenticate
  <1>2. ASSUME NEW c \in Slot, NEW r \in Run, NEW time \in 1..MaxTime, StopTimer(c, r, time)
        PROVE  UNCHANGED tasks \/ \E t \in Task : Post(t)
    <2>1. players[c].user \in User
      BY <1>2, PlayerType DEF StopTimer, Running, PlayerState
    <2>2. [kind |-> "check", user |-> players[c].user, run |-> r, time |-> time] \in Task
      BY <2>1 DEF Task
    <2> QED BY <1>2, <2>2 DEF StopTimer
  <1> DEFINE SeasonsKept == UNCHANGED repositoryVars /\ active' \in SUBSET season' /\ Default \in active'
  <1>0. ASSUME UNCHANGED <<repositoryVars, active>>
        PROVE  SeasonsKept
    BY <1>0 DEF TypeInv, TimerunTypeOK, repositoryVars
  <1>3. CASE ClientStep
    <2>1. SeasonsKept
      <3>1. CASE MapChange
        BY <3>1 DEF MapChange, UpdateSeasonStates
      <3>2. CASE ~MapChange
        <4>1. UNCHANGED <<repositoryVars, active>>
          BY <1>3, <3>2 DEF ClientStep, Connect, Authenticate, Disconnect, Interrupt, StartTimer,
                            StartSaveposTimer, StopTimer, EndRun
        <4> QED BY <1>0, <4>1
      <3> QED BY <3>1, <3>2
    <2>2. ASSUME NEW c \in Slot,
                 \/ \E u \in Person : Connect(c, u)
                 \/ Disconnect(c) \/ Interrupt(c)
                 \/ \E r \in Run : StartTimer(c, r) \/ StartSaveposTimer(c, r)
          PROVE  UNCHANGED tasks
      BY <2>2 DEF Connect, Disconnect, Interrupt, StartTimer, StartSaveposTimer
    <2> QED BY <1>1, <1>2, <1>3, <2>1, <2>2 DEF ClientStep
  <1>4. CASE CommandStep
    <2>1. UNCHANGED <<repositoryVars, active>>
      BY <1>4 DEF CommandStep, RemoveCommand, RestoreCommand, SeasonCommand, PostCommand
    <2>2. SeasonsKept
      BY <1>0, <2>1
    <2> QED BY <1>4, <2>2, CommandTasks
  <1> QED BY <1>3, <1>4

-----------------------------------------------------------------------------
(* Callbacks.                                                              *)

\* findPlayerByUserId finds a slot of the user.
LEMMA FirstSlot ==
    ASSUME NEW u, SlotsOf(u) # {}
    PROVE  FirstSlotOf(u) \in SlotsOf(u)
  <1>1. SlotsOf(u) \subseteq Nat
    BY DEF SlotsOf, Slot
  <1>2. \E c \in SlotsOf(u) : \A d \in SlotsOf(u) : c <= d
    BY <1>1, LeastExists
  <1> QED BY <1>2 DEF FirstSlotOf

\* A patch changes the records of one player of the user, or nothing.
LEMMA PatchPlayerRuns ==
    ASSUME TypeInv, NEW STATE u, NEW STATE patch, patch \in Patch, PatchPlayer(u, patch)
    PROVE  /\ players' \in [Slot -> PlayerState \cup {NoPlayer}]
           /\ \A c \in Slot :
                 \/ players'[c] = players[c]
                 \/ /\ c = FirstSlotOf(u) /\ c \in SlotsOf(u) /\ players[c] \in PlayerState
                    /\ players'[c] = [players[c] EXCEPT !.records = Patched(@, patch)]
           /\ SlotsOf(u) # {} =>
                 players'[FirstSlotOf(u)] =
                    [players[FirstSlotOf(u)] EXCEPT !.records = Patched(@, patch)]
  <1>1. CASE SlotsOf(u) = {}
    BY <1>1 DEF PatchPlayer, TypeInv, TimerunTypeOK
  <1>2. CASE SlotsOf(u) # {}
    <2> DEFINE f == FirstSlotOf(u)
               p == [players[f] EXCEPT !.records = Patched(@, patch)]
    <2>1. f \in SlotsOf(u) /\ f \in Slot /\ players[f] # NoPlayer
      BY <1>2, FirstSlot DEF SlotsOf
    <2>2. players[f] \in PlayerState
      BY <2>1, PlayerType
    <2>3. p \in PlayerState
      <3>1. Patched(players[f].records, patch) \in Cache
        BY <2>2, PatchedType DEF PlayerState
      <3> QED BY <2>2, <3>1 DEF PlayerState
    <2>4. players' = [players EXCEPT ![f] = p]
      BY <1>2, <2>1 DEF PatchPlayer, TypeInv, TimerunTypeOK
    <2>5. players \in [Slot -> PlayerState \cup {NoPlayer}]
      BY DEF TypeInv, TimerunTypeOK
    <2> HIDE DEF f
    <2>6. \A c \in Slot : players'[c] = IF c = f THEN p ELSE players[c]
      BY <2>4, <2>5
    <2>7. players' \in [Slot -> PlayerState \cup {NoPlayer}]
      <3> HIDE DEF p
      <3> QED BY <2>3, <2>4, <2>5
    <2> QED BY <2>1, <2>2, <2>6, <2>7 DEF f
  <1> QED BY <1>1, <1>2

\* A callback takes one outcome off and leaves the database alone.
LEMMA CallbackSteps ==
    ASSUME TypeInv, RunCallback
    PROVE  /\ completed # <<>> /\ PopCompleted
           /\ UNCHANGED <<repositoryVars, clients, active>>
           /\ players' \in [Slot -> PlayerState \cup {NoPlayer}]
           /\ announced' \in [Run -> 0..MaxTime]
  <1> DEFINE o == Head(completed)
  <1>1. completed # <<>> /\ PopCompleted /\ UNCHANGED <<repositoryVars, clients, active>>
    BY DEF RunCallback, ConnectCallback, CheckCallback, ArchiveCallback, PrintCallback
  <1>2. o \in Outcome
    BY <1>1, PopQueue DEF TypeInv
  <1> HIDE DEF o
  <1>3. o.task \in Task /\ (o.ok => o.patch \in Patch /\ (o.task.kind = "connect" => o.patch \in Cache))
    BY <1>2, OutcomeFields
  <1>4. /\ players \in [Slot -> PlayerState \cup {NoPlayer}] /\ announced \in [Run -> 0..MaxTime]
        /\ 0 \in 0..MaxTime /\ 1..MaxTime \subseteq 0..MaxTime
    BY BoundAssumption DEF TypeInv, TimerunTypeOK
  <1>5. CASE ConnectCallback
    <2>1. /\ o.ok /\ o.task.kind = "connect" /\ UNCHANGED announced
          /\ players' = [players EXCEPT ![o.task.slot] = NewPlayer(o.task.user, o.patch)]
      BY <1>5 DEF ConnectCallback, o
    <2>2. NewPlayer(o.task.user, o.patch) \in PlayerState
      BY <1>3, <2>1, TaskFields DEF NewPlayer, PlayerState
    <2> QED BY <1>1, <1>4, <2>1, <2>2
  <1>6. CASE CheckCallback
    <2>1. /\ o.ok /\ o.task.kind = "check" /\ PatchPlayer(o.task.user, o.patch)
          /\ announced' = IF o.top THEN [announced EXCEPT ![o.task.run] = o.task.time]
                          ELSE announced
      BY <1>6 DEF CheckCallback, o
    <2>2. o.task.time \in 1..MaxTime
      BY <1>3, <2>1, TaskFields
    <2>3. announced' \in [Run -> 0..MaxTime]
      <3>1. o.task.time \in 0..MaxTime
        BY <1>4, <2>2
      <3> QED BY <1>4, <2>1, <3>1
    <2> QED BY <1>1, <1>3, <2>1, <2>3, PatchPlayerRuns
  <1>7. CASE ArchiveCallback
    <2>1. /\ o.ok /\ PatchPlayer(o.task.user, o.patch)
          /\ announced' = [announced EXCEPT ![IF o.task.kind = "remove" THEN o.task.run
                                              ELSE o.task.row.key.run] = 0]
      BY <1>7 DEF ArchiveCallback, o
    <2> QED BY <1>1, <1>3, <1>4, <2>1, PatchPlayerRuns
  <1>8. CASE PrintCallback
    BY <1>1, <1>4, <1>8 DEF PrintCallback
  <1> QED BY <1>5, <1>6, <1>7, <1>8 DEF RunCallback

\* What clients do keeps the types.
LEMMA ClientTypes ==
    ASSUME TypeInv, ClientStep \/ CommandStep
    PROVE  GameType'
  <1>1. GameType
    BY DEF GameType, TypeInv, TimerunTypeOK
  <1>2. \A c \in Slot, r \in Run \cup {NoRun}, b \in BOOLEAN :
           players[c] # NoPlayer =>
              [players EXCEPT ![c].running = b, ![c].run = r] \in [Slot -> PlayerState \cup {NoPlayer}]
    <2> TAKE c \in Slot, r \in Run \cup {NoRun}, b \in BOOLEAN
    <2> HAVE players[c] # NoPlayer
    <2>1. players[c] \in PlayerState
      BY PlayerType
    <2> DEFINE p == [players[c] EXCEPT !.running = b, !.run = r]
    <2>2. p \in PlayerState
      BY <2>1 DEF PlayerState
    <2>3. [players EXCEPT ![c].running = b, ![c].run = r] = [players EXCEPT ![c] = p]
      BY <1>1, <2>1 DEF GameType, PlayerState
    <2> HIDE DEF p
    <2> QED BY <1>1, <2>2, <2>3 DEF GameType
  <1>3. ASSUME NEW c \in Slot, NEW u \in Person, Connect(c, u)
        PROVE  GameType'
    BY <1>1, <1>3 DEF Connect, GameType, Person, tasks
  <1>4. ASSUME NEW c \in Slot, Authenticate(c)
        PROVE  GameType'
    <2>1. posted' \in 0..MaxPosted
      BY <1>4, PostCounts DEF Authenticate
    <2> QED BY <1>1, <1>4, <2>1, NobodyAssumption DEF Authenticate, GameType
  <1>5. ASSUME NEW c \in Slot, Disconnect(c)
        PROVE  GameType'
    BY <1>1, <1>5, NobodyAssumption DEF Disconnect, GameType, tasks
  <1>6. ASSUME NEW c \in Slot, EndRun(c), Running(c), posted' \in 0..MaxPosted
        PROVE  GameType'
    <2>1. players' \in [Slot -> PlayerState \cup {NoPlayer}]
      BY <1>2, <1>6 DEF EndRun, Running
    <2> QED BY <1>1, <1>6, <2>1 DEF EndRun, GameType
  <1>7. ASSUME NEW c \in Slot, Interrupt(c)
        PROVE  GameType'
    BY <1>1, <1>6, <1>7 DEF Interrupt, GameType, tasks
  <1>8. ASSUME NEW c \in Slot, NEW r \in Run, NEW t \in 1..MaxTime, StopTimer(c, r, t)
        PROVE  GameType'
    <2>1. posted' \in 0..MaxPosted
      BY <1>1, <1>8, PostCounts DEF StopTimer, GameType, tasks
    <2> QED BY <1>6, <1>8, <2>1 DEF StopTimer
  <1>9. ASSUME NEW c \in Slot, NEW r \in Run, StartTimer(c, r) \/ StartSaveposTimer(c, r)
        PROVE  GameType'
    <2>1. /\ players[c] # NoPlayer
          /\ players' = [players EXCEPT ![c].running = TRUE, ![c].run = r]
          /\ timerunActive' = [timerunActive EXCEPT ![c] = TRUE]
          /\ UNCHANGED <<connected, identified, posted, announced>>
      BY <1>9 DEF StartTimer, StartSaveposTimer, tasks
    <2>2. players' \in [Slot -> PlayerState \cup {NoPlayer}]
      BY <1>2, <2>1
    <2> QED BY <1>1, <2>1, <2>2 DEF GameType
  <1>10. CASE MapChange
    <2>1. posted' \in 0..MaxPosted /\ 0 \in 0..MaxTime
      BY <1>10, MapChangeQueue, BoundAssumption
    <2> QED BY <1>1, <1>10, <2>1 DEF MapChange, GameType
  <1>11. CASE ClientStep
    BY <1>3, <1>4, <1>5, <1>7, <1>8, <1>9, <1>10, <1>11 DEF ClientStep
  <1>12. ASSUME NEW t, PostCommand(t)
         PROVE  GameType'
    <2>1. posted' \in 0..MaxPosted
      BY <1>12, PostedAssumption DEF PostCommand, Post, TypeInv, TimerunTypeOK
    <2> QED BY <1>1, <1>12, <2>1 DEF PostCommand, GameType, clients
  <1>13. CASE CommandStep
    BY <1>12, <1>13 DEF CommandStep, RemoveCommand, RestoreCommand, SeasonCommand
  <1> QED BY <1>11, <1>13

-----------------------------------------------------------------------------
(* Types, and the repository the database is.                              *)

LEMMA TimerunInitInv == TimerunInit => TypeInv /\ IInv
  <1> SUFFICES ASSUME TimerunInit PROVE TypeInv /\ IInv
    OBVIOUS
  <1>1. IInv
    BY InitInv DEF TimerunInit
  <1>2. GameType
    BY NobodyAssumption, BoundAssumption, PostedAssumption DEF TimerunInit, GameType
  <1>3. RepositoryTypeOK /\ Default \in season /\ active = {Default}
    BY <1>1 DEF IInv, RepositoryTypeOK, TimerunInit
  <1>4. QueueType
    BY DEF TimerunInit, QueueType
  <1> QED BY <1>1, <1>2, <1>3, <1>4 DEF TypeInv, TimerunTypeOK, GameType

\* No step of the timerun system changes the database but by one transaction.
LEMMA RepositorySteps ==
    ASSUME TypeInv, [TimerunNext]_timerunVars
    PROVE  [RepositoryNext]_repositoryVars
  <1>1. CASE ClientStep \/ CommandStep
    BY <1>1, GameSteps
  <1>2. CASE RunTask
    BY <1>2, TaskSteps
  <1>3. CASE RunCallback
    BY <1>3, CallbackSteps
  <1>4. CASE UNCHANGED timerunVars
    BY <1>4 DEF timerunVars
  <1> QED BY <1>1, <1>2, <1>3, <1>4 DEF TimerunNext

LEMMA TimerunStepInv ==
    ASSUME TypeInv, IInv, [TimerunNext]_timerunVars
    PROVE  TypeInv' /\ IInv'
  <1>1. IInv'
    BY RepositorySteps, StepInv
  <1>2. RepositoryTypeOK'
    BY <1>1 DEF IInv
  <1>3. GameType /\ active \in SUBSET season /\ Default \in active /\ QueueType
    BY DEF TypeInv, TimerunTypeOK, GameType
  <1>4. CASE ClientStep \/ CommandStep
    <2>1. active' \in SUBSET season' /\ Default \in active'
      BY <1>4, GameSteps
    <2>2. QueueType'
      <3>1. CASE UNCHANGED tasks
        BY <1>3, <3>1 DEF QueueType, tasks
      <3>2. CASE MapChange
        BY <3>2, MapChangeQueue
      <3>3. CASE \E t \in Task : Post(t)
        BY <1>3, <3>3 DEF Post, QueueType
      <3> QED BY <1>4, <3>1, <3>2, <3>3, GameSteps
    <2>3. GameType'
      BY <1>4, ClientTypes
    <2> QED BY <1>1, <1>2, <1>3, <2>1, <2>2, <2>3 DEF TypeInv, TimerunTypeOK, GameType
  <1>5. CASE RunTask
    <2>1. QueueType'
      BY <1>3, <1>5, TaskSteps, WorkQueue
    <2>2. GameType'
      BY <1>3, <1>5, TaskSteps DEF GameType, clients
    <2>3. active' \in SUBSET season' /\ Default \in active'
      BY <1>3, <1>5, TaskSteps
    <2> QED BY <1>1, <1>2, <2>1, <2>2, <2>3 DEF TypeInv, TimerunTypeOK, GameType
  <1>6. CASE RunCallback
    <2>1. QueueType'
      BY <1>3, <1>6, CallbackSteps, PopQueue
    <2>2. GameType' /\ active' = active /\ season' = season
      BY <1>3, <1>6, CallbackSteps DEF GameType, clients, PopCompleted, repositoryVars
    <2> QED BY <1>1, <1>2, <1>3, <2>1, <2>2 DEF TypeInv, TimerunTypeOK, GameType
  <1>7. CASE UNCHANGED timerunVars
    BY <1>1, <1>2, <1>3, <1>7 DEF timerunVars, repositoryVars, clients, tasks, TypeInv, TimerunTypeOK,
                                  GameType, QueueType
  <1> QED BY <1>4, <1>5, <1>6, <1>7 DEF TimerunNext

LEMMA TimerunInvariance == TimerunSpec => [](TypeInv /\ IInv)
  <1>1. TypeInv /\ IInv /\ [TimerunNext]_timerunVars => (TypeInv /\ IInv)'
    BY TimerunStepInv
  <1> QED BY <1>1, TimerunInitInv, PTL DEF TimerunSpec

\* Every variable of the timerun system keeps its type, and the active seasons are
\* seasons that exist, whatever is queued when one of them is deleted.
THEOREM TimerunTypeCorrect == TimerunSpec => []TimerunTypeOK
  <1>1. TypeInv /\ IInv => TimerunTypeOK
    BY DEF TypeInv
  <1> QED BY <1>1, TimerunInvariance, PTL

\* TimerunV2 implements the repository: however clients, the worker and the callbacks
\* interleave, and wherever a map change drops tasks, the tables record and
\* removed_records only change by whole transactions.
THEOREM TimerunImplementsRepository == TimerunSpec => IsRepository
  <1>1. TimerunInit => RepositoryInit
    BY DEF TimerunInit
  <1>2. TypeInv /\ IInv /\ [TimerunNext]_timerunVars => [RepositoryNext]_repositoryVars
    BY RepositorySteps
  <1> QED BY <1>1, <1>2, TimerunInvariance, PTL DEF TimerunSpec, IsRepository, RepositorySpec

-----------------------------------------------------------------------------
(* Clients that finish their login before they leave.                      *)

Orderly == OrderlyClients /\ Banned = {}

\* Position i of the queue is a login to slot c.
LoginAt(i, c) == QueuedTask(i).kind = "connect" /\ QueuedTask(i).slot = c

\* A player object belongs to a client that is identified.
OwnersInv ==
    \A c \in Slot :
       players[c] # NoPlayer =>
          connected[c] # Nobody /\ identified[c] /\ players[c].user = connected[c]

\* A user plays from one slot.
UsersInv == \A c, d \in Slot : connected[c] # Nobody /\ connected[c] = connected[d] => c = d

\* A login under way is that of the client of its slot, which has no player yet, and
\* the only one to its slot.
LoginsInv ==
    \A c \in Slot, i \in 1..QueueLength :
       LoginAt(i, c) =>
          /\ connected[c] # Nobody /\ QueuedTask(i).user = connected[c]
          /\ identified[c] /\ players[c] = NoPlayer
          /\ \A j \in 1..QueueLength : LoginAt(j, c) => i = j

LoginInv == OwnersInv /\ UsersInv /\ LoginsInv /\ ActiveIffRunning

\* A login in the queue is pending.
LEMMA LoginAtPending ==
    ASSUME QueueType, NEW c \in Slot, NEW i \in 1..QueueLength, LoginAt(i, c)
    PROVE  LoginPending(c)
  <1>1. Len(incomplete) \in Nat /\ Len(completed) \in Nat
    BY DEF QueueType
  <1>2. CASE i <= Len(completed)
    BY <1>1, <1>2 DEF LoginAt, QueuedTask, LoginPending
  <1>3. CASE ~(i <= Len(completed))
    <2>1. i - Len(completed) \in 1..Len(incomplete)
      BY <1>1, <1>3 DEF QueueLength
    <2> QED BY <1>3, <2>1 DEF LoginAt, QueuedTask, LoginPending
  <1> QED BY <1>2, <1>3

\* The players after a step are those before it, but for their runs and records.
SamePlayers ==
    \A c \in Slot :
       /\ players'[c] # NoPlayer <=> players[c] # NoPlayer
       /\ players[c] # NoPlayer => players'[c].user = players[c].user

\* A queue that holds the logins it held, maybe moved up by one place.
SameLogins ==
    \E n \in {0, 1} :
       \A i \in 1..QueueLength', c \in Slot :
          LoginAt(i, c)' => /\ i + n \in 1..QueueLength /\ LoginAt(i + n, c)
                            /\ QueuedTask(i)' = QueuedTask(i + n)

\* Steps that change neither the clients nor who plays keep the logins.
LEMMA KeepLogins ==
    ASSUME TypeInv, LoginInv, QueueLength' \in Nat, SamePlayers, SameLogins,
           UNCHANGED <<connected, identified>>
    PROVE  OwnersInv' /\ UsersInv' /\ LoginsInv'
  <1>1. OwnersInv' /\ UsersInv'
    BY DEF LoginInv, OwnersInv, UsersInv, SamePlayers
  <1>2. LoginsInv'
    <2>1. PICK n \in {0, 1} :
             \A i \in 1..QueueLength', c \in Slot :
                LoginAt(i, c)' => /\ i + n \in 1..QueueLength /\ LoginAt(i + n, c)
                                  /\ QueuedTask(i)' = QueuedTask(i + n)
      BY DEF SameLogins
    <2> SUFFICES ASSUME NEW c \in Slot, NEW i \in 1..QueueLength', LoginAt(i, c)'
                 PROVE  /\ connected'[c] # Nobody /\ QueuedTask(i)'.user = connected'[c]
                        /\ identified'[c] /\ players'[c] = NoPlayer
                        /\ \A j \in 1..QueueLength' : LoginAt(j, c)' => i = j
      BY DEF LoginsInv, LoginAt
    <2>2. i + n \in 1..QueueLength /\ LoginAt(i + n, c) /\ QueuedTask(i)' = QueuedTask(i + n)
      BY <2>1
    <2>3. /\ connected[c] # Nobody /\ QueuedTask(i + n).user = connected[c]
          /\ identified[c] /\ players[c] = NoPlayer
          /\ \A j \in 1..QueueLength : LoginAt(j, c) => i + n = j
      BY <2>2 DEF LoginInv, LoginsInv
    <2>4. ASSUME NEW j \in 1..QueueLength', LoginAt(j, c)'
          PROVE  i = j
      <3>1. j + n \in 1..QueueLength /\ LoginAt(j + n, c)
        BY <2>1, <2>4
      <3>2. i + n = j + n
        BY <2>3, <3>1
      <3> QED BY <3>2
    <2> QED BY <2>2, <2>3, <2>4 DEF SamePlayers
  <1> QED BY <1>1, <1>2

LEMMA LengthIsNat == QueueType => QueueLength \in Nat
  BY DEF QueueType, QueueLength

\* A queue that stays, or that the worker moves on, holds the same logins.
LEMMA StillLogins ==
    ASSUME QueueType, QueueLength' = QueueLength,
           \A i \in 1..QueueLength : QueuedTask(i)' = QueuedTask(i)
    PROVE  SameLogins
  <1>1. \A i \in 1..QueueLength', c \in Slot :
           LoginAt(i, c)' => /\ i + 0 \in 1..QueueLength /\ LoginAt(i + 0, c)
                             /\ QueuedTask(i)' = QueuedTask(i + 0)
    <2> TAKE i \in 1..QueueLength', c \in Slot
    <2>1. i + 0 = i /\ i \in 1..QueueLength /\ QueuedTask(i)' = QueuedTask(i)
      BY LengthIsNat
    <2> QED BY <2>1 DEF LoginAt
  <1> QED BY <1>1 DEF SameLogins

\* A task that is no login brings none.
LEMMA OtherLogins ==
    ASSUME QueueType, NEW STATE t, t \in Task, t.kind # "connect", Post(t)
    PROVE  SameLogins
  <1>1. \A i \in 1..QueueLength', c \in Slot :
           LoginAt(i, c)' => /\ i + 0 \in 1..QueueLength /\ LoginAt(i + 0, c)
                             /\ QueuedTask(i)' = QueuedTask(i + 0)
    <2> SUFFICES ASSUME NEW i \in 1..QueueLength', NEW c \in Slot, LoginAt(i, c)'
                 PROVE  /\ i + 0 \in 1..QueueLength /\ LoginAt(i + 0, c)
                        /\ QueuedTask(i)' = QueuedTask(i + 0)
      OBVIOUS
    <2>1. QueueLength' = QueueLength + 1 /\ QueueLength \in Nat /\ QueuedTask(QueueLength)' = t
          /\ \A j \in 1..QueueLength : QueuedTask(j)' = QueuedTask(j)
      BY PostQueue, LengthIsNat
    <2>2. i # QueueLength'
      BY <2>1 DEF LoginAt
    <2>3. i + 0 = i /\ i \in 1..QueueLength
      BY <2>1, <2>2
    <2>4. QueuedTask(i)' = QueuedTask(i)
      BY <2>1, <2>3
    <2> QED BY <2>3, <2>4 DEF LoginAt
  <1> QED BY <1>1 DEF SameLogins

\* So does a callback, which takes the first task off.
LEMMA PopLogins ==
    ASSUME QueueType, completed # <<>>, PopCompleted
    PROVE  SameLogins
  <1>1. \A i \in 1..QueueLength', c \in Slot :
           LoginAt(i, c)' => /\ i + 1 \in 1..QueueLength /\ LoginAt(i + 1, c)
                             /\ QueuedTask(i)' = QueuedTask(i + 1)
    <2> TAKE i \in 1..QueueLength', c \in Slot
    <2>1. /\ i + 1 \in 1..QueueLength /\ QueuedTask(i)' = QueuedTask(i + 1)
      BY PopQueue, LengthIsNat
    <2> QED BY <2>1 DEF LoginAt
  <1> QED BY <1>1 DEF SameLogins

\* A slot without a login.
LEMMA NoLoginAt ==
    ASSUME LoginInv, NEW c \in Slot, ~identified[c] \/ connected[c] = Nobody \/ players[c] # NoPlayer
    PROVE  \A i \in 1..QueueLength : ~LoginAt(i, c)
  BY DEF LoginInv, LoginsInv

-----------------------------------------------------------------------------
(* The steps of the clients, one by one.                                   *)

LEMMA ConnectLogin ==
    ASSUME Orderly, TypeInv, LoginInv, NEW c \in Slot, NEW u \in Person, Connect(c, u)
    PROVE  LoginInv'
  <1>1. /\ connected[c] = Nobody /\ u # Nobody /\ \A d \in Slot : connected[d] # u
        /\ connected' = [connected EXCEPT ![c] = u]
        /\ identified' = [identified EXCEPT ![c] = FALSE]
        /\ timerunActive' = [timerunActive EXCEPT ![c] = FALSE]
        /\ players' = players /\ incomplete' = incomplete /\ completed' = completed
    BY DEF Connect, Orderly, Person, tasks
  <1>2. /\ connected \in [Slot -> User] /\ identified \in [Slot -> BOOLEAN]
        /\ timerunActive \in [Slot -> BOOLEAN]
    BY DEF TypeInv, TimerunTypeOK
  <1>3. players[c] = NoPlayer
    BY <1>1 DEF LoginInv, OwnersInv
  <1>4. OwnersInv'
    BY <1>1, <1>2, <1>3 DEF LoginInv, OwnersInv
  <1>5. UsersInv'
    BY <1>1, <1>2 DEF LoginInv, UsersInv
  <1>6. QueueLength' = QueueLength /\ \A i : QueuedTask(i)' = QueuedTask(i)
    BY <1>1 DEF QueueLength, QueuedTask
  <1>7. LoginsInv'
    <2> SUFFICES ASSUME NEW d \in Slot, NEW i \in 1..QueueLength, LoginAt(i, d)
                 PROVE  /\ connected'[d] # Nobody /\ QueuedTask(i).user = connected'[d]
                        /\ identified'[d] /\ players'[d] = NoPlayer
                        /\ \A j \in 1..QueueLength : LoginAt(j, d) => i = j
      BY <1>6 DEF LoginsInv, LoginAt
    <2>1. d # c
      BY <1>1, NoLoginAt
    <2> QED BY <1>1, <1>2, <2>1 DEF LoginInv, LoginsInv
  <1>8. ActiveIffRunning'
    BY <1>1, <1>2, <1>3 DEF LoginInv, ActiveIffRunning, Running
  <1> QED BY <1>4, <1>5, <1>7, <1>8 DEF LoginInv

LEMMA AuthenticateLogin ==
    ASSUME Orderly, TypeInv, LoginInv, NEW c \in Slot, Authenticate(c)
    PROVE  LoginInv'
  <1> DEFINE t == ConnectTask(c, connected[c])
  <1>1. /\ connected[c] # Nobody /\ ~identified[c] /\ Post(t)
        /\ connected' = [connected EXCEPT ![c] = connected[c]]
        /\ identified' = [identified EXCEPT ![c] = TRUE]
        /\ players' = [players EXCEPT ![c] = players[c]]
        /\ timerunActive' = timerunActive
    BY DEF Authenticate, Orderly
  <1>2. /\ connected \in [Slot -> User] /\ identified \in [Slot -> BOOLEAN]
        /\ players \in [Slot -> PlayerState \cup {NoPlayer}] /\ QueueType
    BY DEF TypeInv, TimerunTypeOK
  <1>3. connected' = connected /\ players' = players
    BY <1>1, <1>2
  <1>4. t \in Task /\ t.kind = "connect" /\ t.slot = c /\ t.user = connected[c]
    BY <1>2 DEF ConnectTask, Task
  <1> HIDE DEF t
  <1>5. /\ QueueLength' = QueueLength + 1 /\ QueueLength \in Nat
        /\ QueuedTask(QueueLength)' = t
        /\ \A i \in 1..QueueLength : QueuedTask(i)' = QueuedTask(i)
    BY <1>1, <1>2, <1>4, PostQueue, LengthIsNat
  <1>6. \A i \in 1..QueueLength : ~LoginAt(i, c)
    BY <1>1, NoLoginAt
  <1>7. OwnersInv' /\ UsersInv' /\ ActiveIffRunning'
    BY <1>1, <1>2, <1>3 DEF LoginInv, OwnersInv, UsersInv, ActiveIffRunning, Running
  <1>8. \A i \in 1..QueueLength', d \in Slot :
           LoginAt(i, d)' => \/ i = QueueLength' /\ d = c /\ QueuedTask(i)' = t
                             \/ /\ i \in 1..QueueLength /\ LoginAt(i, d) /\ d # c
                                /\ QueuedTask(i)' = QueuedTask(i)
    <2> SUFFICES ASSUME NEW i \in 1..QueueLength', NEW d \in Slot, LoginAt(i, d)'
                 PROVE  \/ i = QueueLength' /\ d = c /\ QueuedTask(i)' = t
                        \/ /\ i \in 1..QueueLength /\ LoginAt(i, d) /\ d # c
                           /\ QueuedTask(i)' = QueuedTask(i)
      OBVIOUS
    <2>1. CASE i = QueueLength'
      BY <1>4, <1>5, <2>1 DEF LoginAt
    <2>2. CASE i # QueueLength'
      <3>1. i \in 1..QueueLength
        BY <1>5, <2>2
      <3>2. QueuedTask(i)' = QueuedTask(i)
        BY <1>5, <3>1
      <3>3. LoginAt(i, d)
        BY <3>2 DEF LoginAt
      <3> QED BY <1>6, <3>1, <3>2, <3>3
    <2> QED BY <2>1, <2>2
  <1>9. LoginsInv'
    <2> SUFFICES ASSUME NEW d \in Slot, NEW i \in 1..QueueLength', LoginAt(i, d)'
                 PROVE  /\ connected'[d] # Nobody /\ QueuedTask(i)'.user = connected'[d]
                        /\ identified'[d] /\ players'[d] = NoPlayer
                        /\ \A j \in 1..QueueLength' : LoginAt(j, d)' => i = j
      BY DEF LoginsInv, LoginAt
    <2>1. CASE d = c
      <3>1. players[c] = NoPlayer
        BY <1>1 DEF LoginInv, OwnersInv
      <3>2. QueuedTask(i)' = t /\ \A j \in 1..QueueLength' : LoginAt(j, d)' => i = j
        BY <1>8, <2>1
      <3> QED BY <1>1, <1>2, <1>3, <1>4, <2>1, <3>1, <3>2
    <2>2. CASE d # c
      <3>1. i \in 1..QueueLength /\ LoginAt(i, d) /\ QueuedTask(i)' = QueuedTask(i)
        BY <1>8, <2>2
      <3>2. \A j \in 1..QueueLength' : LoginAt(j, d)' => j \in 1..QueueLength /\ LoginAt(j, d)
        BY <1>8, <2>2
      <3>3. /\ connected[d] # Nobody /\ QueuedTask(i).user = connected[d]
            /\ identified[d] /\ players[d] = NoPlayer
            /\ \A j \in 1..QueueLength : LoginAt(j, d) => i = j
        BY <3>1 DEF LoginInv, LoginsInv
      <3> QED BY <1>1, <1>2, <1>3, <2>2, <3>1, <3>2, <3>3
    <2> QED BY <2>1, <2>2
  <1> QED BY <1>7, <1>9 DEF LoginInv

LEMMA DisconnectLogin ==
    ASSUME Orderly, TypeInv, LoginInv, NEW c \in Slot, Disconnect(c)
    PROVE  LoginInv'
  <1>1. /\ ~LoginPending(c)
        /\ connected' = [connected EXCEPT ![c] = Nobody]
        /\ identified' = [identified EXCEPT ![c] = FALSE]
        /\ players' = [players EXCEPT ![c] = NoPlayer]
        /\ timerunActive' = timerunActive /\ incomplete' = incomplete /\ completed' = completed
    BY DEF Disconnect, Orderly, tasks
  <1>2. /\ connected \in [Slot -> User] /\ identified \in [Slot -> BOOLEAN]
        /\ players \in [Slot -> PlayerState \cup {NoPlayer}] /\ QueueType
    BY DEF TypeInv, TimerunTypeOK
  <1>3. OwnersInv' /\ UsersInv' /\ ActiveIffRunning'
    BY <1>1, <1>2 DEF LoginInv, OwnersInv, UsersInv, ActiveIffRunning, Running
  <1>4. QueueLength' = QueueLength /\ \A i : QueuedTask(i)' = QueuedTask(i)
    BY <1>1 DEF QueueLength, QueuedTask
  <1>5. LoginsInv'
    <2> SUFFICES ASSUME NEW d \in Slot, NEW i \in 1..QueueLength, LoginAt(i, d)
                 PROVE  /\ connected'[d] # Nobody /\ QueuedTask(i).user = connected'[d]
                        /\ identified'[d] /\ players'[d] = NoPlayer
                        /\ \A j \in 1..QueueLength : LoginAt(j, d) => i = j
      BY <1>4 DEF LoginsInv, LoginAt
    <2>1. d # c
      BY <1>1, <1>2, LoginAtPending
    <2> QED BY <1>1, <1>2, <2>1 DEF LoginInv, LoginsInv
  <1> QED BY <1>3, <1>5 DEF LoginInv

\* A run that starts or ends changes the player and the session flag together.
LEMMA RunLogin ==
    ASSUME Orderly, TypeInv, LoginInv, NEW c \in Slot, NEW r \in Run \cup {NoRun}, NEW b \in BOOLEAN,
           players[c] # NoPlayer,
           players' = [players EXCEPT ![c].running = b, ![c].run = r],
           timerunActive' = [timerunActive EXCEPT ![c] = b],
           UNCHANGED <<connected, identified>>, UNCHANGED tasks \/ \E t \in Task : t.kind # "connect" /\ Post(t),
           TypeInv'
    PROVE  LoginInv'
  <1>1. /\ timerunActive \in [Slot -> BOOLEAN] /\ players[c] \in PlayerState
        /\ players \in [Slot -> PlayerState \cup {NoPlayer}] /\ QueueType
    BY PlayerType DEF TypeInv, TimerunTypeOK
  <1> DEFINE p == [players[c] EXCEPT !.running = b, !.run = r]
  <1>2. p \in PlayerState /\ p.user = players[c].user /\ p.running = b
    BY <1>1 DEF PlayerState
  <1>3. players' = [players EXCEPT ![c] = p]
    BY <1>1 DEF PlayerState
  <1> HIDE DEF p
  <1>4. players'[c] = p /\ \A d \in Slot : d # c => players'[d] = players[d]
    BY <1>1, <1>3
  <1>5. SamePlayers
    BY <1>2, <1>4, NoPlayerAssumption DEF SamePlayers
  <1>6. SameLogins
    <2>1. CASE UNCHANGED tasks
      BY <1>1, <2>1, StillLogins DEF tasks, QueueLength, QueuedTask
    <2>2. CASE \E t \in Task : t.kind # "connect" /\ Post(t)
      BY <1>1, <2>2, OtherLogins
    <2> QED BY <2>1, <2>2
  <1>7. ActiveIffRunning'
    <2> SUFFICES ASSUME NEW d \in Slot, connected[d] # Nobody
                 PROVE  timerunActive'[d] <=> players'[d] # NoPlayer /\ players'[d].running
      BY DEF ActiveIffRunning, Running
    <2>1. CASE d = c
      BY <1>1, <1>2, <1>4, <2>1, NoPlayerAssumption
    <2>2. CASE d # c
      BY <1>1, <1>4, <2>2 DEF LoginInv, ActiveIffRunning, Running
    <2> QED BY <2>1, <2>2
  <1>8. QueueLength' \in Nat
    <2>1. QueueType'
      BY DEF TypeInv
    <2> QED BY <2>1 DEF QueueType, QueueLength
  <1> QED BY <1>5, <1>6, <1>7, <1>8, KeepLogins DEF LoginInv

LEMMA MapChangeLogin ==
    ASSUME Orderly, TypeInv, LoginInv, MapChange
    PROVE  LoginInv'
  <1>1. /\ \A c \in Carried : identified[c]
        /\ players' = [c \in Slot |-> NoPlayer] /\ timerunActive' = [c \in Slot |-> FALSE]
        /\ UNCHANGED <<connected, identified>>
    BY DEF MapChange, Carried
  <1>2. OwnersInv' /\ UsersInv' /\ ActiveIffRunning'
    BY <1>1 DEF LoginInv, OwnersInv, UsersInv, ActiveIffRunning, Running
  <1>3. PICK order \in [1..Cardinality(Carried) -> Carried] :
           /\ \A i, j \in 1..Cardinality(Carried) : order[i] = order[j] => i = j
           /\ QueueLength' = Cardinality(Carried)
           /\ \A i \in 1..Cardinality(Carried) :
                 QueuedTask(i)' = ConnectTask(order[i], connected[order[i]])
    BY MapChangeQueue
  <1>4. LoginsInv'
    <2> SUFFICES ASSUME NEW c \in Slot, NEW i \in 1..QueueLength', LoginAt(i, c)'
                 PROVE  /\ connected'[c] # Nobody /\ QueuedTask(i)'.user = connected'[c]
                        /\ identified'[c] /\ players'[c] = NoPlayer
                        /\ \A j \in 1..QueueLength' : LoginAt(j, c)' => i = j
      BY DEF LoginsInv, LoginAt
    <2>1. \A j \in 1..QueueLength' : LoginAt(j, c)' => order[j] = c
      BY <1>3 DEF LoginAt, ConnectTask
    <2>2. order[i] = c /\ c \in Carried /\ QueuedTask(i)'.user = connected[c]
      BY <1>3, <2>1 DEF ConnectTask
    <2> QED BY <1>1, <1>3, <2>1, <2>2 DEF Carried
  <1> QED BY <1>2, <1>4 DEF LoginInv

\* Commands post no login.
LEMMA CommandLogin ==
    ASSUME Orderly, TypeInv, LoginInv, CommandStep, TypeInv'
    PROVE  LoginInv'
  <1>1. UNCHANGED <<connected, identified, timerunActive, players>>
    BY DEF CommandStep, RemoveCommand, RestoreCommand, SeasonCommand, PostCommand, clients
  <1>2. \E t \in Task : t.kind # "connect" /\ Post(t)
    BY CommandTasks
  <1>3. QueueType /\ QueueType'
    BY DEF TypeInv
  <1>4. SameLogins
    BY <1>2, <1>3, OtherLogins
  <1>5. SamePlayers /\ ActiveIffRunning'
    BY <1>1 DEF SamePlayers, LoginInv, ActiveIffRunning, Running
  <1>6. QueueLength' \in Nat
    BY <1>3 DEF QueueType, QueueLength
  <1> QED BY <1>1, <1>4, <1>5, <1>6, KeepLogins DEF LoginInv

LEMMA TaskLogin ==
    ASSUME TypeInv, LoginInv, RunTask, TypeInv'
    PROVE  LoginInv'
  <1>1. UNCHANGED <<connected, identified, timerunActive, players>>
    BY TaskSteps DEF clients
  <1>2. QueueType /\ QueueType'
    BY DEF TypeInv
  <1>3. SameLogins
    BY <1>2, TaskSteps, WorkQueue, StillLogins
  <1>4. SamePlayers /\ ActiveIffRunning'
    BY <1>1 DEF SamePlayers, LoginInv, ActiveIffRunning, Running
  <1>5. QueueLength' \in Nat
    BY <1>2 DEF QueueType, QueueLength
  <1> QED BY <1>1, <1>3, <1>4, <1>5, KeepLogins DEF LoginInv

\* The first callback of the queue is that of a login: the client is still there.
LEMMA ConnectCallbackLogin ==
    ASSUME TypeInv, LoginInv, ConnectCallback, TypeInv'
    PROVE  LoginInv'
  <1> DEFINE o == Head(completed)
             c == o.task.slot
             p == NewPlayer(o.task.user, o.patch)
  <1>1. /\ completed # <<>> /\ o.task.kind = "connect" /\ PopCompleted
        /\ players' = [players EXCEPT ![c] = p]
        /\ UNCHANGED <<connected, identified, timerunActive>>
    BY DEF ConnectCallback, clients
  <1>2. QueueType /\ players \in [Slot -> PlayerState \cup {NoPlayer}]
    BY DEF TypeInv, TimerunTypeOK
  <1>3. /\ QueuedTask(1) = o.task /\ o \in Outcome /\ QueueLength >= 1
        /\ QueueLength' = QueueLength - 1
        /\ \A i \in 1..QueueLength' : QueuedTask(i)' = QueuedTask(i + 1)
    BY <1>1, <1>2, PopQueue
  <1>4. QueueLength \in Nat
    BY <1>2, LengthIsNat
  <1>5. c \in Slot
    BY <1>1, <1>3, OutcomeFields, TaskFields
  <1>6. 1 \in 1..QueueLength /\ LoginAt(1, c)
    BY <1>1, <1>3, <1>4 DEF LoginAt
  <1>7. p.user = o.task.user /\ ~p.running
    BY DEF NewPlayer
  <1> HIDE DEF o, c, p
  <1>8. /\ connected[c] # Nobody /\ QueuedTask(1).user = connected[c]
        /\ identified[c] /\ players[c] = NoPlayer
        /\ \A j \in 1..QueueLength : LoginAt(j, c) => j = 1
    BY <1>5, <1>6 DEF LoginInv, LoginsInv
  <1>9. players'[c] = p /\ \A d \in Slot : d # c => players'[d] = players[d]
    BY <1>1, <1>2, <1>5
  <1>10. OwnersInv' /\ UsersInv'
    BY <1>1, <1>3, <1>7, <1>8, <1>9 DEF LoginInv, OwnersInv, UsersInv
  <1>11. ActiveIffRunning'
    <2> SUFFICES ASSUME NEW d \in Slot, connected[d] # Nobody
                 PROVE  timerunActive[d] <=> players'[d] # NoPlayer /\ players'[d].running
      BY <1>1 DEF ActiveIffRunning, Running
    <2>1. CASE d = c
      <3>1. ~timerunActive[c]
        BY <1>5, <1>8 DEF LoginInv, ActiveIffRunning, Running
      <3> QED BY <1>7, <1>9, <2>1, <3>1
    <2>2. CASE d # c
      BY <1>9, <2>2 DEF LoginInv, ActiveIffRunning, Running
    <2> QED BY <2>1, <2>2
  <1>12. LoginsInv'
    <2> SUFFICES ASSUME NEW d \in Slot, NEW i \in 1..QueueLength', LoginAt(i, d)'
                 PROVE  /\ connected'[d] # Nobody /\ QueuedTask(i)'.user = connected'[d]
                        /\ identified'[d] /\ players'[d] = NoPlayer
                        /\ \A j \in 1..QueueLength' : LoginAt(j, d)' => i = j
      BY DEF LoginsInv, LoginAt
    <2>1. \A j \in 1..QueueLength' : /\ j + 1 \in 1..QueueLength /\ j + 1 # 1
                                     /\ (LoginAt(j, d)' => LoginAt(j + 1, d))
      BY <1>3, <1>4 DEF LoginAt
    <2>2. i + 1 \in 1..QueueLength /\ LoginAt(i + 1, d) /\ QueuedTask(i)' = QueuedTask(i + 1)
      BY <1>3, <2>1
    <2>3. d # c
      BY <1>8, <2>1, <2>2
    <2>4. /\ connected[d] # Nobody /\ QueuedTask(i + 1).user = connected[d]
          /\ identified[d] /\ players[d] = NoPlayer
          /\ \A j \in 1..QueueLength : LoginAt(j, d) => i + 1 = j
      BY <2>2 DEF LoginInv, LoginsInv
    <2>5. ASSUME NEW j \in 1..QueueLength', LoginAt(j, d)'
          PROVE  i = j
      <3>1. i + 1 = j + 1
        BY <2>1, <2>4, <2>5
      <3> QED BY <3>1
    <2> QED BY <1>1, <1>9, <2>2, <2>3, <2>4, <2>5
  <1> QED BY <1>10, <1>11, <1>12 DEF LoginInv

\* The other callbacks only change records.
LEMMA CallbackLogin ==
    ASSUME TypeInv, LoginInv, RunCallback, TypeInv'
    PROVE  LoginInv'
  <1> DEFINE o == Head(completed)
  <1>1. /\ completed # <<>> /\ PopCompleted /\ UNCHANGED <<connected, identified, timerunActive>>
    BY CallbackSteps DEF clients
  <1>2. QueueType /\ QueueType'
    BY DEF TypeInv
  <1>3. SameLogins /\ o \in Outcome
    BY <1>1, <1>2, PopLogins, PopQueue
  <1>4. QueueLength' \in Nat
    BY <1>2 DEF QueueType, QueueLength
  <1>5. CASE CheckCallback \/ ArchiveCallback
    <2>1. o.ok /\ PatchPlayer(o.task.user, o.patch)
      BY <1>5 DEF CheckCallback, ArchiveCallback
    <2> HIDE DEF o
    <2>2. o.patch \in Patch
      BY <1>3, <2>1, OutcomeFields
    <2>3. \A c \in Slot :
             \/ players'[c] = players[c]
             \/ /\ c \in SlotsOf(o.task.user) /\ players[c] \in PlayerState
                /\ players'[c] = [players[c] EXCEPT !.records = Patched(@, o.patch)]
      BY <2>1, <2>2, PatchPlayerRuns
    <2>4. ASSUME NEW c \in Slot
          PROVE  /\ players'[c] # NoPlayer <=> players[c] # NoPlayer
                 /\ players[c] # NoPlayer => /\ players'[c].user = players[c].user
                                             /\ players'[c].running = players[c].running
      <3>1. CASE players'[c] = players[c]
        BY <3>1
      <3>2. CASE /\ players[c] \in PlayerState
                 /\ players'[c] = [players[c] EXCEPT !.records = Patched(@, o.patch)]
        <4>1. Patched(players[c].records, o.patch) \in Cache
          BY <2>2, <3>2, PatchedType DEF PlayerState
        <4>2. players'[c] \in PlayerState
          BY <3>2, <4>1 DEF PlayerState
        <4> QED BY <3>2, <4>2, NoPlayerAssumption DEF PlayerState
      <3> QED BY <2>3, <3>1, <3>2
    <2>5. SamePlayers
      BY <2>4 DEF SamePlayers
    <2>6. ActiveIffRunning'
      BY <1>1, <2>4 DEF LoginInv, ActiveIffRunning, Running
    <2> QED BY <1>1, <1>3, <1>4, <2>5, <2>6, KeepLogins DEF LoginInv
  <1>6. CASE PrintCallback
    <2>1. players' = players
      BY <1>6 DEF PrintCallback
    <2>2. SamePlayers /\ ActiveIffRunning'
      BY <1>1, <2>1 DEF SamePlayers, LoginInv, ActiveIffRunning, Running
    <2> QED BY <1>1, <1>3, <1>4, <2>2, KeepLogins DEF LoginInv
  <1> QED BY <1>5, <1>6, ConnectCallbackLogin DEF RunCallback

LEMMA LoginInit == TimerunInit => LoginInv
  BY DEF TimerunInit, LoginInv, OwnersInv, UsersInv, LoginsInv, ActiveIffRunning, QueueLength

LEMMA LoginSteps ==
    ASSUME Orderly, TypeInv, TypeInv', LoginInv, [TimerunNext]_timerunVars
    PROVE  LoginInv'
  <1>1. ASSUME NEW c \in Slot, Interrupt(c)
        PROVE  LoginInv'
    BY <1>1, RunLogin DEF Interrupt, EndRun, Running
  <1>2. ASSUME NEW c \in Slot, NEW r \in Run, StartTimer(c, r) \/ StartSaveposTimer(c, r)
        PROVE  LoginInv'
    BY <1>2, RunLogin DEF StartTimer, StartSaveposTimer
  <1>3. ASSUME NEW c \in Slot, NEW r \in Run, NEW t \in 1..MaxTime, StopTimer(c, r, t)
        PROVE  LoginInv'
    <2>1. players[c] # NoPlayer /\ EndRun(c)
      BY <1>3 DEF StopTimer, Running
    <2>2. players[c].user \in User
      BY <2>1, PlayerType DEF PlayerState
    <2>3. [kind |-> "check", user |-> players[c].user, run |-> r, time |-> t] \in Task
      BY <2>2 DEF Task
    <2>4. UNCHANGED tasks \/ \E x \in Task : x.kind # "connect" /\ Post(x)
      BY <1>3, <2>3 DEF StopTimer
    <2> QED BY <2>1, <2>4, RunLogin DEF EndRun
  <1>4. CASE ClientStep
    BY <1>1, <1>2, <1>3, <1>4, ConnectLogin, AuthenticateLogin, DisconnectLogin, MapChangeLogin
       DEF ClientStep
  <1>5. CASE UNCHANGED timerunVars
    BY <1>5 DEF timerunVars, clients, tasks, LoginInv, OwnersInv, UsersInv, LoginsInv,
                ActiveIffRunning, Running, QueueLength, QueuedTask, LoginAt
  <1> QED BY <1>4, <1>5, CommandLogin, TaskLogin, CallbackLogin DEF TimerunNext

LEMMA LoginInvariance == Orderly /\ TimerunSpec => [](TypeInv /\ LoginInv)
  <1> SUFFICES ASSUME Orderly PROVE TimerunSpec => [](TypeInv /\ LoginInv)
    OBVIOUS
  <1>1. TypeInv /\ TypeInv' /\ LoginInv /\ [TimerunNext]_timerunVars => LoginInv'
    BY LoginSteps
  <1>2. TimerunInit => LoginInv
    BY LoginInit
  <1> QED BY <1>1, <1>2, TimerunInvariance, PTL DEF TimerunSpec

\* When clients finish their login before they leave and none is banned, a player
\* object is that of the client of its slot: for any number of slots, no order of
\* logins, disconnects, map changes and callbacks records a run for somebody else.
THEOREM PlayersBelong == OrderlyClients /\ Banned = {} /\ TimerunSpec => []PlayerIsClient
  <1>1. LoginInv => PlayerIsClient
    BY DEF LoginInv, OwnersInv, PlayerIsClient
  <1> QED BY <1>1, LoginInvariance, PTL DEF Orderly

\* And its session flag says whether it is in a run: neither a login whose callback
\* is late nor a callback that patches records sets one without the other.
THEOREM FlagsAgree == OrderlyClients /\ Banned = {} /\ TimerunSpec => []ActiveIffRunning
  <1>1. LoginInv => ActiveIffRunning
    BY DEF LoginInv
  <1> QED BY <1>1, LoginInvariance, PTL DEF Orderly

\* What the comment of checkRecord relies on holds for them: the slot its callback
\* finds for a user is the one that user plays from.
THEOREM SlotsResolve == OrderlyClients /\ Banned = {} /\ TimerunSpec => []ResolvedSlotIsValid
  <1>1. PlayerIsClient => ResolvedSlotIsValid
    <2> SUFFICES ASSUME PlayerIsClient, NEW u \in Person, SlotsOf(u) # {}
                 PROVE  connected[FirstSlotOf(u)] = u
      BY DEF ResolvedSlotIsValid
    <2>1. FirstSlotOf(u) \in SlotsOf(u)
      BY FirstSlot
    <2> QED BY <2>1 DEF PlayerIsClient, SlotsOf
  <1> QED BY <1>1, PlayersBelong, PTL
=============================================================================
