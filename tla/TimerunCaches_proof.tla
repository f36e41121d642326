-------------------------- MODULE TimerunCaches_proof --------------------------
(***************************************************************************)
(* What callbacks that are late may and may not do: the caches of the      *)
(* players end up with the rows of the database, and the records that are  *)
(* announced get better, for any users, slots, runs and bounds.            *)
(***************************************************************************)
EXTENDS TimerunV2_proof

-----------------------------------------------------------------------------
(* The callbacks that will patch a row.                                    *)

LEMMA PatchingWrites ==
    ASSUME NEW u, NEW k
    PROVE  Patching(u, k) = {i \in 1..Len(completed) : Writes(completed[i], u, k)}
  BY DEF Patching, Writes

\* The worker adds the outcome it moves, if it writes the row.
LEMMA PatchingMoved ==
    ASSUME QueueType, NEW STATE o, Moved(o), NEW u, NEW k
    PROVE  /\ Len(completed) \in Nat /\ Len(completed) + 1 \notin Patching(u, k)
           /\ completed'[Len(completed) + 1] = o
           /\ \A i \in Patching(u, k) : i <= Len(completed) /\ completed'[i] = completed[i]
           /\ Writes(o, u, k) => Patching(u, k)' = Patching(u, k) \cup {Len(completed) + 1}
           /\ ~Writes(o, u, k) => Patching(u, k)' = Patching(u, k)
  <1> DEFINE n == Len(completed)
  <1>1. /\ n \in Nat /\ Len(completed') = n + 1 /\ completed'[n + 1] = o
        /\ \A i \in 1..n : completed'[i] = completed[i]
    BY WorkQueue DEF QueueType
  <1>2. Patching(u, k) = {i \in 1..n : Writes(completed[i], u, k)}
    BY PatchingWrites
  <1>3. Patching(u, k)' = {i \in 1..(n + 1) : Writes(completed'[i], u, k)}
    BY <1>1 DEF Patching, Writes
  <1>4. \A i \in 1..(n + 1) : i \in 1..n \/ i = n + 1
    BY <1>1
  <1> HIDE DEF n
  <1>5. Writes(o, u, k) => Patching(u, k)' = Patching(u, k) \cup {n + 1}
    BY <1>1, <1>2, <1>3, <1>4
  <1>6. ~Writes(o, u, k) => Patching(u, k)' = Patching(u, k)
    BY <1>1, <1>2, <1>3, <1>4
  <1>7. n + 1 \notin Patching(u, k) /\ \A i \in Patching(u, k) : i <= n /\ completed'[i] = completed[i]
    BY <1>1, <1>2
  <1> QED BY <1>1, <1>5, <1>6, <1>7 DEF n

\* The game thread takes the first one off.
LEMMA PatchingPopped ==
    ASSUME QueueType, completed # <<>>, PopCompleted, NEW u, NEW k
    PROVE  /\ Len(completed) \in Nat /\ Patching(u, k) \subseteq 1..Len(completed)
           /\ 1 \in Patching(u, k) <=> Writes(Head(completed), u, k)
           /\ \A i \in Patching(u, k)' : i \in Nat /\ i + 1 \in Patching(u, k) /\ completed'[i] = completed[i + 1]
           /\ \A i \in Patching(u, k) : i = 1 \/ i - 1 \in Patching(u, k)'
  <1> DEFINE n == Len(completed)
  <1>1. /\ n \in Nat /\ n >= 1 /\ Len(completed') = n - 1 /\ Head(completed) = completed[1]
        /\ \A i \in 1..(n - 1) : completed'[i] = completed[i + 1]
    BY PopQueue DEF QueueType
  <1>2. Patching(u, k) = {i \in 1..n : Writes(completed[i], u, k)}
    BY PatchingWrites
  <1>3. Patching(u, k)' = {i \in 1..(n - 1) : Writes(completed'[i], u, k)}
    BY <1>1 DEF Patching, Writes
  <1> HIDE DEF n
  <1>4. 1 \in Patching(u, k) <=> Writes(Head(completed), u, k)
    BY <1>1, <1>2
  <1>5. \A i \in Patching(u, k)' : i \in Nat /\ i + 1 \in Patching(u, k) /\ completed'[i] = completed[i + 1]
    <2> TAKE i \in Patching(u, k)'
    <2>1. i \in 1..(n - 1) /\ i + 1 \in 1..n /\ completed'[i] = completed[i + 1] /\ Writes(completed'[i], u, k)
      BY <1>1, <1>3
    <2> QED BY <1>2, <2>1
  <1>6. \A i \in Patching(u, k) : i = 1 \/ i - 1 \in Patching(u, k)'
    <2> SUFFICES ASSUME NEW i \in Patching(u, k), i # 1
                 PROVE  i - 1 \in Patching(u, k)'
      OBVIOUS
    <2>1. i - 1 \in 1..(n - 1) /\ (i - 1) + 1 = i /\ Writes(completed[i], u, k)
      BY <1>1, <1>2
    <2>2. completed'[i - 1] = completed[i]
      BY <1>1, <2>1
    <2> QED BY <1>3, <2>1, <2>2
  <1> QED BY <1>1, <1>2, <1>4, <1>5, <1>6 DEF n

\* One of them is the last.
LEMMA LastPatching ==
    ASSUME QueueType, NEW u, NEW k, Patching(u, k) # {}
    PROVE  \E i \in Patching(u, k) : \A j \in Patching(u, k) : j <= i
  <1> DEFINE n == Len(completed)
             S == {n - i : i \in Patching(u, k)}
  <1>1. n \in Nat /\ Patching(u, k) \subseteq 1..n
    BY DEF QueueType, Patching
  <1>2. S \subseteq Nat /\ S # {}
    BY <1>1
  <1>3. PICK x \in S : \A y \in S : x <= y
    <2> HIDE DEF S
    <2> QED BY <1>2, LeastExists
  <1>4. PICK i \in Patching(u, k) : x = n - i
    BY <1>3
  <1>5. ASSUME NEW j \in Patching(u, k)
        PROVE  j <= i
    <2>1. n - j \in S
      OBVIOUS
    <2>2. n - i <= n - j
      BY <1>3, <1>4, <2>1
    <2> QED BY <1>1, <2>2
  <1> QED BY <1>5

-----------------------------------------------------------------------------
(* The caches.                                                             *)

\* Where a row of the overall season is in a cache.
Overall(r) == <<Default, r>>

\* The last callback that will patch a row writes what the database holds.
LastPatchStored ==
    \A u \in User, r \in Run : \A i \in Patching(u, Overall(r)) :
       (\A j \in Patching(u, Overall(r)) : j <= i) =>
          completed[i].patch[Overall(r)] = db.live[Row(Default, u, r)]

\* A cached row no callback will patch is what the database holds.
CachedStored ==
    \A c \in Slot, r \in Run :
       players[c] # NoPlayer /\ Patching(players[c].user, Overall(r)) = {} =>
          players[c].records[Overall(r)] = db.live[Row(Default, players[c].user, r)]

CacheInv == LastPatchStored /\ CachedStored

LEMMA CacheInvFollows ==
    ASSUME TypeInv, CacheInv
    PROVE  CacheFollowsDatabase
  <1> SUFFICES ASSUME NEW c \in Slot, NEW r \in Run, players[c] # NoPlayer
               PROVE  Settled(players[c].records, players[c].user, Overall(r))
                         = db.live[Row(Default, players[c].user, r)]
    BY DEF CacheFollowsDatabase, Overall
  <1> DEFINE u == players[c].user
             last(i) == \A j \in Patching(u, Overall(r)) : j <= i
  <1>1. u \in User /\ QueueType
    BY PlayerType DEF PlayerState, TypeInv
  <1>2. CASE Patching(u, Overall(r)) = {}
    BY <1>2 DEF Settled, CacheInv, CachedStored
  <1>3. CASE Patching(u, Overall(r)) # {}
    <2>1. \E i \in Patching(u, Overall(r)) : last(i)
      BY <1>1, <1>3, LastPatching
    <2>2. \A i \in Patching(u, Overall(r)) :
             last(i) => completed[i].patch[Overall(r)] = db.live[Row(Default, u, r)]
      BY <1>1 DEF CacheInv, LastPatchStored
    <2>3. Settled(players[c].records, u, Overall(r)) =
             completed[CHOOSE i \in Patching(u, Overall(r)) : last(i)].patch[Overall(r)]
      BY <1>3 DEF Settled
    <2> HIDE DEF last, u
    <2>4. LET i == CHOOSE i \in Patching(u, Overall(r)) : last(i)
          IN  i \in Patching(u, Overall(r)) /\ last(i)
      BY <2>1
    <2> QED BY <2>2, <2>3, <2>4 DEF u
  <1> QED BY <1>2, <1>3

\* Steps of the clients keep the records of a player, or drop the player.
LEMMA GameCaches ==
    ASSUME TypeInv, CacheInv, ClientStep \/ CommandStep
    PROVE  CacheInv'
  <1>1. db' = db
    BY GameSteps DEF repositoryVars
  <1>2. CASE MapChange
    <2>1. completed' = <<>> /\ \A c \in Slot : players'[c] = NoPlayer
      BY <1>2 DEF MapChange
    <2>2. \A u, k : Patching(u, k)' = {}
      BY <2>1 DEF Patching
    <2> QED BY <2>1, <2>2 DEF CacheInv, LastPatchStored, CachedStored
  <1>3. CASE ~MapChange
    <2>1. completed' = completed
      BY <1>3, GameSteps DEF tasks, Post
    <2>2. \A c \in Slot :
             players'[c] # NoPlayer =>
                /\ players[c] # NoPlayer
                /\ players'[c].user = players[c].user /\ players'[c].records = players[c].records
      <3>1. players \in [Slot -> PlayerState \cup {NoPlayer}]
        BY DEF TypeInv, TimerunTypeOK
      <3>2. ASSUME NEW c \in Slot, NEW b, NEW r, players[c] # NoPlayer,
                   players' = [players EXCEPT ![c].running = b, ![c].run = r]
            PROVE  /\ players'[c].user = players[c].user /\ players'[c].records = players[c].records
                   /\ \A d \in Slot : d # c => players'[d] = players[d]
        <4>1. players[c] \in PlayerState
          BY <3>2, PlayerType
        <4>2. players'[c] = [players[c] EXCEPT !.running = b, !.run = r]
          BY <3>1, <3>2, <4>1 DEF PlayerState
        <4>3. \A d \in Slot : d # c => players'[d] = players[d]
          BY <3>1, <3>2
        <4>4. players'[c].user = players[c].user /\ players'[c].records = players[c].records
          BY <4>1, <4>2 DEF PlayerState
        <4> QED BY <4>3, <4>4
      <3>3. ASSUME NEW c \in Slot,
                   \/ \E r \in Run : StartTimer(c, r) \/ StartSaveposTimer(c, r)
                   \/ Interrupt(c) \/ \E r \in Run, t \in 1..MaxTime : StopTimer(c, r, t)
            PROVE  \E b, r : /\ players[c] # NoPlayer
                             /\ players' = [players EXCEPT ![c].running = b, ![c].run = r]
        BY <3>3 DEF StartTimer, StartSaveposTimer, Interrupt, StopTimer, EndRun, Running
      <3>4. ASSUME NEW c \in Slot, (\E u \in Person : Connect(c, u)) \/ Authenticate(c) \/ Disconnect(c)
            PROVE  \A d \in Slot : players'[d] # NoPlayer => players'[d] = players[d]
        BY <3>1, <3>4 DEF Connect, Authenticate, Disconnect
      <3>5. CommandStep => players' = players
        BY DEF CommandStep, RemoveCommand, RestoreCommand, SeasonCommand, PostCommand
      <3>6. CASE CommandStep
        BY <3>5, <3>6
      <3>7. CASE ClientStep
        <4>1. PICK c \in Slot :
                 \/ (\E u \in Person : Connect(c, u)) \/ Authenticate(c) \/ Disconnect(c)
                 \/ (\E r \in Run : StartTimer(c, r) \/ StartSaveposTimer(c, r))
                 \/ Interrupt(c) \/ (\E r \in Run, t \in 1..MaxTime : StopTimer(c, r, t))
          BY <1>3, <3>7 DEF ClientStep
        <4>2. CASE (\E u \in Person : Connect(c, u)) \/ Authenticate(c) \/ Disconnect(c)
          BY <3>4, <4>2
        <4>3. CASE \/ \E r \in Run : StartTimer(c, r) \/ StartSaveposTimer(c, r)
                   \/ Interrupt(c) \/ \E r \in Run, t \in 1..MaxTime : StopTimer(c, r, t)
          <5>1. PICK b, r : /\ players[c] # NoPlayer
                            /\ players' = [players EXCEPT ![c].running = b, ![c].run = r]
            BY <3>3, <4>3
          <5>2. /\ players'[c].user = players[c].user /\ players'[c].records = players[c].records
                /\ \A d \in Slot : d # c => players'[d] = players[d]
            BY <3>2, <5>1
          <5> QED BY <5>1, <5>2
        <4> QED BY <4>1, <4>2, <4>3
      <3> QED BY <3>6, <3>7
    <2>3. \A u, k : Patching(u, k)' = Patching(u, k)
      BY <2>1 DEF Patching
    <2>4. LastPatchStored'
      BY <1>1, <2>1, <2>3 DEF CacheInv, LastPatchStored
    <2>5. CachedStored'
      <3> SUFFICES ASSUME NEW c \in Slot, NEW r \in Run, players'[c] # NoPlayer,
                          Patching(players[c].user, Overall(r)) = {}
                   PROVE  players'[c].records[Overall(r)] = db.live[Row(Default, players[c].user, r)]
        BY <1>1, <2>1, <2>2 DEF CachedStored, Patching
      <3> QED BY <2>2 DEF CacheInv, CachedStored
    <2> QED BY <2>4, <2>5 DEF CacheInv
  <1> QED BY <1>2, <1>3

\* The worker: what it changes in the database is in the outcome it leaves.
LEMMA TaskCaches ==
    ASSUME TypeInv, CacheInv, RunTask
    PROVE  CacheInv'
  <1>1. PICK o : Moved(o) /\ Follows(o)
    BY TaskSteps
  <1>2. players' = players /\ QueueType
    BY TaskSteps DEF TypeInv
  <1>3. ASSUME NEW u \in User, NEW r \in Run
        PROVE  /\ \A i \in Patching(u, Overall(r))' :
                     (\A j \in Patching(u, Overall(r))' : j <= i) =>
                        completed'[i].patch[Overall(r)] = db'.live[Row(Default, u, r)]
               /\ Patching(u, Overall(r))' = {} =>
                     /\ Patching(u, Overall(r)) = {}
                     /\ db'.live[Row(Default, u, r)] = db.live[Row(Default, u, r)]
    <2> DEFINE n == Len(completed)
               S == Patching(u, Overall(r))
    <2>1. /\ n \in Nat /\ n + 1 \notin S /\ completed'[n + 1] = o
          /\ \A i \in S : i <= n /\ completed'[i] = completed[i]
          /\ Writes(o, u, Overall(r)) => S' = S \cup {n + 1}
          /\ ~Writes(o, u, Overall(r)) => S' = S
      BY <1>1, <1>2, PatchingMoved
    <2>2. /\ Writes(o, u, Overall(r)) =>
                o.patch[Overall(r)] = db'.live[Row(Default, u, r)]
          /\ ~Writes(o, u, Overall(r)) =>
                db'.live[Row(Default, u, r)] = db.live[Row(Default, u, r)]
      BY <1>1 DEF Follows, Overall
    <2>3. \A i \in S : (\A j \in S : j <= i) =>
                           completed[i].patch[Overall(r)] = db.live[Row(Default, u, r)]
      BY DEF CacheInv, LastPatchStored
    <2>4. S \subseteq Nat
      BY DEF Patching
    <2> HIDE DEF S, n
    <2>5. CASE Writes(o, u, Overall(r))
      <3>1. S' = S \cup {n + 1}
        BY <2>1, <2>5
      <3>2. \A i \in S' : (\A j \in S' : j <= i) => i = n + 1
        <4> SUFFICES ASSUME NEW i \in S, \A j \in S' : j <= i
                     PROVE  FALSE
          BY <3>1
        <4>1. n + 1 <= i /\ i <= n /\ i \in Nat
          BY <2>1, <2>4, <3>1
        <4> QED BY <2>1, <4>1
      <3> QED BY <2>1, <2>2, <2>5, <3>1, <3>2 DEF S
    <2>6. CASE ~Writes(o, u, Overall(r))
      BY <2>1, <2>2, <2>3, <2>6 DEF S
    <2> QED BY <2>5, <2>6
  <1>4. LastPatchStored'
    BY <1>3 DEF LastPatchStored
  <1>5. CachedStored'
    <2> SUFFICES ASSUME NEW c \in Slot, NEW r \in Run, players[c] # NoPlayer,
                        Patching(players[c].user, Overall(r))' = {}
                 PROVE  players[c].records[Overall(r)] = db'.live[Row(Default, players[c].user, r)]
      BY <1>2 DEF CachedStored, Patching
    <2> DEFINE u == players[c].user
    <2>1. u \in User
      BY PlayerType DEF PlayerState
    <2>2. players'[c].user = u
      BY <1>2
    <2>3. /\ Patching(u, Overall(r)) = {}
          /\ db'.live[Row(Default, u, r)] = db.live[Row(Default, u, r)]
      BY <1>2, <1>3, <2>1
    <2> QED BY <2>3 DEF CacheInv, CachedStored
  <1> QED BY <1>4, <1>5 DEF CacheInv

\* Once a callback is taken off, the last of those that remain is the one it was; when
\* none remains for a row, the callback itself was the last, or there was none.
LEMMA PoppedRow ==
    ASSUME TypeInv, CacheInv, completed # <<>>, PopCompleted, db' = db,
           NEW u \in User, NEW r \in Run
    PROVE  /\ \A i \in Patching(u, Overall(r))' :
                 (\A j \in Patching(u, Overall(r))' : j <= i) =>
                    completed'[i].patch[Overall(r)] = db'.live[Row(Default, u, r)]
           /\ Patching(u, Overall(r))' = {} =>
                 IF Writes(Head(completed), u, Overall(r))
                 THEN Head(completed).patch[Overall(r)] = db.live[Row(Default, u, r)]
                 ELSE Patching(u, Overall(r)) = {}
  <1> DEFINE n == Len(completed)
             S == Patching(u, Overall(r))
  <1>1. QueueType
    BY DEF TypeInv
  <1>2. /\ n \in Nat /\ S \subseteq 1..n
        /\ 1 \in S <=> Writes(Head(completed), u, Overall(r))
        /\ \A i \in S' : i \in Nat /\ i + 1 \in S /\ completed'[i] = completed[i + 1]
        /\ \A i \in S : i = 1 \/ i - 1 \in S'
    BY <1>1, PatchingPopped
  <1>3. \A i \in S : (\A j \in S : j <= i) =>
                         completed[i].patch[Overall(r)] = db.live[Row(Default, u, r)]
    BY DEF CacheInv, LastPatchStored
  <1>4. Head(completed) = completed[1]
    BY <1>1, PopQueue
  <1> HIDE DEF n, S
  <1>5. ASSUME NEW i \in S', \A j \in S' : j <= i
        PROVE  completed'[i].patch[Overall(r)] = db'.live[Row(Default, u, r)]
    <2>1. i \in Nat /\ i + 1 \in S /\ completed'[i] = completed[i + 1]
      BY <1>2
    <2>2. ASSUME NEW j \in S
          PROVE  j <= i + 1
      <3>1. CASE j = 1
        BY <2>1, <3>1
      <3>2. CASE j - 1 \in S'
        <4>1. j - 1 <= i /\ j \in 1..n
          BY <1>2, <1>5, <3>2
        <4> QED BY <1>2, <2>1, <4>1
      <3> QED BY <1>2, <3>1, <3>2
    <2> QED BY <1>3, <2>1, <2>2
  <1>6. ASSUME S' = {}
        PROVE  IF Writes(Head(completed), u, Overall(r))
               THEN Head(completed).patch[Overall(r)] = db.live[Row(Default, u, r)]
               ELSE S = {}
    <2>1. \A i \in S : i = 1
      BY <1>2, <1>6
    <2>2. CASE Writes(Head(completed), u, Overall(r))
      BY <1>2, <1>3, <1>4, <2>1, <2>2
    <2>3. CASE ~Writes(Head(completed), u, Overall(r))
      BY <1>2, <2>1, <2>3
    <2> QED BY <2>2, <2>3
  <1> QED BY <1>5, <1>6 DEF S

\* A callback changes the records of the user of its task only, and finds the one
\* player that user has.
LEMMA CallbackCaches ==
    ASSUME TypeInv, LoginInv, CacheInv, RunCallback
    PROVE  CacheInv'
  <1> DEFINE o == Head(completed)
  <1>1. completed # <<>> /\ PopCompleted /\ db' = db
    BY CallbackSteps DEF repositoryVars
  <1>2. QueueType /\ o \in Outcome /\ QueuedTask(1) = o.task /\ QueueLength >= 1 /\ QueueLength \in Nat
    BY <1>1, PopQueue, LengthIsNat DEF TypeInv
  <1>3. \A u \in User, r \in Run :
           /\ \A i \in Patching(u, Overall(r))' :
                 (\A j \in Patching(u, Overall(r))' : j <= i) =>
                    completed'[i].patch[Overall(r)] = db'.live[Row(Default, u, r)]
           /\ Patching(u, Overall(r))' = {} =>
                 IF Writes(o, u, Overall(r))
                 THEN o.patch[Overall(r)] = db.live[Row(Default, u, r)]
                 ELSE Patching(u, Overall(r)) = {}
    BY <1>1, PoppedRow
  <1>4. LastPatchStored'
    BY <1>3 DEF LastPatchStored
  <1> HIDE DEF o
  <1>5. \A r \in Run : Overall(r) \in CacheKey
    BY ActiveSeasons DEF Overall, CacheKey
  <1>6. ASSUME NEW c \in Slot, players'[c] # NoPlayer
        PROVE  \/ /\ players'[c].user \in User
                  /\ \A r \in Run : /\ Writes(o, players'[c].user, Overall(r))
                                    /\ players'[c].records[Overall(r)] = o.patch[Overall(r)]
               \/ /\ players[c] # NoPlayer /\ players'[c].user = players[c].user
                  /\ \A r \in Run :
                        players'[c].records[Overall(r)] =
                           IF Writes(o, players[c].user, Overall(r)) THEN o.patch[Overall(r)]
                           ELSE players[c].records[Overall(r)]
    <2>1. players \in [Slot -> PlayerState \cup {NoPlayer}]
      BY DEF TypeInv, TimerunTypeOK
    <2>2. CASE ConnectCallback
      <3> DEFINE p == NewPlayer(o.task.user, o.patch)
      <3>1. /\ o.ok /\ o.task.kind = "connect"
            /\ players' = [players EXCEPT ![o.task.slot] = p]
        BY <2>2 DEF ConnectCallback, o
      <3>2. /\ o.patch \in Cache /\ o.task \in Task /\ o.task.slot \in Slot /\ o.task.user \in User
        BY <1>2, <3>1, OutcomeFields, TaskFields
      <3>3. p.user = o.task.user /\ p.records = o.patch
        BY DEF NewPlayer
      <3> HIDE DEF p
      <3>4. CASE c = o.task.slot
        <4>1. players'[c] = p
          BY <2>1, <3>1, <3>2, <3>4
        <4>2. DOMAIN o.patch = CacheKey
          BY <3>2 DEF Cache
        <4> QED BY <1>5, <3>1, <3>2, <3>3, <4>1, <4>2 DEF Writes
      <3>5. CASE c # o.task.slot
        <4>1. players'[c] = players[c]
          BY <2>1, <3>1, <3>5
        <4>2. LoginAt(1, o.task.slot) /\ 1 \in 1..QueueLength
          BY <1>2, <3>1 DEF LoginAt
        <4>3. connected[o.task.slot] # Nobody /\ o.task.user = connected[o.task.slot]
          BY <1>2, <3>2, <4>2 DEF LoginInv, LoginsInv
        <4>4. players[c].user = connected[c]
          BY <1>6, <4>1 DEF LoginInv, OwnersInv
        <4>5. players[c].user # o.task.user
          BY <3>2, <3>5, <4>3, <4>4 DEF LoginInv, UsersInv
        <4> QED BY <1>6, <4>1, <4>5 DEF Writes
      <3> QED BY <3>4, <3>5
    <2>3. CASE CheckCallback \/ ArchiveCallback
      <3>1. /\ o.ok /\ o.task.kind \in {"check", "remove", "restore"}
            /\ PatchPlayer(o.task.user, o.patch)
        BY <2>3 DEF CheckCallback, ArchiveCallback, o
      <3>2. o.patch \in Patch
        BY <1>2, <3>1, OutcomeFields
      <3> DEFINE f == FirstSlotOf(o.task.user)
      <3>3. /\ \/ players'[c] = players[c]
               \/ /\ c \in SlotsOf(o.task.user) /\ players[c] \in PlayerState
                  /\ players'[c] = [players[c] EXCEPT !.records = Patched(@, o.patch)]
            /\ SlotsOf(o.task.user) # {} =>
                  players'[f] = [players[f] EXCEPT !.records = Patched(@, o.patch)]
        BY <3>1, <3>2, PatchPlayerRuns
      <3>4. players[c] # NoPlayer
        BY <1>6, <3>3 DEF SlotsOf
      <3>5. players[c] \in PlayerState
        BY <3>4, PlayerType
      <3>6. CASE players[c].user # o.task.user
        <4>1. players'[c] = players[c]
          BY <3>3, <3>6 DEF SlotsOf
        <4> QED BY <3>4, <3>6, <4>1 DEF Writes
      <3>7. CASE players[c].user = o.task.user
        <4>1. c \in SlotsOf(o.task.user)
          BY <3>4, <3>7 DEF SlotsOf
        <4>2. f \in SlotsOf(o.task.user)
          BY <4>1, FirstSlot
        <4>3. f = c
          BY <4>1, <4>2 DEF LoginInv, OwnersInv, UsersInv, SlotsOf
        <4>4. players'[c] = [players[c] EXCEPT !.records = Patched(@, o.patch)]
          BY <3>3, <4>1, <4>3
        <4>5. /\ players'[c].user = players[c].user
              /\ players'[c].records = Patched(players[c].records, o.patch)
          BY <3>5, <4>4 DEF PlayerState
        <4>6. \A r \in Run :
                 players'[c].records[Overall(r)] =
                    IF Overall(r) \in DOMAIN o.patch THEN o.patch[Overall(r)]
                    ELSE players[c].records[Overall(r)]
          BY <1>5, <4>5 DEF Patched
        <4>7. \A r \in Run : Writes(o, players[c].user, Overall(r)) <=> Overall(r) \in DOMAIN o.patch
          BY <3>1, <3>7 DEF Writes
        <4> QED BY <3>4, <4>5, <4>6, <4>7
      <3> QED BY <3>6, <3>7
    <2>4. CASE PrintCallback
      <3>1. players' = players /\ (~o.ok \/ o.task.kind \in {"addSeason", "editSeason", "deleteSeason"})
        BY <2>4 DEF PrintCallback, o
      <3> QED BY <1>6, <3>1 DEF Writes
    <2> QED BY <2>2, <2>3, <2>4 DEF RunCallback
  <1>7. CachedStored'
    <2> SUFFICES ASSUME NEW c \in Slot, NEW r \in Run, players'[c] # NoPlayer,
                        Patching(players[c].user, Overall(r))' = {}
                 PROVE  players'[c].records[Overall(r)] = db.live[Row(Default, players'[c].user, r)]
      BY <1>1 DEF CachedStored, Patching
    <2>1. ASSUME NEW u \in User, u = players'[c].user
          PROVE  Patching(u, Overall(r))' = {}
      BY <2>1 DEF Patching
    <2>2. CASE /\ players'[c].user \in User
               /\ \A s \in Run : /\ Writes(o, players'[c].user, Overall(s))
                                 /\ players'[c].records[Overall(s)] = o.patch[Overall(s)]
      BY <1>3, <2>1, <2>2
    <2>3. CASE /\ players[c] # NoPlayer /\ players'[c].user = players[c].user
               /\ \A s \in Run :
                     players'[c].records[Overall(s)] =
                        IF Writes(o, players[c].user, Overall(s)) THEN o.patch[Overall(s)]
                        ELSE players[c].records[Overall(s)]
      <3> DEFINE u == players[c].user
      <3>1. u \in User
        BY <2>3, PlayerType DEF PlayerState
      <3>2. Patching(u, Overall(r)) = {} =>
               players[c].records[Overall(r)] = db.live[Row(Default, u, r)]
        BY <2>3 DEF CacheInv, CachedStored
      <3> HIDE DEF u
      <3>3. IF Writes(o, u, Overall(r))
            THEN o.patch[Overall(r)] = db.live[Row(Default, u, r)]
            ELSE Patching(u, Overall(r)) = {}
        BY <1>3, <2>1, <2>3, <3>1 DEF u
      <3> QED BY <2>3, <3>2, <3>3 DEF u
    <2> QED BY <1>6, <2>2, <2>3
  <1> QED BY <1>4, <1>7 DEF CacheInv

LEMMA CacheSteps ==
    ASSUME TypeInv, LoginInv, CacheInv, [TimerunNext]_timerunVars
    PROVE  CacheInv'
  <1>1. CASE UNCHANGED timerunVars
    <2>1. /\ db' = db /\ players' = players /\ completed' = completed
      BY <1>1 DEF timerunVars, repositoryVars, tasks
    <2> QED BY <2>1 DEF CacheInv, LastPatchStored, CachedStored, Patching
  <1> QED BY <1>1, GameCaches, TaskCaches, CallbackCaches DEF TimerunNext

LEMMA CacheInit == TimerunInit => CacheInv
  <1> SUFFICES ASSUME TimerunInit PROVE CacheInv
    OBVIOUS
  <1>1. \A c \in Slot : players[c] = NoPlayer
    BY DEF TimerunInit
  <1>2. \A u, k : Patching(u, k) = {}
    BY DEF TimerunInit, Patching
  <1> QED BY <1>1, <1>2 DEF CacheInv, LastPatchStored, CachedStored

\* When clients are orderly, a player's cached overall records are the stored ones as
\* soon as the callbacks of what the worker has done are in, whatever the order in
\* which users connect, complete runs and have records removed and restored.
THEOREM CachesFollow == OrderlyClients /\ Banned = {} /\ TimerunSpec => []CacheFollowsDatabase
  <1> SUFFICES ASSUME Orderly PROVE TimerunSpec => []CacheFollowsDatabase
    BY DEF Orderly
  <1>1. TypeInv /\ LoginInv /\ CacheInv /\ [TimerunNext]_timerunVars => CacheInv'
    BY CacheSteps
  <1>2. TimerunInit => CacheInv
    BY CacheInit
  <1>3. TypeInv /\ CacheInv => CacheFollowsDatabase
    BY CacheInvFollows
  <1>4. TimerunSpec => [](TypeInv /\ LoginInv)
    BY LoginInvariance
  <1> QED BY <1>1, <1>2, <1>3, <1>4, PTL DEF TimerunSpec

-----------------------------------------------------------------------------
(* The overall records that are announced.                                 *)

\* The outcome is the overall record of run r, or may change any of its records.
IsTop(o, r) == o.ok /\ o.task.kind = "check" /\ o.task.run = r /\ o.top

IsReset(o, r) ==
    /\ o.ok
    /\ \/ o.task.kind = "remove" /\ o.task.run = r
       \/ o.task.kind = "restore" /\ o.task.row.key.run = r

\* What has been announced comes before what will be: position 0 of the outcomes.
TopAt(i, r) ==
    IF i = 0 THEN announced[r] # 0 ELSE i <= Len(completed) /\ IsTop(completed[i], r)

ResetAt(i, r) == i # 0 /\ i <= Len(completed) /\ IsReset(completed[i], r)

TimeAt(i, r) == IF i = 0 THEN announced[r] ELSE completed[i].task.time

\* The database holds a record of run r that is as fast as t.
Reached(d, r, t) ==
    \E u \in User : /\ d.live[Row(Default, u, r)] # NoRecord
                    /\ d.live[Row(Default, u, r)].time <= t

\* What was announced, or will be, is in the database or has been improved, unless
\* something may have changed the records since.
TopsReached ==
    \A r \in Run, i \in Nat :
       TopAt(i, r) /\ (\A j \in Nat : j > i => ~ResetAt(j, r)) => Reached(db, r, TimeAt(i, r))

\* Each announcement is of a faster run than the one before.
TopsFall ==
    \A r \in Run, i, j \in Nat :
       i < j /\ TopAt(i, r) /\ TopAt(j, r) /\ (\A k \in Nat : i < k /\ k < j => ~ResetAt(k, r))
          => TimeAt(j, r) < TimeAt(i, r)

AnnounceInv == TopsReached /\ TopsFall

\* Times that are compared are numbers.
LEMMA TopTime ==
    ASSUME TypeInv, NEW r \in Run, NEW i \in Nat, TopAt(i, r)
    PROVE  i <= Len(completed) /\ TimeAt(i, r) \in 0..MaxTime
  <1>1. completed \in Seq(Outcome) /\ Len(completed) \in Nat /\ announced \in [Run -> 0..MaxTime]
    BY DEF TypeInv, QueueType, TimerunTypeOK
  <1>2. CASE i = 0
    BY <1>1, <1>2 DEF TimeAt
  <1>3. CASE i # 0
    <2>1. i \in 1..Len(completed) /\ IsTop(completed[i], r)
      BY <1>1, <1>3 DEF TopAt
    <2>2. completed[i].task \in Task /\ completed[i].task.kind = "check"
      BY <1>1, <2>1, OutcomeFields DEF IsTop
    <2>3. completed[i].task.time \in 1..MaxTime
      BY <2>2, TaskFields
    <2> QED BY <1>3, <2>1, <2>3, BoundAssumption DEF TimeAt
  <1> QED BY <1>2, <1>3

\* A callback moves every position one up: what it announces is at position 0 then.
LEMMA AnnounceShift ==
    ASSUME TypeInv, RunCallback, NEW r \in Run
    PROVE  \A i \in Nat :
              /\ i # 0 => /\ TopAt(i, r)' <=> TopAt(i + 1, r)
                          /\ ResetAt(i, r)' <=> ResetAt(i + 1, r)
                          /\ TopAt(i, r)' => TimeAt(i, r)' = TimeAt(i + 1, r)
              /\ ~ResetAt(0, r)'
  <1>1. completed # <<>> /\ PopCompleted /\ QueueType
    BY CallbackSteps DEF TypeInv
  <1>2. /\ Len(completed) \in Nat /\ Len(completed') = Len(completed) - 1
        /\ \A i \in 1..Len(completed') : completed'[i] = completed[i + 1]
    BY <1>1, PopQueue DEF QueueType
  <1>3. ASSUME NEW i \in Nat, i # 0
        PROVE  /\ TopAt(i, r)' <=> TopAt(i + 1, r)
               /\ ResetAt(i, r)' <=> ResetAt(i + 1, r)
               /\ TopAt(i, r)' => TimeAt(i, r)' = TimeAt(i + 1, r)
    <2>1. i + 1 # 0 /\ (i <= Len(completed') <=> i + 1 <= Len(completed))
      BY <1>2, <1>3
    <2>2. i <= Len(completed') => completed'[i] = completed[i + 1]
      BY <1>2, <1>3
    <2>3. CASE i <= Len(completed')
      <3>1. completed'[i] = completed[i + 1]
        BY <2>2, <2>3
      <3>2. (TopAt(i, r)' <=> IsTop(completed[i + 1], r)) /\ (TopAt(i + 1, r) <=> IsTop(completed[i + 1], r))
        BY <1>3, <2>1, <2>3, <3>1 DEF TopAt, IsTop
      <3>3. (ResetAt(i, r)' <=> IsReset(completed[i + 1], r)) /\ (ResetAt(i + 1, r) <=> IsReset(completed[i + 1], r))
        BY <1>3, <2>1, <2>3, <3>1 DEF ResetAt, IsReset
      <3>4. TimeAt(i, r)' = TimeAt(i + 1, r)
        BY <1>3, <2>1, <3>1 DEF TimeAt
      <3> QED BY <3>2, <3>3, <3>4
    <2>4. CASE ~(i <= Len(completed'))
      BY <1>3, <2>1, <2>4 DEF TopAt, ResetAt
    <2> QED BY <2>3, <2>4
  <1>4. ~ResetAt(0, r)'
    BY DEF ResetAt
  <1> QED BY <1>3, <1>4

\* Position 0 after a callback is what the callback announces, nothing when it may
\* have changed the records, and what it was otherwise.
LEMMA AnnounceFirst ==
    ASSUME TypeInv, RunCallback, NEW r \in Run
    PROVE  \/ TopAt(1, r) /\ announced'[r] = TimeAt(1, r)
           \/ announced'[r] = 0
           \/ ~TopAt(1, r) /\ ~ResetAt(1, r) /\ announced'[r] = announced[r]
  <1> DEFINE o == Head(completed)
  <1>1. completed # <<>> /\ PopCompleted /\ QueueType
    BY CallbackSteps DEF TypeInv
  <1>2. o = completed[1] /\ Len(completed) >= 1 /\ Len(completed) \in Nat /\ o \in Outcome
    BY <1>1, PopQueue DEF QueueType
  <1>3. announced \in [Run -> 0..MaxTime]
    BY DEF TypeInv, TimerunTypeOK
  <1>4. (TopAt(1, r) <=> IsTop(o, r)) /\ (ResetAt(1, r) <=> IsReset(o, r)) /\ TimeAt(1, r) = o.task.time
    BY <1>2 DEF TopAt, ResetAt, TimeAt
  <1>5. CASE ConnectCallback
    BY <1>4, <1>5 DEF ConnectCallback, IsTop, IsReset
  <1>6. CASE CheckCallback
    <2>1. /\ o.ok /\ o.task.kind = "check"
          /\ announced' = IF o.top THEN [announced EXCEPT ![o.task.run] = o.task.time] ELSE announced
      BY <1>6 DEF CheckCallback
    <2> HIDE DEF o
    <2>2. CASE o.top /\ o.task.run = r
      BY <1>3, <1>4, <2>1, <2>2 DEF IsTop
    <2>3. CASE ~(o.top /\ o.task.run = r)
      <3>1. announced'[r] = announced[r]
        BY <1>3, <2>1, <2>3
      <3> QED BY <1>4, <2>1, <2>3, <3>1 DEF IsTop, IsReset
    <2> QED BY <2>2, <2>3
  <1>7. CASE ArchiveCallback
    <2> DEFINE q == IF o.task.kind = "remove" THEN o.task.run ELSE o.task.row.key.run
    <2>1. o.task.kind \in {"remove", "restore"} /\ announced' = [announced EXCEPT ![q] = 0]
      BY <1>7 DEF ArchiveCallback
    <2>2. CASE q = r
      BY <1>3, <2>1, <2>2
    <2>3. CASE q # r
      <3>1. announced'[r] = announced[r]
        <4> HIDE DEF q
        <4> QED BY <1>3, <2>1, <2>3
      <3> QED BY <1>4, <2>1, <2>3, <3>1 DEF IsTop, IsReset
    <2> QED BY <2>2, <2>3
  <1>8. CASE PrintCallback
    BY <1>4, <1>8 DEF PrintCallback, IsTop, IsReset
  <1> QED BY <1>5, <1>6, <1>7, <1>8 DEF RunCallback

LEMMA CallbackAnnounces ==
    ASSUME TypeInv, AnnounceInv, RunCallback
    PROVE  AnnounceInv'
  <1>1. db' = db
    BY CallbackSteps DEF repositoryVars
  <1> SUFFICES ASSUME NEW r \in Run, NEW i \in Nat, TopAt(i, r)'
               PROVE  /\ (\A k \in Nat : k > i => ~ResetAt(k, r)') => Reached(db, r, TimeAt(i, r)')
                      /\ \A j \in Nat : i < j /\ TopAt(j, r)' /\ (\A k \in Nat : i < k /\ k < j => ~ResetAt(k, r)')
                            => TimeAt(j, r)' < TimeAt(i, r)'
    BY <1>1 DEF AnnounceInv, TopsReached, TopsFall, TopAt, ResetAt, TimeAt
  <1>2. ASSUME NEW k \in Nat, k # 0
        PROVE  /\ TopAt(k, r)' => TopAt(k + 1, r) /\ TimeAt(k, r)' = TimeAt(k + 1, r)
               /\ ResetAt(k + 1, r) => ResetAt(k, r)'
    BY <1>2, AnnounceShift
  <1>3. PICK p \in Nat : /\ TopAt(p, r) /\ TimeAt(p, r) = TimeAt(i, r)' /\ p <= i + 1
                         /\ \A k \in Nat : p < k /\ k <= i + 1 => ~ResetAt(k, r)
    <2>1. CASE i # 0
      <3>1. i + 1 \in Nat /\ TopAt(i + 1, r) /\ TimeAt(i + 1, r) = TimeAt(i, r)'
        BY <1>2, <2>1
      <3>2. \A k \in Nat : ~(i + 1 < k /\ k <= i + 1)
        OBVIOUS
      <3> QED BY <3>1, <3>2
    <2>2. CASE i = 0
      <3>1. announced'[r] # 0 /\ TimeAt(i, r)' = announced'[r]
        BY <2>2 DEF TopAt, TimeAt
      <3>2. CASE TopAt(1, r) /\ announced'[r] = TimeAt(1, r)
        <4>1. \A k \in Nat : 1 < k /\ k <= i + 1 => FALSE
          BY <2>2
        <4> QED BY <2>2, <3>1, <3>2, <4>1
      <3>3. CASE ~TopAt(1, r) /\ ~ResetAt(1, r) /\ announced'[r] = announced[r]
        <4>1. TopAt(0, r) /\ TimeAt(0, r) = announced[r]
          BY <3>1, <3>3 DEF TopAt, TimeAt
        <4>2. \A k \in Nat : 0 < k /\ k <= i + 1 => k = 1
          BY <2>2
        <4> QED BY <2>2, <3>1, <3>3, <4>1, <4>2
      <3> QED BY <3>1, <3>2, <3>3, AnnounceFirst
    <2> QED BY <2>1, <2>2
  <1>4. ASSUME NEW k \in Nat, k > i + 1
        PROVE  k - 1 \in Nat /\ k - 1 > i /\ (ResetAt(k, r) => ResetAt(k - 1, r)')
    <2>1. k - 1 \in Nat /\ k - 1 # 0 /\ (k - 1) + 1 = k /\ k - 1 > i
      BY <1>4
    <2>2. ResetAt((k - 1) + 1, r) => ResetAt(k - 1, r)'
      BY <1>2, <2>1
    <2> QED BY <2>1, <2>2
  <1>5. ASSUME \A k \in Nat : k > i => ~ResetAt(k, r)'
        PROVE  Reached(db, r, TimeAt(i, r)')
    <2>1. \A k \in Nat : k > p => ~ResetAt(k, r)
      BY <1>3, <1>4, <1>5
    <2> QED BY <1>3, <2>1 DEF AnnounceInv, TopsReached
  <1>6. ASSUME NEW j \in Nat, i < j, TopAt(j, r)',
               \A k \in Nat : i < k /\ k < j => ~ResetAt(k, r)'
        PROVE  TimeAt(j, r)' < TimeAt(i, r)'
    <2>1. j # 0 /\ j + 1 \in Nat /\ p < j + 1
      BY <1>3, <1>6
    <2>2. TopAt(j + 1, r) /\ TimeAt(j, r)' = TimeAt(j + 1, r)
      BY <1>2, <1>6, <2>1
    <2>3. \A k \in Nat : p < k /\ k < j + 1 => ~ResetAt(k, r)
      BY <1>3, <1>4, <1>6
    <2>4. TimeAt(j + 1, r) < TimeAt(p, r)
      BY <1>3, <2>1, <2>2, <2>3 DEF AnnounceInv, TopsFall
    <2> QED BY <1>3, <2>2, <2>4
  <1> QED BY <1>5, <1>6

\* What a task does to the records of a run: it may have changed any of them, or it
\* leaves a record as fast as any there was, and a faster one if it is the overall.
Improves(o, r) ==
    \/ IsReset(o, r)
    \/ /\ ~IsReset(o, r)
       /\ \A t \in 0..MaxTime : Reached(db, r, t) => Reached(db', r, t)
       /\ IsTop(o, r) => /\ Reached(db', r, o.task.time)
                         /\ \A t \in 0..MaxTime : Reached(db, r, t) => o.task.time < t

\* A task that leaves the overall records of a run alone.
LEMMA KeepsReached ==
    ASSUME NEW r \in Run, NEW o, ~IsTop(o, r),
           \A u \in User : db'.live[Row(Default, u, r)] = db.live[Row(Default, u, r)]
    PROVE  Improves(o, r)
  <1>1. \A t \in 0..MaxTime : Reached(db, r, t) => Reached(db', r, t)
    BY DEF Reached
  <1> QED BY <1>1 DEF Improves

LEMMA CheckImproves ==
    ASSUME TypeInv, RunCheck
    PROVE  \E o : Moved(o) /\ \A r \in Run : Improves(o, r)
  <1> DEFINE t == Head(incomplete)
             c == [time |-> t.time, date |-> date + 1]
             new == NewRecordSeasons(db, active, t.user, t.run, c)
             overall == {db.live[Row(Default, u, t.run)] : u \in User} \ {NoRecord}
             top == Default \in new /\ \A x \in overall : c.time < x.time
             o == [task |-> t, ok |-> TRUE, top |-> top,
                   patch |-> PatchOf(db', {Row(s, t.user, t.run) : s \in new})]
  <1>1. /\ Moved(o)
        /\ t.kind = "check" /\ t.user \in User /\ t.run \in Run /\ t.time \in 1..MaxTime
        /\ c \in Completion /\ db' = RecordCompletion(db, active, t.user, t.run, c)
    BY CheckTaskRuns
  <1>2. o.ok /\ o.task = t /\ o.top = top /\ c.time = t.time
    OBVIOUS
  <1>3. \A k \in Key : \/ db'.live[k] = db.live[k]
                       \/ /\ db'.live[k] = c /\ k.user = t.user /\ k.run = t.run
                          /\ IsNewRecord(db, k, c)
    <2> HIDE DEF t, c
    <2> QED BY <1>1, ActiveSeasons, RecordCompletionType
  <1>4. ASSUME NEW r \in Run
        PROVE  Improves(o, r)
    <2>1. ~IsReset(o, r) /\ (IsTop(o, r) => t.run = r /\ top)
      BY <1>1, <1>2 DEF IsReset, IsTop
    <2> HIDE DEF o
    <2>2. \A u \in User :
             /\ Row(Default, u, r) \in Key
             /\ db.live[Row(Default, u, r)] # NoRecord =>
                   db.live[Row(Default, u, r)].time \in 1..MaxTime
      <3> TAKE u \in User
      <3>1. Row(Default, u, r) \in Key
        BY RowType, ActiveSeasons
      <3> QED BY <3>1, ActiveSeasons DEF Database, Completion
    <2>3. ASSUME NEW x \in 0..MaxTime, Reached(db, r, x)
          PROVE  Reached(db', r, x)
      <3>1. PICK u \in User : /\ db.live[Row(Default, u, r)] # NoRecord
                              /\ db.live[Row(Default, u, r)].time <= x
        BY <2>3 DEF Reached
      <3> DEFINE k == Row(Default, u, r)
      <3>2. k \in Key /\ HasRecord(db, k) /\ db.live[k].time \in 1..MaxTime
        BY <2>2, <3>1 DEF HasRecord
      <3>3. db.live[k].time <= x
        BY <3>1
      <3> HIDE DEF k, c
      <3>4. CASE db'.live[k] = db.live[k]
        BY <3>1, <3>4 DEF Reached, k
      <3>5. CASE db'.live[k] = c /\ IsNewRecord(db, k, c)
        <4>1. c # NoRecord /\ c.time < db.live[k].time /\ c.time \in 1..MaxTime
          BY <1>1, <3>2, <3>5, NoRecordAssumption DEF IsNewRecord, Completion
        <4>2. c.time <= x
          BY <3>2, <3>3, <4>1, BoundAssumption
        <4> QED BY <3>5, <4>1, <4>2 DEF Reached, k
      <3> QED BY <1>3, <3>2, <3>4, <3>5
    <2>4. ASSUME t.run = r, top
          PROVE  /\ Reached(db', r, t.time)
                 /\ \A x \in 0..MaxTime : Reached(db, r, x) => t.time < x
      <3> DEFINE k == Row(Default, t.user, r)
      <3>1. k \in Key /\ k \in {Row(s, t.user, t.run) : s \in new}
        BY <1>1, <2>2, <2>4
      <3>2. db'.live[k] = c
        <4> HIDE DEF k, t, c
        <4> QED BY <1>1, <3>1 DEF RecordCompletion
      <3>3. c # NoRecord /\ c.time \in 1..MaxTime
        <4> HIDE DEF c
        <4> QED BY <1>1, NoRecordAssumption DEF Completion
      <3>4. Reached(db', r, t.time)
        <4>1. db'.live[Row(Default, t.user, r)] # NoRecord /\ db'.live[Row(Default, t.user, r)].time = t.time
          BY <1>2, <3>2, <3>3
        <4>2. t.time <= t.time
          BY <1>1
        <4> HIDE DEF t
        <4> QED BY <1>1, <4>1, <4>2 DEF Reached
      <3>5. ASSUME NEW x \in 0..MaxTime, Reached(db, r, x)
            PROVE  t.time < x
        <4>1. PICK u \in User : /\ db.live[Row(Default, u, r)] # NoRecord
                                /\ db.live[Row(Default, u, r)].time <= x
          BY <3>5 DEF Reached
        <4>2. t.time < db.live[Row(Default, u, r)].time
          BY <2>4, <4>1
        <4>3. db.live[Row(Default, u, r)].time \in 1..MaxTime
          BY <2>2, <4>1
        <4> HIDE DEF t
        <4> QED BY <1>1, <4>1, <4>2, <4>3
      <3> QED BY <3>4, <3>5
    <2> HIDE DEF t, top, c
    <2> QED BY <1>2, <2>1, <2>3, <2>4 DEF Improves
  <1> QED BY <1>1, <1>4

LEMMA TaskImproves ==
    ASSUME TypeInv, RunTask
    PROVE  \E o : Moved(o) /\ \A r \in Run : Improves(o, r)
  <1>1. CASE RunConnect
    <2> DEFINE t == Head(incomplete)
               patch == Patched(NoRecords, PatchOf(db, {Row(s, t.user, r) : s \in active, r \in Run}))
               o == [task |-> t, ok |-> TRUE, patch |-> patch, top |-> FALSE]
    <2>1. Moved(o) /\ db' = db
      BY <1>1, ConnectTaskRuns DEF RunConnect, repositoryVars
    <2>2. \A r \in Run : ~IsTop(o, r)
      BY DEF IsTop
    <2> HIDE DEF o
    <2> QED BY <2>1, <2>2, KeepsReached
  <1>2. CASE RunCheck
    BY <1>2, CheckImproves
  <1>3. CASE RunRemove
    <2> DEFINE t == Head(incomplete)
               o == [task |-> t, ok |-> TRUE, top |-> FALSE,
                     patch |-> PatchOf(db', RemovedRows(db, t.target, t.user, t.run))]
    <2>1. /\ Moved(o) /\ t.kind = "remove"
          /\ \A k \in Key : k.run # t.run => db'.live[k] = db.live[k]
      BY <1>3, RemoveTaskRuns
    <2>2. \A r \in Run : ~IsTop(o, r) /\ (r = t.run => IsReset(o, r))
      BY <2>1 DEF IsTop, IsReset
    <2>3. \A r \in Run, u \in User : Row(Default, u, r) \in Key /\ Row(Default, u, r).run = r
      BY RowType, ActiveSeasons DEF Row
    <2> HIDE DEF o, t
    <2>4. ASSUME NEW r \in Run
          PROVE  Improves(o, r)
      <3>1. CASE r = t.run
        BY <2>2, <3>1 DEF Improves
      <3>2. CASE r # t.run
        BY <2>1, <2>2, <2>3, <3>2, KeepsReached
      <3> QED BY <3>1, <3>2
    <2> QED BY <2>1, <2>4
  <1>4. CASE RunRestore
    <2> DEFINE t == Head(incomplete)
               o == [task |-> t, ok |-> TRUE, top |-> FALSE,
                     patch |-> PatchOf(db', {b.key : b \in Restorable(db, t.row, t.caller, t.admin)})]
    <2>1. /\ Moved(o) /\ t.kind = "restore"
          /\ \A k \in Key : k.run # t.row.key.run => db'.live[k] = db.live[k]
      BY <1>4, RestoreTaskRuns
    <2>2. \A r \in Run : ~IsTop(o, r) /\ (r = t.row.key.run => IsReset(o, r))
      BY <2>1 DEF IsTop, IsReset
    <2>3. \A r \in Run, u \in User : Row(Default, u, r) \in Key /\ Row(Default, u, r).run = r
      BY RowType, ActiveSeasons DEF Row
    <2> HIDE DEF o, t
    <2>4. ASSUME NEW r \in Run
          PROVE  Improves(o, r)
      <3>1. CASE r = t.row.key.run
        BY <2>2, <3>1 DEF Improves
      <3>2. CASE r # t.row.key.run
        BY <2>1, <2>2, <2>3, <3>2, KeepsReached
      <3> QED BY <3>1, <3>2
    <2> QED BY <2>1, <2>4
  <1>5. CASE RunSeasonCommand
    <2> DEFINE o == [task |-> Head(incomplete), ok |-> TRUE, patch |-> <<>>, top |-> FALSE]
    <2>1. /\ Moved(o)
          /\ \A u \in User, r \in Run : db'.live[Row(Default, u, r)] = db.live[Row(Default, u, r)]
      BY <1>5, SeasonTaskRuns
    <2>2. \A r \in Run : ~IsTop(o, r)
      BY DEF IsTop
    <2> HIDE DEF o
    <2> QED BY <2>1, <2>2, KeepsReached
  <1>6. CASE FailTask
    <2> DEFINE o == [task |-> Head(incomplete), ok |-> FALSE]
    <2>1. Moved(o) /\ db' = db
      BY <1>6, FailTaskRuns DEF repositoryVars
    <2>2. \A r \in Run : ~IsTop(o, r)
      BY DEF IsTop
    <2> HIDE DEF o
    <2> QED BY <2>1, <2>2, KeepsReached
  <1> QED BY <1>1, <1>2, <1>3, <1>4, <1>5, <1>6 DEF RunTask

LEMMA TaskAnnounces ==
    ASSUME TypeInv, AnnounceInv, RunTask
    PROVE  AnnounceInv'
  <1> DEFINE n == Len(completed)
  <1>1. PICK o : Moved(o) /\ \A r \in Run : Improves(o, r)
    BY TaskImproves
  <1>2. /\ n \in Nat /\ Len(completed') = n + 1 /\ completed'[n + 1] = o
        /\ \A i \in 1..n : completed'[i] = completed[i]
    <2>1. QueueType /\ Moved(o)
      BY <1>1 DEF TypeInv
    <2>2. n \in Nat
      BY <2>1 DEF QueueType
    <2> QED BY <2>1, <2>2, WorkQueue
  <1>3. announced' = announced
    BY TaskSteps
  <1>4. ASSUME NEW r \in Run, NEW i \in Nat
        PROVE  /\ i <= n => /\ TopAt(i, r)' <=> TopAt(i, r)
                            /\ ResetAt(i, r)' <=> ResetAt(i, r)
                            /\ TimeAt(i, r)' = TimeAt(i, r)
               /\ i = n + 1 => /\ TopAt(i, r)' <=> IsTop(o, r)
                               /\ ResetAt(i, r)' <=> IsReset(o, r)
                               /\ TimeAt(i, r)' = o.task.time
               /\ i > n + 1 => ~TopAt(i, r)' /\ ~ResetAt(i, r)'
               /\ i > n => ~ResetAt(i, r)
    <2>1. CASE i = 0
      BY <1>2, <1>3, <2>1 DEF TopAt, ResetAt, TimeAt
    <2>2. CASE i \in 1..n
      <3>1. completed'[i] = completed[i] /\ i # 0 /\ i <= n /\ i <= n + 1
        BY <1>2, <2>2
      <3> QED BY <1>2, <3>1 DEF TopAt, ResetAt, TimeAt, IsTop, IsReset
    <2>3. CASE i = n + 1
      <3>1. i # 0 /\ ~(i <= n) /\ i <= n + 1 /\ completed'[i] = o
        BY <1>2, <2>3
      <3> QED BY <1>2, <3>1 DEF TopAt, ResetAt, TimeAt, IsTop, IsReset
    <2>4. CASE i > n + 1
      <3>1. i # 0 /\ ~(i <= n) /\ ~(i <= n + 1)
        BY <1>2, <2>4
      <3> QED BY <1>2, <3>1 DEF TopAt, ResetAt, TimeAt
    <2> QED BY <1>2, <2>1, <2>2, <2>3, <2>4
  <1> HIDE DEF n
  <1> SUFFICES ASSUME NEW r \in Run, NEW i \in Nat, TopAt(i, r)'
               PROVE  /\ (\A k \in Nat : k > i => ~ResetAt(k, r)') => Reached(db', r, TimeAt(i, r)')
                      /\ \A j \in Nat : i < j /\ TopAt(j, r)' /\ (\A k \in Nat : i < k /\ k < j => ~ResetAt(k, r)')
                            => TimeAt(j, r)' < TimeAt(i, r)'
    BY DEF AnnounceInv, TopsReached, TopsFall, TopAt, ResetAt, TimeAt
  <1>5. i <= n \/ i = n + 1
    BY <1>2, <1>4
  <1>6. ASSUME i <= n
        PROVE  TopAt(i, r) /\ TimeAt(i, r)' = TimeAt(i, r) /\ TimeAt(i, r) \in 0..MaxTime
    BY <1>4, <1>6, TopTime
  <1>7. ASSUME \A k \in Nat : k > i => ~ResetAt(k, r)'
        PROVE  Reached(db', r, TimeAt(i, r)')
    <2>1. CASE i <= n
      <3>1. n + 1 \in Nat /\ n + 1 > i /\ ~IsReset(o, r)
        BY <1>2, <1>4, <1>7, <2>1
      <3>2. \A k \in Nat : k > i => ~ResetAt(k, r)
        BY <1>2, <1>4, <1>7
      <3>3. Reached(db, r, TimeAt(i, r))
        BY <1>6, <2>1, <3>2 DEF AnnounceInv, TopsReached
      <3> QED BY <1>1, <1>6, <2>1, <3>1, <3>3 DEF Improves
    <2>2. CASE i = n + 1
      <3>1. IsTop(o, r) /\ TimeAt(i, r)' = o.task.time /\ ~IsReset(o, r)
        BY <1>4, <2>2 DEF IsTop, IsReset
      <3> QED BY <1>1, <3>1 DEF Improves
    <2> QED BY <1>5, <2>1, <2>2
  <1>8. ASSUME NEW j \in Nat, i < j, TopAt(j, r)',
               \A k \in Nat : i < k /\ k < j => ~ResetAt(k, r)'
        PROVE  TimeAt(j, r)' < TimeAt(i, r)'
    <2>1. (j <= n \/ j = n + 1) /\ i <= n
      BY <1>2, <1>4, <1>8
    <2>2. \A k \in Nat : i < k /\ k < j => ~ResetAt(k, r)
      BY <1>2, <1>4, <1>8, <2>1
    <2>3. CASE j <= n
      <3>1. TopAt(j, r) /\ TimeAt(j, r)' = TimeAt(j, r)
        BY <1>4, <1>8, <2>3
      <3> QED BY <1>6, <1>8, <2>1, <2>2, <3>1 DEF AnnounceInv, TopsFall
    <2>4. CASE j = n + 1
      <3>1. IsTop(o, r) /\ TimeAt(j, r)' = o.task.time /\ ~IsReset(o, r)
        BY <1>4, <1>8, <2>4 DEF IsTop, IsReset
      <3>2. \A k \in Nat : k > i => ~ResetAt(k, r)
        BY <1>2, <1>4, <2>2, <2>4
      <3>3. Reached(db, r, TimeAt(i, r))
        BY <1>6, <2>1, <3>2 DEF AnnounceInv, TopsReached
      <3> QED BY <1>1, <1>6, <2>1, <3>1, <3>3 DEF Improves
    <2> QED BY <2>1, <2>3, <2>4
  <1> QED BY <1>7, <1>8

LEMMA AnnounceSteps ==
    ASSUME TypeInv, AnnounceInv, [TimerunNext]_timerunVars
    PROVE  AnnounceInv'
  <1>1. CASE MapChange
    <2>1. /\ completed' = <<>> /\ \A r \in Run : announced'[r] = 0
      BY <1>1 DEF MapChange
    <2>2. \A r \in Run, i \in Nat : ~TopAt(i, r)'
      BY <2>1 DEF TopAt
    <2> QED BY <2>2 DEF AnnounceInv, TopsReached, TopsFall, TopAt
  <1>2. CASE (ClientStep \/ CommandStep) /\ ~MapChange
    <2>1. db' = db /\ completed' = completed
      BY <1>2, GameSteps DEF repositoryVars, tasks, Post
    <2>2. announced' = announced
      BY <1>2 DEF ClientStep, CommandStep, Connect, Authenticate, Disconnect, Interrupt, StartTimer,
                  StartSaveposTimer, StopTimer, EndRun, RemoveCommand, RestoreCommand,
                  SeasonCommand, PostCommand
    <2> QED BY <2>1, <2>2 DEF AnnounceInv, TopsReached, TopsFall, TopAt, ResetAt, TimeAt
  <1>3. CASE UNCHANGED timerunVars
    <2>1. db' = db /\ completed' = completed /\ announced' = announced
      BY <1>3 DEF timerunVars, repositoryVars, tasks
    <2> QED BY <2>1 DEF AnnounceInv, TopsReached, TopsFall, TopAt, ResetAt, TimeAt
  <1> QED BY <1>1, <1>2, <1>3, TaskAnnounces, CallbackAnnounces DEF TimerunNext

\* A step announces the next overall record, or none.
LEMMA AnnounceStep ==
    ASSUME TypeInv, AnnounceInv, [TimerunNext]_timerunVars, NEW r \in Run,
           announced'[r] # announced[r]
    PROVE  announced'[r] = 0 \/ announced[r] = 0 \/ announced'[r] < announced[r]
  <1>1. CASE RunCallback
    <2>1. CASE TopAt(1, r) /\ announced'[r] = TimeAt(1, r) /\ announced[r] # 0
      <3>1. TopAt(0, r) /\ TimeAt(0, r) = announced[r]
        BY <2>1 DEF TopAt, TimeAt
      <3>2. \A k \in Nat : ~(0 < k /\ k < 1)
        OBVIOUS
      <3>3. TimeAt(1, r) < TimeAt(0, r)
        BY <2>1, <3>1, <3>2 DEF AnnounceInv, TopsFall
      <3> QED BY <2>1, <3>1, <3>3
    <2> QED BY <1>1, <2>1, AnnounceFirst
  <1>2. CASE RunTask \/ UNCHANGED timerunVars
    BY <1>2, TaskSteps DEF timerunVars
  <1>3. CASE ClientStep \/ CommandStep
    BY <1>3 DEF ClientStep, CommandStep, Connect, Authenticate, Disconnect, Interrupt, StartTimer,
                StartSaveposTimer, StopTimer, EndRun, RemoveCommand, RestoreCommand,
                SeasonCommand, PostCommand, MapChange
  <1> QED BY <1>1, <1>2, <1>3 DEF TimerunNext

\* Between removals and restores the overall records that are announced for a run only
\* get faster: clients need not be orderly, and callbacks may be as late as they like.
THEOREM AnnouncementsFall == TimerunSpec => AnnouncementsImprove
  <1>1. TypeInv /\ AnnounceInv /\ [TimerunNext]_timerunVars => AnnounceInv'
    BY AnnounceSteps
  <1>2. TimerunInit => AnnounceInv
    BY DEF TimerunInit, AnnounceInv, TopsReached, TopsFall, TopAt
  <1>3. TypeInv /\ AnnounceInv /\ [TimerunNext]_timerunVars =>
           [\A r \in Run :
               announced'[r] # announced[r] =>
                  announced'[r] = 0 \/ announced[r] = 0 \/ announced'[r] < announced[r]]_timerunVars
    BY AnnounceStep
  <1> QED BY <1>1, <1>2, <1>3, TimerunInvariance, PTL DEF TimerunSpec, AnnouncementsImprove
=============================================================================
