------------------------- MODULE TimerunSegments_proof -------------------------
(***************************************************************************)
(* Proofs about TimerunSegments for any users, runs, seasons, segments and *)
(* bounds.  The argument has three parts.  The rows that compete on a leg  *)
(* or a board are totally ordered, so each set of them has one best row.   *)
(* A date names one run of one user wherever it is stored, so two rows     *)
(* with the same date are one row.  And a run offers a board at most one   *)
(* row, so that comparing it with the stored best keeps that the best.     *)
(***************************************************************************)
EXTENDS TimerunSegments, TimerunRepository_proof, WellFoundedInduction

USE SegmentAssumption, NoSplitAssumption

-----------------------------------------------------------------------------
(* The order of the rows.                                                  *)

\* A set of numbers has a least element.
LEMMA LeastNumber ==
  ASSUME NEW T, T \subseteq Nat, T # {}
  PROVE  \E m \in T : \A n \in T : m <= n
<1>1. IsWellFoundedOn(OpToRel(<, Nat), Nat)
  BY NatLessThanWellFounded
<1>2. PICK m \in T : \A n \in T : ~(<<n, m>> \in OpToRel(<, Nat))
  BY <1>1, WFMin
<1>3. \A n \in T : ~(n < m)
  BY <1>2 DEF OpToRel
<1>4. QED BY <1>3

\* Row x is as good as row y.
Ahead(x, y) == x = y \/ Beats(x, y)

\* Row x is the best of a set.
IsBest(x, rows) == x \in rows /\ \A y \in rows : Ahead(x, y)

\* The rows of a leg, and those of a board.
AreRows(rows) == rows \subseteq Split \/ rows \subseteq GlobalSplit

\* A date names one row of the set.
OneRowPerDate(rows) == \A x, y \in rows : x.date = y.date => x = y

\* What a row is made of.
LEMMA RowFields ==
  ASSUME NEW rows, AreRows(rows), NEW x \in rows
  PROVE  x.time \in Nat /\ x.date \in Nat /\ x # NoSplit
  BY DEF AreRows, Split, GlobalSplit

\* Two rows are never ahead of each other, and being ahead is transitive.
LEMMA AheadOrder ==
  ASSUME NEW rows, AreRows(rows), NEW x \in rows, NEW y \in rows, NEW z \in rows
  PROVE  /\ Ahead(x, y) /\ Ahead(y, x) => x = y
         /\ Ahead(x, y) /\ Ahead(y, z) => Ahead(x, z)
<1>1. \A w \in {x, y, z} : w.time \in Nat /\ w.date \in Nat /\ w # NoSplit
  BY RowFields
<1>2. QED BY <1>1 DEF Ahead, Beats

\* A best row is the one BestOf chooses.
LEMMA BestIsUnique ==
  ASSUME NEW rows, AreRows(rows), NEW x, IsBest(x, rows)
  PROVE  BestOf(rows) = x
<1> DEFINE w == CHOOSE v \in rows : \A y \in rows : v = y \/ Beats(v, y)
<1>1. rows # {} /\ \A y \in rows : x = y \/ Beats(x, y)
  BY DEF IsBest, Ahead
<1>2. w \in rows /\ \A y \in rows : w = y \/ Beats(w, y)
  BY <1>1 DEF IsBest
<1>3. BestOf(rows) = w
  BY <1>1 DEF BestOf
<1> HIDE DEF w
<1>4. Ahead(w, x) /\ Ahead(x, w) /\ x \in rows
  BY <1>2 DEF IsBest, Ahead
<1>5. QED BY <1>2, <1>3, <1>4, AheadOrder

\* Rows with different dates have a best one.
LEMMA BestExists ==
  ASSUME NEW rows, AreRows(rows), OneRowPerDate(rows), rows # {}
  PROVE  IsBest(BestOf(rows), rows)
<1>1. \A x \in rows : x.time \in Nat /\ x.date \in Nat /\ x # NoSplit
  BY RowFields
<1> DEFINE times == {x.time : x \in rows}
<1>2. times \subseteq Nat /\ times # {}
  BY <1>1
<1>3. PICK m \in times : \A n \in times : m <= n
  <2> HIDE DEF times
  <2>1. QED BY <1>2, LeastNumber
<1> DEFINE fastest == {x \in rows : x.time = m}
           dates == {x.date : x \in fastest}
<1>4. dates \subseteq Nat /\ dates # {}
  BY <1>1
<1>5. PICK d \in dates : \A n \in dates : d <= n
  <2> HIDE DEF dates
  <2>1. QED BY <1>4, LeastNumber
<1>6. PICK x \in rows : x.time = m /\ x.date = d
  OBVIOUS
<1>7. ASSUME NEW y \in rows PROVE Ahead(x, y)
  <2>1. m <= y.time /\ (y.time = m => d <= y.date)
    BY <1>3, <1>5
  <2>2. x.date = y.date => x = y
    BY DEF OneRowPerDate
  <2>3. x.time \in Nat /\ y.time \in Nat /\ x.date \in Nat /\ y.date \in Nat
    BY <1>1
  <2> HIDE DEF times, dates, fastest
  <2>4. QED BY <1>6, <2>1, <2>2, <2>3 DEF Ahead, Beats
<1>8. IsBest(x, rows)
  BY <1>7 DEF IsBest
<1>9. QED BY <1>8, BestIsUnique

-----------------------------------------------------------------------------
(* Legs and boards.                                                        *)

Personal == [Leg -> Split \cup {NoSplit}]

\* The row a leg contributes to its board.
OnBoard(x, u) == [time |-> x.time, date |-> x.date, user |-> u]
RowOf(personal, l) == OnBoard(personal[l], l[1].user)

\* Splits with the same date belong to the same user.
OneUserPerDate(personal) ==
    \A l, m \in Leg :
       personal[l] # NoSplit /\ personal[m] # NoSplit /\ personal[l].date = personal[m].date =>
          l[1].user = m[1].user

\* A leg is a key and a segment.
LEMMA LegParts ==
  ASSUME NEW l \in Leg
  PROVE  l[1] \in Key /\ l[2] \in Segment /\ l = <<l[1], l[2]>> /\ BoardOf(l) \in Board
  BY DEF Leg, Key, Board, BoardOf

\* A user has one leg on a board.
LEMMA LegOfUser ==
  ASSUME NEW l \in Leg, NEW m \in Leg, BoardOf(l) = BoardOf(m), l[1].user = m[1].user
  PROVE  l = m
<1>1. l[1].season = m[1].season /\ l[1].run = m[1].run /\ l[2] = m[2]
  BY DEF BoardOf
<1>2. l[1] = m[1]
  BY <1>1, LegParts DEF Key
<1>3. QED BY <1>1, <1>2, LegParts

\* The rows of a board are those of its legs.
LEMMA RowsOnBoard ==
  ASSUME NEW personal \in Personal, NEW b
  PROVE  /\ RowsOn(personal, b) \subseteq GlobalSplit
         /\ AreRows(RowsOn(personal, b))
         /\ \A y \in RowsOn(personal, b) : \E l \in Leg :
               BoardOf(l) = b /\ personal[l] # NoSplit /\ y = RowOf(personal, l)
         /\ \A l \in Leg : BoardOf(l) = b /\ personal[l] # NoSplit =>
               RowOf(personal, l) \in RowsOn(personal, b)
<1>1. \A y \in RowsOn(personal, b) : \E l \in Leg :
         BoardOf(l) = b /\ personal[l] # NoSplit /\ y = RowOf(personal, l)
  BY DEF RowsOn, RowOf, OnBoard
<1>2. \A l \in Leg : BoardOf(l) = b /\ personal[l] # NoSplit =>
         RowOf(personal, l) \in RowsOn(personal, b)
  BY DEF RowsOn, RowOf, OnBoard
<1>3. ASSUME NEW l \in Leg, personal[l] # NoSplit PROVE RowOf(personal, l) \in GlobalSplit
  <2>1. personal[l] \in Split /\ l[1].user \in User
    BY <1>3, LegParts DEF Personal, Key
  <2>2. QED BY <2>1 DEF RowOf, OnBoard, Split, GlobalSplit
<1>4. RowsOn(personal, b) \subseteq GlobalSplit
  BY <1>1, <1>3
<1>5. QED BY <1>1, <1>2, <1>4 DEF AreRows

\* The rows of a board have different dates.
LEMMA BoardDates ==
  ASSUME NEW personal \in Personal, OneUserPerDate(personal), NEW b
  PROVE  OneRowPerDate(RowsOn(personal, b))
<1> SUFFICES ASSUME NEW x \in RowsOn(personal, b), NEW y \in RowsOn(personal, b), x.date = y.date
             PROVE  x = y
  BY DEF OneRowPerDate
<1>1. PICK l \in Leg : BoardOf(l) = b /\ personal[l] # NoSplit /\ x = RowOf(personal, l)
  BY RowsOnBoard
<1>2. PICK m \in Leg : BoardOf(m) = b /\ personal[m] # NoSplit /\ y = RowOf(personal, m)
  BY RowsOnBoard
<1>3. personal[l].date = personal[m].date
  BY <1>1, <1>2 DEF RowOf, OnBoard
<1>4. l[1].user = m[1].user
  BY <1>1, <1>2, <1>3 DEF OneUserPerDate
<1>5. QED BY <1>1, <1>2, <1>4, LegOfUser

\* Boards depend on their own legs only.
LEMMA RowsOnSame ==
  ASSUME NEW p, NEW q, NEW b, \A l \in Leg : BoardOf(l) = b => p[l] = q[l]
  PROVE  RowsOn(p, b) = RowsOn(q, b)
  BY DEF RowsOn

\* The best of a board is a row of it.
LEMMA BestOfBoard ==
  ASSUME NEW personal \in Personal, OneUserPerDate(personal), NEW b
  PROVE  /\ RowsOn(personal, b) = {} => BestOf(RowsOn(personal, b)) = NoSplit
         /\ RowsOn(personal, b) # {} => IsBest(BestOf(RowsOn(personal, b)), RowsOn(personal, b))
         /\ BestOf(RowsOn(personal, b)) \in GlobalSplit \cup {NoSplit}
<1>1. RowsOn(personal, b) = {} => BestOf(RowsOn(personal, b)) = NoSplit
  BY DEF BestOf
<1>2. RowsOn(personal, b) # {} => IsBest(BestOf(RowsOn(personal, b)), RowsOn(personal, b))
  BY RowsOnBoard, BoardDates, BestExists
<1>3. QED BY <1>1, <1>2, RowsOnBoard DEF IsBest

-----------------------------------------------------------------------------
(* What the upserts do to a leg.                                           *)

\* Copies of stored completions with their splits.
AreCopies(sp, copies) ==
    \A o \in copies : o.key \in Key /\ o.completion.date \in 1..MaxDate /\ o.completion.date \in 1..Len(sp)

\* What the copies offer a leg, and a board.
OfferLeg(sp, t, copies, skipRemoved, l) ==
    {SplitOf(sp, o[1], o[2]) :
        o \in {p \in Offered(sp, t, copies, skipRemoved) : <<p[1].key, p[2]>> = l}}
OfferBoard(sp, t, copies, skipRemoved, b) ==
    {[time |-> SplitOf(sp, o[1], o[2]).time, date |-> o[1].completion.date, user |-> o[1].key.user] :
        o \in {p \in Offered(sp, t, copies, skipRemoved) : BoardOf(<<p[1].key, p[2]>>) = b}}

Known(x) == {x} \ {NoSplit}

\* What competes for a leg, and for a board.
LegRows(sp, t, copies, skipRemoved, l) ==
    OfferLeg(sp, t, copies, skipRemoved, l) \cup Known(t.personal[l])
BoardRows(sp, t, copies, skipRemoved, b) ==
    OfferBoard(sp, t, copies, skipRemoved, b) \cup Known(t.global[b])

\* The time of a split is the one its run measured.
Traceable(sp, l, split) == split.time = sp[split.date][l[2]]
AllTraceable(sp, personal) ==
    \A l \in Leg : personal[l] # NoSplit => Traceable(sp, l, personal[l])

\* The three tables, two of them functions on the legs and on the boards.
AreTables(t) ==
    /\ t = [personal |-> t.personal, global |-> t.global, removed |-> t.removed]
    /\ t.personal = [l \in Leg |-> t.personal[l]]
    /\ t.global = [b \in Board |-> t.global[b]]

\* The tables after the upserts of the copies of some stored runs.
Applied(after, sp, t, copies, skipRemoved) ==
    /\ sp \in Seq(Splits) /\ AreCopies(sp, copies)
    /\ t \in SegmentTables /\ AllTraceable(sp, t.personal)
    /\ after = ApplyBestSegments(sp, t, copies, skipRemoved)

\* The upserts change the two tables of bests.
LEMMA ApplyTables ==
  ASSUME NEW sp, NEW t \in SegmentTables, NEW copies, NEW skipRemoved,
         NEW after, after = ApplyBestSegments(sp, t, copies, skipRemoved)
  PROVE  AreTables(after) /\ after.removed = t.removed
<1> DEFINE personal == [l \in Leg |->
               BestOf(LegRows(sp, t, copies, skipRemoved, l))]
           global == [b \in Board |->
               BestOf(BoardRows(sp, t, copies, skipRemoved, b))]
<1>1. after = [t EXCEPT !.personal = personal, !.global = global]
  BY DEF ApplyBestSegments, OfferLeg, OfferBoard, LegRows, BoardRows, Known
<1>2. personal = [l \in Leg |-> personal[l]] /\ global = [b \in Board |-> global[b]]
  OBVIOUS
<1> HIDE DEF personal, global
<1>3. t = [personal |-> t.personal, global |-> t.global, removed |-> t.removed]
  BY DEF SegmentTables
<1>4. after = [personal |-> personal, global |-> global, removed |-> t.removed]
  BY <1>1, <1>3
<1>5. after.personal = personal /\ after.global = global
  BY <1>4
<1>6. QED BY <1>2, <1>4, <1>5 DEF AreTables

\* A leg keeps the best of what is stored and what is offered.
LEMMA ApplyToLeg ==
  ASSUME NEW sp, NEW t \in SegmentTables, NEW copies, NEW skipRemoved, NEW l \in Leg
  PROVE  ApplyBestSegments(sp, t, copies, skipRemoved).personal[l] =
            BestOf(LegRows(sp, t, copies, skipRemoved, l))
<1> DEFINE personal == [k \in Leg |->
               BestOf(LegRows(sp, t, copies, skipRemoved, k))]
           global == [b \in Board |->
               BestOf(BoardRows(sp, t, copies, skipRemoved, b))]
<1>1. ApplyBestSegments(sp, t, copies, skipRemoved) =
         [t EXCEPT !.personal = personal, !.global = global]
  BY DEF ApplyBestSegments, OfferLeg, OfferBoard, LegRows, BoardRows, Known
<1> HIDE DEF personal, global
<1>2. ApplyBestSegments(sp, t, copies, skipRemoved).personal = personal
  BY <1>1 DEF SegmentTables
<1>3. QED BY <1>2 DEF personal

\* So does a board.
LEMMA ApplyToBoard ==
  ASSUME NEW sp, NEW t \in SegmentTables, NEW copies, NEW skipRemoved, NEW b \in Board
  PROVE  ApplyBestSegments(sp, t, copies, skipRemoved).global[b] =
            BestOf(BoardRows(sp, t, copies, skipRemoved, b))
<1> DEFINE personal == [l \in Leg |->
               BestOf(LegRows(sp, t, copies, skipRemoved, l))]
           global == [c \in Board |->
               BestOf(BoardRows(sp, t, copies, skipRemoved, c))]
<1>1. ApplyBestSegments(sp, t, copies, skipRemoved) =
         [t EXCEPT !.personal = personal, !.global = global]
  BY DEF ApplyBestSegments, OfferLeg, OfferBoard, LegRows, BoardRows, Known
<1> HIDE DEF personal, global
<1>2. ApplyBestSegments(sp, t, copies, skipRemoved).global = global
  BY <1>1 DEF SegmentTables
<1>3. QED BY <1>2 DEF global

\* What is offered to a leg: a measured split of a copy under its key.
LEMMA OfferedSplits ==
  ASSUME NEW sp \in Seq(Splits), NEW t, NEW copies, AreCopies(sp, copies), NEW skipRemoved,
         NEW l \in Leg, NEW x \in OfferLeg(sp, t, copies, skipRemoved, l)
  PROVE  /\ x \in Split
         /\ Traceable(sp, l, x)
         /\ \E o \in copies : o.key = l[1] /\ o.completion.date = x.date
         /\ skipRemoved => \A y \in t.removed : y.leg = l => y.split.date # x.date
<1>1. PICK o \in Offered(sp, t, copies, skipRemoved) :
         <<o[1].key, o[2]>> = l /\ x = SplitOf(sp, o[1], o[2])
  BY DEF OfferLeg
<1>2. /\ o[1] \in copies /\ o[2] \in Segment
      /\ sp[o[1].completion.date][o[2]] > 0
      /\ skipRemoved => ~\E y \in t.removed : /\ y.leg = <<o[1].key, o[2]>>
                                              /\ y.split.date = o[1].completion.date
  BY DEF Offered
<1> DEFINE d == o[1].completion.date
<1>3. d \in 1..MaxDate /\ d \in 1..Len(sp) /\ o[1].key = l[1] /\ o[2] = l[2]
  BY <1>1, <1>2 DEF AreCopies
<1>4. x = [time |-> sp[d][l[2]], date |-> d]
  BY <1>1, <1>3 DEF SplitOf
<1>5. sp[d] \in Splits
  BY <1>3
<1> HIDE DEF d
<1>6. sp[d][l[2]] \in 0..MaxSplit
  BY <1>2, <1>3, <1>5 DEF Splits
<1>7. sp[d][l[2]] > 0
  BY <1>2, <1>3 DEF d
<1>8. x \in Split
  BY <1>3, <1>4, <1>6, <1>7 DEF Split
<1>9. Traceable(sp, l, x)
  BY <1>4 DEF Traceable
<1>10. x.date = o[1].completion.date
  BY <1>4 DEF d
<1>11. QED BY <1>1, <1>2, <1>3, <1>8, <1>9, <1>10

\* An upsert keeps the best of what is stored and what is offered.
LEMMA ApplyLeg ==
  ASSUME NEW sp, NEW t, NEW copies, NEW skipRemoved, NEW after,
         Applied(after, sp, t, copies, skipRemoved), NEW l \in Leg
  PROVE  /\ after.personal[l] = NoSplit =>
               OfferLeg(sp, t, copies, skipRemoved, l) = {} /\ t.personal[l] = NoSplit
         /\ after.personal[l] # NoSplit =>
               /\ after.personal[l] \in Split
               /\ Traceable(sp, l, after.personal[l])
               /\ IsBest(after.personal[l], LegRows(sp, t, copies, skipRemoved, l))
<1> DEFINE offer == OfferLeg(sp, t, copies, skipRemoved, l)
           rows == LegRows(sp, t, copies, skipRemoved, l)
<1>0. /\ sp \in Seq(Splits) /\ AreCopies(sp, copies) /\ t \in SegmentTables
      /\ t.personal[l] # NoSplit => Traceable(sp, l, t.personal[l])
      /\ after = ApplyBestSegments(sp, t, copies, skipRemoved)
  BY DEF Applied, AllTraceable
<1>1. after.personal[l] = BestOf(rows)
  BY <1>0, ApplyToLeg
<1>2. \A x \in rows : x \in Split /\ Traceable(sp, l, x)
  BY <1>0, OfferedSplits DEF SegmentTables, LegRows, Known
<1>3. OneRowPerDate(rows)
  BY <1>2 DEF OneRowPerDate, Traceable, Split
<1>4. AreRows(rows)
  BY <1>2 DEF AreRows
<1>5. rows = {} => after.personal[l] = NoSplit
  BY <1>1 DEF BestOf
<1>6. rows # {} => IsBest(after.personal[l], rows)
  <2> HIDE DEF rows
  <2>1. QED BY <1>1, <1>3, <1>4, BestExists
<1>7. rows # {} => after.personal[l] \in rows
  BY <1>6 DEF IsBest
<1>8. rows # {} => after.personal[l] # NoSplit
  BY <1>2, <1>7 DEF Split
<1>9. rows = {} => offer = {} /\ t.personal[l] = NoSplit
  BY DEF LegRows, Known
<1>10. QED BY <1>2, <1>5, <1>6, <1>7, <1>8, <1>9

-----------------------------------------------------------------------------
(* What they do to a board, when all copies are of one run.                *)

AreOfRun(copies, d, u, r) ==
    \A o \in copies : o.completion.date = d /\ o.key.user = u /\ o.key.run = r

\* The split of a run on a segment.
RunSplit(sp, d, i) == [time |-> sp[d][i], date |-> d]

\* Nothing is offered to a board, or one row through one leg.
NoOffer(sp, t, copies, skipRemoved, b) ==
    /\ OfferBoard(sp, t, copies, skipRemoved, b) = {}
    /\ \A l \in Leg : BoardOf(l) = b => OfferLeg(sp, t, copies, skipRemoved, l) = {}
OneOffer(sp, t, copies, skipRemoved, b, d, u, l) ==
    /\ BoardOf(l) = b /\ l[1].user = u
    /\ OfferLeg(sp, t, copies, skipRemoved, l) = {RunSplit(sp, d, l[2])}
    /\ OfferBoard(sp, t, copies, skipRemoved, b) = {OnBoard(RunSplit(sp, d, l[2]), u)}
    /\ \A m \in Leg : BoardOf(m) = b /\ m # l => OfferLeg(sp, t, copies, skipRemoved, m) = {}

\* A run offers a board at most one row.
LEMMA OfferOfRun ==
  ASSUME NEW sp, NEW t, NEW copies, AreCopies(sp, copies), NEW skipRemoved,
         NEW d, NEW u, NEW r, AreOfRun(copies, d, u, r), NEW b
  PROVE  \/ NoOffer(sp, t, copies, skipRemoved, b)
         \/ \E l \in Leg : OneOffer(sp, t, copies, skipRemoved, b, d, u, l)
<1> DEFINE offers == {p \in Offered(sp, t, copies, skipRemoved) : BoardOf(<<p[1].key, p[2]>>) = b}
<1>1. ASSUME NEW p \in offers
      PROVE  /\ <<p[1].key, p[2]>> \in Leg
             /\ p[1].key.user = u /\ p[1].key.run = r /\ p[1].completion.date = d
             /\ BoardOf(<<p[1].key, p[2]>>) = b
  BY DEF Offered, AreCopies, AreOfRun, Leg
<1>2. ASSUME NEW l \in Leg, BoardOf(l) = b, NEW x \in OfferLeg(sp, t, copies, skipRemoved, l)
      PROVE  \E p \in offers : <<p[1].key, p[2]>> = l
  BY <1>2 DEF OfferLeg
<1>3. OfferBoard(sp, t, copies, skipRemoved, b) =
        {[time |-> SplitOf(sp, p[1], p[2]).time, date |-> p[1].completion.date,
          user |-> p[1].key.user] : p \in offers}
  BY DEF OfferBoard
<1>4. ASSUME offers = {} PROVE NoOffer(sp, t, copies, skipRemoved, b)
  BY <1>2, <1>3, <1>4 DEF NoOffer
<1>5. ASSUME NEW p \in offers
      PROVE  \E l \in Leg : OneOffer(sp, t, copies, skipRemoved, b, d, u, l)
  <2> DEFINE l == <<p[1].key, p[2]>>
  <2>1. l \in Leg /\ BoardOf(l) = b /\ l[1].user = u /\ l[1].run = r
    BY <1>1, <1>5
  <2>2. ASSUME NEW q \in offers
        PROVE  /\ <<q[1].key, q[2]>> = l /\ q[2] = l[2]
               /\ SplitOf(sp, q[1], q[2]) = RunSplit(sp, d, l[2])
    <3>1. <<q[1].key, q[2]>> = l
      BY <1>1, <2>1, <2>2, LegOfUser
    <3>2. QED BY <1>1, <2>2, <3>1 DEF SplitOf, RunSplit
  <2>3. OfferLeg(sp, t, copies, skipRemoved, l) = {RunSplit(sp, d, l[2])}
    <3>1. {q \in Offered(sp, t, copies, skipRemoved) : <<q[1].key, q[2]>> = l} = offers
      BY <2>1, <2>2
    <3>2. OfferLeg(sp, t, copies, skipRemoved, l) = {SplitOf(sp, q[1], q[2]) : q \in offers}
      BY <3>1 DEF OfferLeg
    <3> HIDE DEF offers
    <3>3. QED BY <1>5, <2>2, <3>2
  <2>4. OfferBoard(sp, t, copies, skipRemoved, b) = {OnBoard(RunSplit(sp, d, l[2]), u)}
    <3> HIDE DEF offers, l
    <3>1. \A q \in offers : SplitOf(sp, q[1], q[2]).time = RunSplit(sp, d, l[2]).time
      BY <2>2
    <3>2. \A q \in offers : q[1].completion.date = d /\ q[1].key.user = u
      BY <1>1
    <3>3. RunSplit(sp, d, l[2]).date = d
      BY DEF RunSplit
    <3>4. QED BY <1>3, <1>5, <3>1, <3>2, <3>3 DEF OnBoard
  <2>5. \A m \in Leg : BoardOf(m) = b /\ m # l => OfferLeg(sp, t, copies, skipRemoved, m) = {}
    <3> HIDE DEF offers, l
    <3>1. QED BY <1>2, <2>2
  <2> HIDE DEF l
  <2>6. OneOffer(sp, t, copies, skipRemoved, b, d, u, l)
    BY <2>1, <2>3, <2>4, <2>5 DEF OneOffer
  <2>7. QED BY <2>1, <2>6
<1>6. QED BY <1>4, <1>5

-----------------------------------------------------------------------------
(* A board stays the best of its legs.                                     *)

\* An offered row and what is stored.
With(x, stored) == {x} \cup Known(stored)

\* The order between the rows of a leg is that between its rows on the board.
LEMMA RowOfOrder ==
  ASSUME NEW x \in Split, NEW y \in Split, NEW u
  PROVE  Ahead(x, y) => Ahead(OnBoard(x, u), OnBoard(y, u))
<1> DEFINE v == OnBoard(x, u)
           z == OnBoard(y, u)
<1>1. v.time = x.time /\ v.date = x.date /\ z.time = y.time /\ z.date = y.date
  BY DEF OnBoard
<1>2. x # NoSplit /\ y # NoSplit
  OBVIOUS
<1> HIDE DEF v, z
<1>3. Beats(x, y) => Beats(v, z)
  BY <1>1, <1>2 DEF Beats
<1>4. QED BY <1>3 DEF Ahead, v, z

\* One leg of a board keeps the better of its row and of an offer, and so does the
\* board: it is then the best of its legs again.
LEMMA MergeOffer ==
  ASSUME NEW p \in Personal, NEW q \in Personal, OneUserPerDate(p), OneUserPerDate(q),
         NEW b, NEW l \in Leg, BoardOf(l) = b,
         \A m \in Leg : BoardOf(m) = b /\ m # l => q[m] = p[m],
         NEW x \in Split, q[l] # NoSplit, IsBest(q[l], With(x, p[l])),
         NEW z, z = OnBoard(x, l[1].user),
         \A y \in RowsOn(p, b) : y.date = z.date => y = z
  PROVE  BestOf(With(z, BestOf(RowsOn(p, b)))) = BestOf(RowsOn(q, b))
<1> DEFINE old == RowsOn(p, b)
           new == RowsOn(q, b)
           g == BestOf(old)
           n == RowOf(q, l)
<1>1. z \in GlobalSplit
  BY LegParts DEF OnBoard, Split, GlobalSplit, Key
<1>2. old \subseteq GlobalSplit /\ new \subseteq GlobalSplit
  BY RowsOnBoard
<1>3. n \in new
  BY RowsOnBoard
<1>4. \A y \in new : y = n \/ y \in old
  <2> SUFFICES ASSUME NEW y \in new PROVE y = n \/ y \in old
    OBVIOUS
  <2>1. PICK m \in Leg : BoardOf(m) = b /\ q[m] # NoSplit /\ y = RowOf(q, m)
    BY RowsOnBoard
  <2>2. CASE m # l
    <3>1. p[m] = q[m]
      BY <2>1, <2>2
    <3>2. RowOf(p, m) \in old
      BY <2>1, <3>1, RowsOnBoard
    <3>3. QED BY <2>1, <3>1, <3>2 DEF RowOf
  <2>3. QED BY <2>1, <2>2
<1>5. \A y \in old : y \in new \/ (p[l] # NoSplit /\ y = RowOf(p, l))
  <2> SUFFICES ASSUME NEW y \in old PROVE y \in new \/ (p[l] # NoSplit /\ y = RowOf(p, l))
    OBVIOUS
  <2>1. PICK m \in Leg : BoardOf(m) = b /\ p[m] # NoSplit /\ y = RowOf(p, m)
    BY RowsOnBoard
  <2>2. CASE m # l
    <3>1. p[m] = q[m]
      BY <2>1, <2>2
    <3>2. RowOf(q, m) \in new
      BY <2>1, <3>1, RowsOnBoard
    <3>3. QED BY <2>1, <3>1, <3>2 DEF RowOf
  <2>3. QED BY <2>1, <2>2
<1>6. /\ n = z \/ (p[l] # NoSplit /\ n = RowOf(p, l))
      /\ Ahead(n, z)
      /\ p[l] # NoSplit => Ahead(n, RowOf(p, l)) /\ RowOf(p, l) \in old
  <2>1. q[l] \in Split /\ (p[l] # NoSplit => p[l] \in Split)
    BY DEF Personal
  <2>2. /\ q[l] = x \/ (p[l] # NoSplit /\ q[l] = p[l])
        /\ Ahead(q[l], x)
        /\ p[l] # NoSplit => Ahead(q[l], p[l])
    BY DEF IsBest, With, Known
  <2>3. n = OnBoard(q[l], l[1].user)
    BY DEF RowOf
  <2>4. RowOf(p, l) = OnBoard(p[l], l[1].user)
    BY DEF RowOf
  <2> HIDE DEF n
  <2>5. Ahead(n, z)
    BY <2>1, <2>2, <2>3, RowOfOrder
  <2>6. p[l] # NoSplit => Ahead(n, RowOf(p, l))
    BY <2>1, <2>2, <2>3, <2>4, RowOfOrder
  <2>7. n = z \/ (p[l] # NoSplit /\ n = RowOf(p, l))
    BY <2>2, <2>3, <2>4
  <2>8. p[l] # NoSplit => RowOf(p, l) \in old
    BY RowsOnBoard
  <2>9. QED BY <2>5, <2>6, <2>7, <2>8
<1> HIDE DEF old, new, n
<1>7. CASE old = {}
  <2>1. With(z, g) = {z}
    BY <1>7 DEF BestOf, With, Known
  <2>2. n = z /\ new = {z}
    BY <1>3, <1>4, <1>6, <1>7
  <2>3. QED BY <2>1, <2>2 DEF old, new
<1>8. CASE old # {}
  <2>1. IsBest(g, old) /\ g \in GlobalSplit
    <3>1. IsBest(BestOf(RowsOn(p, b)), RowsOn(p, b))
      BY <1>8, BestOfBoard DEF old
    <3>2. QED BY <1>2, <3>1 DEF IsBest, old
  <2> DEFINE w == BestOf(With(z, g))
  <2>2. IsBest(w, {z, g})
    <3>1. With(z, g) = {z, g}
      BY <2>1 DEF With, Known
    <3>2. AreRows({z, g})
      BY <1>1, <2>1 DEF AreRows
    <3>3. \A y \in old : y.date = z.date => y = z
      BY DEF old
    <3>4. OneRowPerDate({z, g})
      BY <2>1, <3>3 DEF OneRowPerDate, IsBest
    <3> HIDE DEF g
    <3>5. QED BY <3>1, <3>2, <3>4, BestExists
  <2> HIDE DEF w, g
  <2>3. n \in GlobalSplit
    BY <1>2, <1>3
  <2>4. AreRows(GlobalSplit)
    BY DEF AreRows
  <2>5. w \in GlobalSplit /\ Ahead(w, z) /\ Ahead(w, g)
    BY <1>1, <2>1, <2>2 DEF IsBest
  <2>6. \A y \in old : Ahead(w, y)
    BY <1>2, <2>1, <2>4, <2>5, AheadOrder DEF IsBest
  <2>7. Ahead(w, n)
    BY <1>6, <2>5, <2>6
  <2>8. w \in new
    <3>1. CASE w = z
      <4>1. Ahead(n, w)
        BY <1>6, <3>1
      <4>2. n = w
        BY <2>3, <2>4, <2>5, <2>7, <4>1, AheadOrder
      <4>3. QED BY <1>3, <4>2
    <3>2. CASE w = g
      <4>1. g \in old
        BY <2>1 DEF IsBest
      <4>2. CASE p[l] # NoSplit /\ g = RowOf(p, l)
        <5>1. Ahead(n, w)
          BY <1>6, <3>2, <4>2
        <5>2. n = w
          BY <2>3, <2>4, <2>5, <2>7, <5>1, AheadOrder
        <5>3. QED BY <1>3, <5>2
      <4>3. QED BY <1>5, <3>2, <4>1, <4>2
    <3>3. QED BY <2>2, <3>1, <3>2 DEF IsBest
  <2>9. IsBest(w, new)
    BY <1>4, <2>6, <2>7, <2>8 DEF IsBest
  <2>10. AreRows(new)
    BY <1>2 DEF AreRows
  <2>11. BestOf(new) = w
    BY <2>9, <2>10, BestIsUnique
  <2>12. QED BY <2>11 DEF w, g, old, new
<1>9. QED BY <1>7, <1>8

-----------------------------------------------------------------------------
(* The tables after upserts, voids and recomputations.                     *)

IsBestOfBoards(t) == \A b \in Board : t.global[b] = BestOf(RowsOn(t.personal, b))

\* The splits a run has stored are those of its user.
BelongsTo(personal, d, u) ==
    \A l \in Leg : personal[l] # NoSplit /\ personal[l].date = d => l[1].user = u

\* After upserts a leg holds what it held, or a split of one of the copies.
LEMMA ApplyPersonal ==
  ASSUME NEW sp, NEW t, NEW copies, NEW skipRemoved, NEW after,
         Applied(after, sp, t, copies, skipRemoved)
  PROVE  /\ after.personal \in Personal
         /\ AllTraceable(sp, after.personal)
         /\ \A l \in Leg : after.personal[l] # NoSplit /\ after.personal[l] # t.personal[l] =>
              /\ \E o \in copies : o.key = l[1] /\ o.completion.date = after.personal[l].date
              /\ skipRemoved => \A y \in t.removed :
                                   y.leg = l => y.split.date # after.personal[l].date
         /\ \A l \in Leg : after.personal[l] = t.personal[l] \/ Beats(after.personal[l], t.personal[l])
<1>1. ASSUME NEW l \in Leg
      PROVE  /\ after.personal[l] = NoSplit => t.personal[l] = NoSplit
             /\ after.personal[l] # NoSplit =>
                   after.personal[l] \in Split /\ Traceable(sp, l, after.personal[l])
             /\ after.personal[l] # NoSplit =>
                   IsBest(after.personal[l], LegRows(sp, t, copies, skipRemoved, l))
  BY <1>1, ApplyLeg
<1>2. after.personal \in Personal
  <2>1. AreTables(after)
    BY ApplyTables DEF Applied
  <2>2. after.personal = [l \in Leg |-> after.personal[l]]
    BY <2>1 DEF AreTables
  <2>3. QED BY <1>1, <2>2 DEF Personal
<1>3. ASSUME NEW l \in Leg, after.personal[l] # NoSplit, after.personal[l] # t.personal[l]
      PROVE  /\ \E o \in copies : o.key = l[1] /\ o.completion.date = after.personal[l].date
             /\ skipRemoved => \A y \in t.removed : y.leg = l => y.split.date # after.personal[l].date
  <2>1. after.personal[l] \in OfferLeg(sp, t, copies, skipRemoved, l)
    BY <1>1, <1>3 DEF IsBest, LegRows, Known
  <2>2. QED BY <2>1, OfferedSplits DEF Applied
<1>4. ASSUME NEW l \in Leg
      PROVE  after.personal[l] = t.personal[l] \/ Beats(after.personal[l], t.personal[l])
  <2>1. CASE t.personal[l] = NoSplit
    BY <2>1 DEF Beats
  <2>2. CASE t.personal[l] # NoSplit
    BY <1>1, <2>2 DEF IsBest, LegRows, Known, Ahead
  <2>3. QED BY <2>1, <2>2
<1>5. QED BY <1>1, <1>2, <1>3, <1>4 DEF AllTraceable

\* The copies of a run keep the users of dates apart.
LEMMA ApplyUsers ==
  ASSUME NEW sp, NEW t, NEW copies, NEW skipRemoved, NEW after,
         Applied(after, sp, t, copies, skipRemoved), NEW d, NEW u, NEW r, AreOfRun(copies, d, u, r),
         OneUserPerDate(t.personal), BelongsTo(t.personal, d, u)
  PROVE  OneUserPerDate(after.personal)
<1>1. ASSUME NEW l \in Leg, after.personal[l] # NoSplit
      PROVE  \/ t.personal[l] # NoSplit /\ t.personal[l].date = after.personal[l].date
             \/ after.personal[l].date = d /\ l[1].user = u
  BY <1>1, ApplyPersonal DEF AreOfRun
<1>2. QED BY <1>1 DEF OneUserPerDate, BelongsTo

\* The copies of a run leave every board that was the best of its legs that.
LEMMA ApplyBoard ==
  ASSUME NEW sp, NEW t, NEW copies, NEW skipRemoved, NEW after,
         Applied(after, sp, t, copies, skipRemoved), NEW d, NEW u, NEW r, AreOfRun(copies, d, u, r),
         OneUserPerDate(t.personal), BelongsTo(t.personal, d, u),
         NEW b \in Board, t.global[b] = BestOf(RowsOn(t.personal, b))
  PROVE  after.global[b] = BestOf(RowsOn(after.personal, b))
<1> DEFINE p == t.personal
           q == after.personal
           g == BestOf(RowsOn(p, b))
<1>1. p \in Personal /\ q \in Personal /\ OneUserPerDate(p) /\ OneUserPerDate(q)
  BY ApplyPersonal, ApplyUsers DEF Applied, SegmentTables, Personal
<1>2. after.global[b] = BestOf(BoardRows(sp, t, copies, skipRemoved, b)) /\ t.global[b] = g
  <2>1. after.global[b] = BestOf(BoardRows(sp, t, copies, skipRemoved, b))
    BY ApplyToBoard DEF Applied
  <2>2. QED BY <2>1
<1>3. ASSUME NEW m \in Leg, OfferLeg(sp, t, copies, skipRemoved, m) = {}
      PROVE  q[m] = p[m]
  BY <1>3, ApplyLeg DEF IsBest, LegRows, Known
<1>4. ASSUME NoOffer(sp, t, copies, skipRemoved, b)
      PROVE  after.global[b] = BestOf(RowsOn(q, b))
  <2>0. BoardRows(sp, t, copies, skipRemoved, b) = Known(g)
    BY <1>2, <1>4 DEF NoOffer, BoardRows
  <2>1. RowsOn(q, b) = RowsOn(p, b)
    <3>1. \A m \in Leg : BoardOf(m) = b => q[m] = p[m]
      BY <1>3, <1>4 DEF NoOffer
    <3> HIDE DEF p, q
    <3>2. QED BY <3>1, RowsOnSame
  <2>2. g \in GlobalSplit \cup {NoSplit}
    BY <1>1, BestOfBoard
  <2>3. CASE RowsOn(p, b) = {}
    BY <1>2, <2>0, <2>1, <2>3 DEF BestOf, Known
  <2>4. CASE RowsOn(p, b) # {}
    <3>1. IsBest(g, RowsOn(p, b))
      BY <1>1, <2>4, BestOfBoard
    <3>2. g \in GlobalSplit
      BY <1>1, <3>1, RowsOnBoard DEF IsBest
    <3>3. AreRows({g}) /\ IsBest(g, {g})
      BY <3>2 DEF AreRows, IsBest, Ahead
    <3>4. BoardRows(sp, t, copies, skipRemoved, b) = {g}
      BY <2>0, <3>2 DEF Known
    <3> HIDE DEF g
    <3>5. BestOf({g}) = g
      BY <3>3, BestIsUnique
    <3>6. QED BY <1>2, <2>1, <3>4, <3>5 DEF g
  <2>5. QED BY <2>3, <2>4
<1>5. ASSUME NEW l \in Leg, OneOffer(sp, t, copies, skipRemoved, b, d, u, l)
      PROVE  after.global[b] = BestOf(RowsOn(q, b))
  <2> DEFINE x == RunSplit(sp, d, l[2])
             z == OnBoard(x, l[1].user)
  <2>1. /\ BoardOf(l) = b /\ l[1].user = u
        /\ OfferLeg(sp, t, copies, skipRemoved, l) = {x}
        /\ OfferBoard(sp, t, copies, skipRemoved, b) = {z}
        /\ \A m \in Leg : BoardOf(m) = b /\ m # l => OfferLeg(sp, t, copies, skipRemoved, m) = {}
    BY <1>5 DEF OneOffer
  <2>2. LegRows(sp, t, copies, skipRemoved, l) = With(x, p[l])
    BY <2>1 DEF LegRows, With
  <2>3. BoardRows(sp, t, copies, skipRemoved, b) = With(z, g)
    BY <1>2, <2>1 DEF BoardRows, With
  <2>4. x \in Split
    BY <2>1, OfferedSplits DEF Applied
  <2>5. q[l] # NoSplit
    BY <2>1, ApplyLeg
  <2>6. IsBest(q[l], With(x, p[l]))
    BY <2>2, <2>5, ApplyLeg
  <2>7. \A m \in Leg : BoardOf(m) = b /\ m # l => q[m] = p[m]
    BY <1>3, <2>1
  <2>8. ASSUME NEW y \in RowsOn(p, b), y.date = z.date PROVE y = z
    <3>1. PICK m \in Leg : BoardOf(m) = b /\ p[m] # NoSplit /\ y = RowOf(p, m)
      BY <1>1, RowsOnBoard
    <3>2. p[m].date = d
      BY <2>8, <3>1 DEF RowOf, OnBoard, RunSplit
    <3>3. m[1].user = u
      BY <3>1, <3>2 DEF BelongsTo
    <3>4. m = l
      BY <2>1, <3>1, <3>3, LegOfUser
    <3>5. p[l].time = sp[d][l[2]]
      BY <3>1, <3>2, <3>4 DEF Applied, AllTraceable, Traceable
    <3>6. p[l].time = x.time /\ p[l].date = x.date
      BY <3>2, <3>4, <3>5 DEF RunSplit
    <3>7. QED BY <3>1, <3>4, <3>6 DEF RowOf, OnBoard
  <2>9. z = OnBoard(x, l[1].user)
    OBVIOUS
  <2> HIDE DEF x, z, p, q, g
  <2>10. BestOf(With(z, BestOf(RowsOn(p, b)))) = BestOf(RowsOn(q, b))
    BY <1>1, <2>1, <2>4, <2>5, <2>6, <2>7, <2>8, <2>9, MergeOffer
  <2>11. QED BY <1>2, <2>3, <2>10 DEF g
<1>6. AreCopies(sp, copies)
  BY DEF Applied
<1>7. QED BY <1>4, <1>5, <1>6, OfferOfRun

\* Tables whose boards are the best of their legs are well formed.
LEMMA TablesType ==
  ASSUME NEW t, AreTables(t), t.personal \in Personal, OneUserPerDate(t.personal), IsBestOfBoards(t), t.removed \subseteq RemovedSplit
  PROVE  t \in SegmentTables
<1>1. \A b \in Board : t.global[b] \in GlobalSplit \cup {NoSplit}
  BY BestOfBoard DEF IsBestOfBoards
<1>2. t.global \in [Board -> GlobalSplit \cup {NoSplit}]
  BY <1>1 DEF AreTables
<1>3. QED BY <1>2 DEF AreTables, SegmentTables, Personal

\* Clearing legs empties them and leaves everything else.
LEMMA ClearTables ==
  ASSUME NEW t \in SegmentTables, NEW legs
  PROVE  /\ Clear(t, legs) \in SegmentTables
         /\ Clear(t, legs).global = t.global
         /\ Clear(t, legs).removed = t.removed
         /\ \A l \in Leg : Clear(t, legs).personal[l] = IF l \in legs THEN NoSplit ELSE t.personal[l]
  BY DEF Clear, SegmentTables

\* The boards of other legs keep their rows.
LEMMA ClearBoard ==
  ASSUME NEW t \in SegmentTables, NEW legs, NEW b, \A l \in legs : BoardOf(l) # b
  PROVE  RowsOn(Clear(t, legs).personal, b) = RowsOn(t.personal, b)
<1>1. \A l \in Leg : BoardOf(l) = b => Clear(t, legs).personal[l] = t.personal[l]
  BY ClearTables
<1>2. QED BY <1>1, RowsOnSame

\* A recomputation changes nothing but the boards.
LEMMA RecomputeTables ==
  ASSUME NEW t, AreTables(t), NEW legs
  PROVE  /\ AreTables(RecomputeSegments(t, legs))
         /\ RecomputeSegments(t, legs).personal = t.personal
         /\ RecomputeSegments(t, legs).removed = t.removed
<1> DEFINE global == [b \in Board |-> IF \E l \in legs : BoardOf(l) = b
                                      THEN BestOf(RowsOn(t.personal, b))
                                      ELSE t.global[b]]
<1>1. t = [personal |-> t.personal, global |-> t.global, removed |-> t.removed]
  BY DEF AreTables
<1>2. RecomputeSegments(t, legs) = [t EXCEPT !.global = global]
  BY <1>1 DEF RecomputeSegments
<1>3. global = [b \in Board |-> global[b]]
  OBVIOUS
<1>4. t.personal = [l \in Leg |-> t.personal[l]]
  BY DEF AreTables
<1> HIDE DEF global
<1>5. RecomputeSegments(t, legs) = [personal |-> t.personal, global |-> global, removed |-> t.removed]
  BY <1>1, <1>2
<1>6. QED BY <1>3, <1>4, <1>5 DEF AreTables

\* It makes the boards the best of their legs when the others were.
LEMMA RecomputeBoards ==
  ASSUME NEW t, AreTables(t), NEW legs,
         \A b \in Board : (\A l \in legs : BoardOf(l) # b) =>
            t.global[b] = BestOf(RowsOn(t.personal, b))
  PROVE  IsBestOfBoards(RecomputeSegments(t, legs))
<1> DEFINE global == [b \in Board |-> IF \E l \in legs : BoardOf(l) = b
                                      THEN BestOf(RowsOn(t.personal, b))
                                      ELSE t.global[b]]
<1>1. t = [personal |-> t.personal, global |-> t.global, removed |-> t.removed]
  BY DEF AreTables
<1>2. RecomputeSegments(t, legs) = [t EXCEPT !.global = global]
  BY <1>1 DEF RecomputeSegments
<1>3. ASSUME NEW b \in Board PROVE global[b] = BestOf(RowsOn(t.personal, b))
  OBVIOUS
<1> HIDE DEF global
<1>4. RecomputeSegments(t, legs) = [personal |-> t.personal, global |-> global, removed |-> t.removed]
  BY <1>1, <1>2
<1>5. RecomputeSegments(t, legs).global = global /\ RecomputeSegments(t, legs).personal = t.personal
  BY <1>4
<1>6. QED BY <1>3, <1>5 DEF IsBestOfBoards

\* Tables are tables.
LEMMA TablesAre ==
  ASSUME NEW t \in SegmentTables
  PROVE  AreTables(t) /\ t.personal \in Personal
  BY DEF SegmentTables, AreTables, Personal

-----------------------------------------------------------------------------
(* The invariant.                                                          *)

\* The keys and dates under which anything of a run is stored.
Uses(t, hist, d) ==
    {<<l[1], t.personal[l].date>> : l \in {x \in Leg : t.personal[x] # NoSplit}}
    \cup {<<x.leg[1], x.split.date>> : x \in t.removed}
    \cup {<<x.key, x.completion.date>> : x \in hist \cup Stored(d)}

\* A date is used for one run of one user.
OneRunPerDate(uses) ==
    \A x, y \in uses : x[2] = y[2] => x[1].user = y[1].user /\ x[1].run = y[1].run

NeverCounts(t, archive) ==
    \A l \in Leg :
       t.personal[l] # NoSplit =>
          /\ ~\E a \in archive : a.key = l[1] /\ a.completion.date = t.personal[l].date
          /\ ~\E x \in t.removed : x.leg = l /\ x.split.date = t.personal[l].date

RemovedOnce(t) ==
    \A x, y \in t.removed : x.leg = y.leg /\ x.split.date = y.split.date => x = y

RemovedTraceable(sp, t) == \A x \in t.removed : Traceable(sp, x.leg, x.split)

SegmentsInv ==
    /\ IInv
    /\ SegmentsTypeOK
    /\ \A x \in Uses(segments, history, db) : x[2] <= date
    /\ OneRunPerDate(Uses(segments, history, db))
    /\ IsBestOfBoards(segments)
    /\ NeverCounts(segments, db.archive)
    /\ AllTraceable(splits, segments.personal)
    /\ RemovedTraceable(splits, segments)
    /\ RemovedOnce(segments)

\* Whatever is stored is a use.
LEMMA UsesContain ==
  ASSUME NEW t, NEW hist, NEW d
  PROVE  /\ \A l \in Leg : t.personal[l] # NoSplit => <<l[1], t.personal[l].date>> \in Uses(t, hist, d)
         /\ \A x \in t.removed : <<x.leg[1], x.split.date>> \in Uses(t, hist, d)
         /\ \A x \in hist : <<x.key, x.completion.date>> \in Uses(t, hist, d)
         /\ \A x \in Stored(d) : <<x.key, x.completion.date>> \in Uses(t, hist, d)
  BY DEF Uses

\* Nothing else is.
LEMMA UsesWithin ==
  ASSUME NEW t, NEW hist, NEW d, NEW uses,
         \A l \in Leg : t.personal[l] # NoSplit => <<l[1], t.personal[l].date>> \in uses,
         \A x \in t.removed : <<x.leg[1], x.split.date>> \in uses,
         \A x \in hist : <<x.key, x.completion.date>> \in uses,
         \A x \in Stored(d) : <<x.key, x.completion.date>> \in uses
  PROVE  Uses(t, hist, d) \subseteq uses
  BY DEF Uses

\* Less stored is less used.
LEMMA UsesShrink ==
  ASSUME NEW t, NEW hist, NEW d, NEW t2, NEW hist2, NEW d2,
         \A l \in Leg : t2.personal[l] # NoSplit => t2.personal[l] = t.personal[l],
         t2.removed \subseteq t.removed, hist2 \subseteq hist, Stored(d2) \subseteq Stored(d)
  PROVE  Uses(t2, hist2, d2) \subseteq Uses(t, hist, d)
<1> DEFINE uses == Uses(t, hist, d)
<1>1. /\ \A l \in Leg : t.personal[l] # NoSplit => <<l[1], t.personal[l].date>> \in uses
      /\ \A x \in t.removed : <<x.leg[1], x.split.date>> \in uses
      /\ \A x \in hist : <<x.key, x.completion.date>> \in uses
      /\ \A x \in Stored(d) : <<x.key, x.completion.date>> \in uses
  BY UsesContain
<1> HIDE DEF uses
<1>2. \A l \in Leg : t2.personal[l] # NoSplit => <<l[1], t2.personal[l].date>> \in uses
  BY <1>1
<1>3. /\ \A x \in t2.removed : <<x.leg[1], x.split.date>> \in uses
      /\ \A x \in hist2 : <<x.key, x.completion.date>> \in uses
      /\ \A x \in Stored(d2) : <<x.key, x.completion.date>> \in uses
  BY <1>1
<1>4. QED BY <1>2, <1>3, UsesWithin DEF uses

\* The splits of a date are those of its user.
LEMMA UsersApart ==
  ASSUME NEW t, NEW hist, NEW d, OneRunPerDate(Uses(t, hist, d))
  PROVE  OneUserPerDate(t.personal)
<1> SUFFICES ASSUME NEW l \in Leg, NEW m \in Leg, t.personal[l] # NoSplit, t.personal[m] # NoSplit,
                    t.personal[l].date = t.personal[m].date
             PROVE  l[1].user = m[1].user
  BY DEF OneUserPerDate
<1> DEFINE x == <<l[1], t.personal[l].date>>
           y == <<m[1], t.personal[m].date>>
<1>1. x \in Uses(t, hist, d) /\ y \in Uses(t, hist, d)
  BY UsesContain
<1>2. x[1].user = y[1].user
  BY <1>1 DEF OneRunPerDate
<1>3. QED BY <1>2

\* The invariant is what the runs check, and more.
LEMMA SegmentsInvImplies ==
  SegmentsInv => /\ GlobalIsBestPersonal
                 /\ RemovedNeverCounts
                 /\ SplitsAreTraceable
                 /\ SegmentsTypeOK
<1>1. SegmentsInv => GlobalIsBestPersonal
  BY DEF SegmentsInv, GlobalIsBestPersonal, IsBestOfBoards
<1>2. SegmentsInv => RemovedNeverCounts
  BY DEF SegmentsInv, RemovedNeverCounts, NeverCounts
<1>3. SegmentsInv => SplitsAreTraceable
  BY DEF SegmentsInv, SplitsAreTraceable, AllTraceable, RemovedTraceable, Traceable, RemovedOnce
<1>4. QED BY <1>1, <1>2, <1>3 DEF SegmentsInv

\* An operation that stores nothing of another run, and keeps the tables in order,
\* keeps the invariant.
LEMMA QuietStep ==
  ASSUME SegmentsInv, IInv', UNCHANGED <<splits, date>>, history' \subseteq history,
         AreTables(segments'), segments'.personal \in Personal, segments'.removed \subseteq RemovedSplit,
         AllTraceable(splits, segments'.personal), RemovedTraceable(splits, segments'),
         Uses(segments', history', db') \subseteq Uses(segments, history, db),
         IsBestOfBoards(segments'), NeverCounts(segments', db'.archive), RemovedOnce(segments')
  PROVE  SegmentsInv'
<1>1. OneRunPerDate(Uses(segments', history', db'))
  BY DEF SegmentsInv, OneRunPerDate
<1>2. \A x \in Uses(segments', history', db') : x[2] <= date'
  BY DEF SegmentsInv
<1>3. segments' \in SegmentTables
  BY <1>1, UsersApart, TablesType
<1>4. SegmentsTypeOK'
  BY <1>3 DEF SegmentsInv, SegmentsTypeOK
<1>5. AllTraceable(splits', segments'.personal) /\ RemovedTraceable(splits', segments')
  OBVIOUS
<1>6. QED BY <1>1, <1>2, <1>4, <1>5 DEF SegmentsInv

-----------------------------------------------------------------------------
(* The operations on the records are those of the repository.              *)

LEMMA StepRefines ==
  ASSUME [SegmentsNext]_segmentVars
  PROVE  [RepositoryNext]_repositoryVars
<1>1. CASE UNCHANGED segmentVars
  BY <1>1 DEF segmentVars
<1>2. ASSUME NEW active \in {a \in SUBSET season : Default \in a}, NEW u \in User, NEW r \in Run,
             NEW sp \in Splits, CompleteRun(active, u, r, sp)
      PROVE  RepositoryNext
  <2>1. RunTime(sp) \in 1..MaxTime /\ Complete(active, u, r, RunTime(sp))
    BY <1>2 DEF CompleteRun
  <2>2. QED BY <2>1 DEF RepositoryNext
<1>3. ASSUME NEW target \in season \cup {AnySeason}, NEW u \in User, NEW by \in User, NEW r \in Run,
             RemoveRun(target, u, r, by)
      PROVE  RepositoryNext
  BY <1>3 DEF RemoveRun, RepositoryNext
<1>4. ASSUME NEW a \in db.archive, NEW caller \in User, NEW admin \in BOOLEAN, NEW force \in BOOLEAN,
             RestoreRun(a, caller, admin, force)
      PROVE  RepositoryNext
  BY <1>4 DEF RestoreRun, RepositoryNext
<1>5. CASE AddSegmentSeason
  BY <1>5 DEF AddSegmentSeason, RepositoryNext
<1>6. ASSUME NEW s \in season, PurgeSegments(s) PROVE RepositoryNext
  BY <1>6 DEF PurgeSegments, RepositoryNext
<1>7. ASSUME NEW target \in season \cup {AnySeason}, NEW u \in User, NEW by \in User, NEW r \in Run,
             NEW i \in Segment, RemoveSegment(target, u, r, i, by)
      PROVE  UNCHANGED repositoryVars
  BY <1>7 DEF RemoveSegment
<1>8. ASSUME NEW x \in segments.removed, NEW caller \in User, NEW admin \in BOOLEAN,
             NEW force \in BOOLEAN, RestoreSegment(x, caller, admin, force)
      PROVE  UNCHANGED repositoryVars
  BY <1>8 DEF RestoreSegment
<1>9. CASE Restart
  BY <1>9 DEF Restart
<1>10. QED BY <1>1, <1>2, <1>3, <1>4, <1>5, <1>6, <1>7, <1>8, <1>9 DEF SegmentsNext

-----------------------------------------------------------------------------
(* The invariant, operation by operation.                                  *)

LEMMA SegmentsInitInv == SegmentsInit => SegmentsInv
<1> SUFFICES ASSUME SegmentsInit PROVE SegmentsInv
  OBVIOUS
<1>1. IInv
  BY InitInv DEF SegmentsInit
<1>2. /\ segments = [personal |-> [l \in Leg |-> NoSplit], global |-> [b \in Board |-> NoSplit],
                     removed |-> {}]
      /\ history = {} /\ splits = <<>> /\ date = 0
  BY DEF SegmentsInit, RepositoryInit
<1>3. /\ \A l \in Leg : segments.personal[l] = NoSplit
      /\ \A b \in Board : segments.global[b] = NoSplit
      /\ segments.removed = {}
  BY <1>2
<1>4. SegmentsTypeOK
  BY <1>2 DEF SegmentsTypeOK, SegmentTables
<1>5. Uses(segments, history, db) = {}
  <2>1. Stored(db) = {}
    BY DEF SegmentsInit, RepositoryInit, Stored, HasRecord
  <2>2. QED BY <1>2, <1>3, <2>1 DEF Uses
<1>6. IsBestOfBoards(segments)
  <2>1. \A b \in Board : RowsOn(segments.personal, b) = {}
    BY <1>3 DEF RowsOn
  <2>2. QED BY <1>3, <2>1 DEF IsBestOfBoards, BestOf
<1>7. /\ NeverCounts(segments, db.archive) /\ AllTraceable(splits, segments.personal)
      /\ RemovedTraceable(splits, segments) /\ RemovedOnce(segments)
  BY <1>3 DEF NeverCounts, AllTraceable, RemovedTraceable, RemovedOnce
<1>8. QED BY <1>1, <1>4, <1>5, <1>6, <1>7 DEF SegmentsInv, OneRunPerDate

\* The types the invariant gives.
LEMMA InvTypes ==
  ASSUME SegmentsInv
  PROVE  /\ segments \in SegmentTables /\ db \in Database /\ season \in SUBSET Season
         /\ splits \in Seq(Splits) /\ Len(splits) = date /\ date \in 0..MaxDate
         /\ \A h \in history : h.key \in Key /\ h.completion \in Completion
<1>1. segments \in SegmentTables /\ splits \in Seq(Splits) /\ Len(splits) = date
      /\ \A h \in history : h.key \in Key /\ h.completion \in Completion
  BY DEF SegmentsInv, SegmentsTypeOK
<1>2. RepositoryTypeOK
  BY DEF SegmentsInv, IInv
<1>3. db \in Database /\ season \in SUBSET Season /\ date \in 0..MaxDate
  BY <1>2, BoundAssumption DEF RepositoryTypeOK, Season
<1>4. QED BY <1>1, <1>3

\* What a step may do to the split of a leg: it stays, gives way to a better one, or was
\* removed, itself or with its run.
Improves(l) ==
    segments.personal[l] # NoSplit /\ segments'.personal[l] # NoSplit =>
       \/ segments'.personal[l] = segments.personal[l]
       \/ Beats(segments'.personal[l], segments.personal[l])
       \/ \E x \in segments'.removed : x.leg = l /\ x.split = segments.personal[l]
       \/ \E a \in db'.archive : a.key = l[1] /\ a.completion.date = segments.personal[l].date

\* Removing a record voids the splits of its copies.
LEMMA RemoveRunInv ==
  ASSUME SegmentsInv, IInv', NEW target \in season \cup {AnySeason}, NEW u \in User, NEW by \in User,
         NEW r \in Run, RemoveRun(target, u, r, by)
  PROVE  SegmentsInv' /\ \A l \in Leg : Improves(l)
<1> DEFINE rows == RemovedRows(db, target, u, r)
           copies == {[key |-> k, completion |-> db.live[k]] : k \in rows}
           legs == HeldBy(segments, copies)
           cleared == Clear(segments, legs)
<1>1. /\ Remove(target, u, r, by)
      /\ segments' = RecomputeSegments(cleared, legs)
      /\ UNCHANGED <<history, splits>>
  BY DEF RemoveRun, VoidBestSegments
<1>2. segments \in SegmentTables /\ db \in Database /\ season \in SUBSET Season
  BY InvTypes
<1>3. rows \in SUBSET Key /\ (\A k \in rows : HasRecord(db, k)) /\ db' = Archive(db, rows, by)
      /\ date' = date
  BY <1>1, <1>2, RemovedRowsLive DEF Remove, RemoveRecord
<1>4. \A l \in Leg : segments.personal[l] # NoSplit /\ l \notin legs =>
         \A k \in rows : k = l[1] => db.live[k].date # segments.personal[l].date
  <2> SUFFICES ASSUME NEW l \in Leg, segments.personal[l] # NoSplit, NEW k \in rows, k = l[1],
                      db.live[k].date = segments.personal[l].date
               PROVE  l \in legs
    OBVIOUS
  <2> DEFINE x == [key |-> k, completion |-> db.live[k]]
  <2>1. x \in copies /\ x.key = l[1] /\ x.completion.date = segments.personal[l].date
    OBVIOUS
  <2> HIDE DEF copies, x
  <2>2. QED BY <2>1 DEF HeldBy
<1> HIDE DEF rows, legs
<1>5. /\ cleared \in SegmentTables
      /\ cleared.removed = segments.removed
      /\ cleared.global = segments.global
      /\ \A l \in Leg : cleared.personal[l] = IF l \in legs THEN NoSplit ELSE segments.personal[l]
  BY <1>2, ClearTables
<1>6. \A b \in Board : (\A l \in legs : BoardOf(l) # b) =>
         cleared.global[b] = BestOf(RowsOn(cleared.personal, b))
  <2> SUFFICES ASSUME NEW b \in Board, \A l \in legs : BoardOf(l) # b
               PROVE  cleared.global[b] = BestOf(RowsOn(cleared.personal, b))
    OBVIOUS
  <2>1. RowsOn(cleared.personal, b) = RowsOn(segments.personal, b)
    BY <1>2, ClearBoard
  <2>2. QED BY <1>5, <2>1 DEF SegmentsInv, IsBestOfBoards
<1> HIDE DEF cleared
<1>7. /\ AreTables(segments') /\ segments'.personal = cleared.personal
      /\ segments'.removed = segments.removed /\ IsBestOfBoards(segments')
      /\ segments'.personal \in Personal
  BY <1>1, <1>5, <1>6, TablesAre, RecomputeTables, RecomputeBoards
<1>8. \A l \in Leg : segments'.personal[l] # NoSplit =>
         l \notin legs /\ segments'.personal[l] = segments.personal[l]
  BY <1>5, <1>7
<1>9. \A x \in db'.archive : \/ x \in db.archive
                             \/ x.key \in rows /\ x.completion = db.live[x.key]
  BY <1>3 DEF Archive
<1>10. NeverCounts(segments', db'.archive)
  <2> SUFFICES ASSUME NEW l \in Leg, segments'.personal[l] # NoSplit
               PROVE  /\ \A a \in db'.archive : a.key = l[1] =>
                            a.completion.date # segments'.personal[l].date
                      /\ \A x \in segments'.removed : x.leg = l =>
                            x.split.date # segments'.personal[l].date
    BY DEF NeverCounts
  <2>1. l \notin legs /\ segments'.personal[l] = segments.personal[l]
    BY <1>8
  <2>2. ASSUME NEW a \in db'.archive, a.key = l[1]
        PROVE  a.completion.date # segments'.personal[l].date
    BY <1>4, <1>9, <2>1, <2>2 DEF SegmentsInv, NeverCounts
  <2>3. QED BY <1>7, <2>1, <2>2 DEF SegmentsInv, NeverCounts
<1>11. Stored(db') \subseteq Stored(db)
  BY <1>2, <1>3, ArchiveStored
<1>12. Uses(segments', history', db') \subseteq Uses(segments, history, db)
  BY <1>1, <1>7, <1>8, <1>11, UsesShrink
<1>13. AllTraceable(splits, segments'.personal) /\ RemovedTraceable(splits, segments')
  BY <1>7, <1>8 DEF SegmentsInv, AllTraceable, RemovedTraceable
<1>14. RemovedOnce(segments') /\ segments'.removed \subseteq RemovedSplit
  BY <1>2, <1>7 DEF SegmentsInv, RemovedOnce, SegmentTables
<1>15. history' \subseteq history /\ UNCHANGED <<splits, date>>
  BY <1>1, <1>3
<1>16. \A l \in Leg : Improves(l)
  BY <1>8, <1>9 DEF Improves
<1>17. QED BY <1>16, <1>7, <1>10, <1>12, <1>13, <1>14, <1>15, QuietStep

\* A new season changes nothing that is stored.
LEMMA AddSegmentSeasonInv ==
  ASSUME SegmentsInv, IInv', AddSegmentSeason
  PROVE  SegmentsInv'
<1>1. UNCHANGED <<segments, history, splits, db, date>>
  BY DEF AddSegmentSeason, AddSeason
<1>2. SegmentsTypeOK'
  BY <1>1 DEF SegmentsInv, SegmentsTypeOK
<1>3. QED BY <1>1, <1>2 DEF SegmentsInv

\* A purge takes whole legs and whole boards.
LEMMA PurgeSegmentsInv ==
  ASSUME SegmentsInv, IInv', NEW s \in season, PurgeSegments(s)
  PROVE  SegmentsInv' /\ \A l \in Leg : Improves(l)
<1> DEFINE personal == [l \in Leg |-> IF l[1].season = s THEN NoSplit ELSE segments.personal[l]]
           global == [b \in Board |-> IF b[1] = s THEN NoSplit ELSE segments.global[b]]
           removed == {x \in segments.removed : x.leg[1].season # s}
<1>1. /\ DeleteSeason(s)
      /\ segments' = [personal |-> personal, global |-> global, removed |-> removed]
      /\ history' \subseteq history /\ splits' = splits
  BY DEF PurgeSegments
<1>2. segments \in SegmentTables /\ db \in Database /\ s \in Season
  BY InvTypes
<1>3. db' = PurgeSeason(db, s) /\ date' = date
  BY <1>1 DEF DeleteSeason
<1>4. /\ \A l \in Leg : personal[l] = IF l[1].season = s THEN NoSplit ELSE segments.personal[l]
      /\ \A b \in Board : global[b] = IF b[1] = s THEN NoSplit ELSE segments.global[b]
      /\ personal = [l \in Leg |-> personal[l]] /\ global = [b \in Board |-> global[b]]
      /\ removed \subseteq segments.removed
  OBVIOUS
<1> HIDE DEF personal, global, removed
<1>5. segments'.personal = personal /\ segments'.global = global /\ segments'.removed = removed
  BY <1>1
<1>6. AreTables(segments')
  BY <1>1, <1>4, <1>5 DEF AreTables
<1>7. personal \in Personal
  BY <1>2, <1>4 DEF SegmentTables, Personal
<1>8. \A l \in Leg : personal[l] # NoSplit => personal[l] = segments.personal[l]
  BY <1>4
<1>9. ASSUME NEW b \in Board PROVE global[b] = BestOf(RowsOn(personal, b))
  <2>1. CASE b[1] = s
    <3>1. \A l \in Leg : BoardOf(l) = b => personal[l] = NoSplit
      BY <1>4, <2>1 DEF BoardOf
    <3>2. RowsOn(personal, b) = {}
      BY <3>1 DEF RowsOn
    <3>3. QED BY <1>4, <2>1, <3>2 DEF BestOf
  <2>2. CASE b[1] # s
    <3>1. \A l \in Leg : BoardOf(l) = b => personal[l] = segments.personal[l]
      BY <1>4, <2>2 DEF BoardOf
    <3>2. RowsOn(personal, b) = RowsOn(segments.personal, b)
      BY <3>1, RowsOnSame
    <3>3. QED BY <1>4, <2>2, <3>2 DEF SegmentsInv, IsBestOfBoards
  <2>3. QED BY <2>1, <2>2
<1>10. IsBestOfBoards(segments')
  BY <1>5, <1>9 DEF IsBestOfBoards
<1>11. db'.archive \subseteq db.archive
  BY <1>2, <1>3, PurgeTables
<1>12. NeverCounts(segments', db'.archive)
  BY <1>4, <1>5, <1>8, <1>11 DEF SegmentsInv, NeverCounts
<1>13. Stored(db') \subseteq Stored(db)
  BY <1>2, <1>3, PurgeStored
<1>14. Uses(segments', history', db') \subseteq Uses(segments, history, db)
  BY <1>1, <1>4, <1>5, <1>8, <1>13, UsesShrink
<1>15. AllTraceable(splits, segments'.personal) /\ RemovedTraceable(splits, segments')
  BY <1>4, <1>5, <1>8 DEF SegmentsInv, AllTraceable, RemovedTraceable
<1>16. RemovedOnce(segments')
  BY <1>4, <1>5 DEF SegmentsInv, RemovedOnce
<1>17. segments'.removed \subseteq RemovedSplit
  BY <1>2, <1>4, <1>5 DEF SegmentTables
<1>18. \A l \in Leg : Improves(l)
  BY <1>5, <1>8 DEF Improves
<1>19. QED BY <1>18, <1>1, <1>3, <1>5, <1>6, <1>7, <1>10, <1>12, <1>14, <1>15, <1>16, <1>17, QuietStep

\* Archiving rows of legs clears the legs and keeps the rows.
LEMMA ArchiveSegmentsTables ==
  ASSUME NEW t \in SegmentTables, NEW legs \in SUBSET Leg, NEW by \in User,
         \A l \in legs : t.personal[l] # NoSplit
  PROVE  /\ ArchiveSegments(t, legs, by) \in SegmentTables
         /\ ArchiveSegments(t, legs, by).personal = Clear(t, legs).personal
         /\ ArchiveSegments(t, legs, by).global = t.global
         /\ t.removed \subseteq ArchiveSegments(t, legs, by).removed
         /\ \A x \in ArchiveSegments(t, legs, by).removed :
               x \in t.removed \/ (x.leg \in legs /\ x.split = t.personal[x.leg] /\ x.by = by)
         /\ \A l \in legs : \E x \in ArchiveSegments(t, legs, by).removed :
                               x.leg = l /\ x.split = t.personal[l]
<1> DEFINE new == {[leg |-> l, split |-> t.personal[l], by |-> by] : l \in legs}
           cleared == Clear(t, legs)
<1>1. /\ \A x \in new : x.leg \in legs /\ x.split = t.personal[x.leg] /\ x.by = by
      /\ \A l \in legs : \E x \in new : x.leg = l /\ x.split = t.personal[l]
  <2>1. \A x \in new : x.leg \in legs /\ x.split = t.personal[x.leg] /\ x.by = by
    OBVIOUS
  <2>2. ASSUME NEW l \in legs PROVE \E x \in new : x.leg = l /\ x.split = t.personal[l]
    <3> DEFINE x == [leg |-> l, split |-> t.personal[l], by |-> by]
    <3>1. x \in new /\ x.leg = l /\ x.split = t.personal[l]
      OBVIOUS
    <3> HIDE DEF x, new
    <3>2. QED BY <3>1
  <2>3. QED BY <2>1, <2>2
<1>2. new \subseteq RemovedSplit
  BY DEF SegmentTables, RemovedSplit
<1> HIDE DEF new, cleared
<1>3. cleared \in SegmentTables /\ cleared.removed = t.removed /\ cleared.global = t.global
  BY ClearTables DEF cleared
<1>4. ArchiveSegments(t, legs, by) = [cleared EXCEPT !.removed = @ \cup new]
  BY DEF ArchiveSegments, cleared, new
<1>5. ArchiveSegments(t, legs, by) =
        [personal |-> cleared.personal, global |-> cleared.global, removed |-> cleared.removed \cup new]
  BY <1>3, <1>4 DEF SegmentTables
<1>6. ArchiveSegments(t, legs, by) \in SegmentTables
  BY <1>2, <1>3, <1>5 DEF SegmentTables
<1>7. /\ ArchiveSegments(t, legs, by).personal = cleared.personal
      /\ ArchiveSegments(t, legs, by).global = t.global
      /\ ArchiveSegments(t, legs, by).removed = t.removed \cup new
  BY <1>3, <1>5
<1>8. QED BY <1>1, <1>6, <1>7 DEF cleared

\* What it adds to the archive is new there, and traceable.
LEMMA ArchiveSegmentsOnce ==
  ASSUME NEW t \in SegmentTables, NEW legs \in SUBSET Leg, NEW by \in User,
         \A l \in legs : t.personal[l] # NoSplit,
         NEW sp, NEW archive, NeverCounts(t, archive), RemovedOnce(t),
         AllTraceable(sp, t.personal), RemovedTraceable(sp, t)
  PROVE  /\ RemovedOnce(ArchiveSegments(t, legs, by))
         /\ RemovedTraceable(sp, ArchiveSegments(t, legs, by))
<1> DEFINE after == ArchiveSegments(t, legs, by)
<1>1. /\ after \in SegmentTables
      /\ \A x \in after.removed :
            x \in t.removed \/ (x.leg \in legs /\ x.split = t.personal[x.leg] /\ x.by = by)
  <2>1. after \in SegmentTables
    BY ArchiveSegmentsTables
  <2>2. \A x \in after.removed :
           x \in t.removed \/ (x.leg \in legs /\ x.split = t.personal[x.leg] /\ x.by = by)
    BY ArchiveSegmentsTables
  <2>3. QED BY <2>1, <2>2
<1> HIDE DEF after
<1>2. \A x \in after.removed : x = [leg |-> x.leg, split |-> x.split, by |-> x.by]
  BY <1>1 DEF SegmentTables, RemovedSplit
<1>3. ASSUME NEW x \in t.removed, NEW y \in after.removed, y \notin t.removed, x.leg = y.leg
      PROVE  x.split.date # y.split.date
  <2>1. y.leg \in legs /\ y.split = t.personal[y.leg]
    BY <1>1, <1>3
  <2>2. t.personal[y.leg] # NoSplit /\ y.leg \in Leg
    BY <2>1
  <2>3. x.split.date # t.personal[y.leg].date
    BY <1>3, <2>2 DEF NeverCounts
  <2>4. QED BY <2>1, <2>3
<1>4. ASSUME NEW x \in after.removed, NEW y \in after.removed, x \notin t.removed, y \notin t.removed,
             x.leg = y.leg
      PROVE  x = y
  BY <1>1, <1>2, <1>4
<1>5. RemovedOnce(after)
  BY <1>3, <1>4 DEF RemovedOnce
<1>6. RemovedTraceable(sp, after)
  <2> SUFFICES ASSUME NEW x \in after.removed PROVE Traceable(sp, x.leg, x.split)
    BY DEF RemovedTraceable
  <2>1. CASE x \in t.removed
    BY <2>1 DEF RemovedTraceable
  <2>2. CASE x \notin t.removed
    <3>1. x.leg \in legs /\ x.split = t.personal[x.leg]
      BY <1>1, <2>2
    <3>2. x.leg \in Leg /\ t.personal[x.leg] # NoSplit
      BY <3>1
    <3>3. QED BY <3>1, <3>2 DEF AllTraceable
  <2>3. QED BY <2>1, <2>2
<1>7. QED BY <1>5, <1>6 DEF after

\* Removing a split archives the rows that hold it.
LEMMA RemoveSegmentInv ==
  ASSUME SegmentsInv, IInv', NEW target \in season \cup {AnySeason}, NEW u \in User, NEW by \in User,
         NEW r \in Run, NEW i \in Segment, RemoveSegment(target, u, r, i, by)
  PROVE  SegmentsInv' /\ \A l \in Leg : Improves(l)
<1> DEFINE base == <<TargetRow(target, u, r), i>>
           legs == IF target # AnySeason THEN {base}
                   ELSE {<<k, i>> : k \in {x \in RowsOf(u, r) :
                            /\ segments.personal[<<x, i>>] # NoSplit
                            /\ segments.personal[<<x, i>>].date = segments.personal[base].date}}
           filed == ArchiveSegments(segments, legs, by)
<1>1. /\ segments.personal[base] # NoSplit
      /\ segments' = RecomputeSegments(filed, legs)
      /\ UNCHANGED <<repositoryVars, history, splits>>
  BY DEF RemoveSegment
<1>2. segments \in SegmentTables /\ season \in SUBSET Season
  BY InvTypes
<1>3. base \in Leg
  BY <1>2, RowType, BoundAssumption DEF TargetRow, AnySeason, Season, Default, Leg
<1>4. legs \in SUBSET Leg /\ \A l \in legs : segments.personal[l] # NoSplit
  <2>1. CASE target # AnySeason
    <3>1. legs = {base}
      BY <2>1
    <3> HIDE DEF legs, base
    <3>2. QED BY <1>1, <1>3, <3>1
  <2>2. CASE target = AnySeason
    <3> DEFINE keys == {x \in RowsOf(u, r) :
                          /\ segments.personal[<<x, i>>] # NoSplit
                          /\ segments.personal[<<x, i>>].date = segments.personal[base].date}
    <3>1. legs = {<<k, i>> : k \in keys}
      BY <2>2
    <3>2. \A k \in keys : <<k, i>> \in Leg /\ segments.personal[<<k, i>>] # NoSplit
      BY DEF RowsOf, Leg
    <3> HIDE DEF legs, keys
    <3>3. QED BY <3>1, <3>2
  <2>3. QED BY <2>1, <2>2
<1> HIDE DEF base, legs
<1>5. /\ NeverCounts(segments, db.archive) /\ RemovedOnce(segments)
      /\ AllTraceable(splits, segments.personal) /\ RemovedTraceable(splits, segments)
  BY DEF SegmentsInv
<1>6. /\ filed \in SegmentTables
      /\ filed.personal = Clear(segments, legs).personal
      /\ filed.global = segments.global
      /\ \A x \in filed.removed :
            x \in segments.removed
            \/ (x.leg \in legs /\ x.split = segments.personal[x.leg] /\ x.by = by)
      /\ RemovedOnce(filed) /\ RemovedTraceable(splits, filed)
  <2>1. legs \in SUBSET Leg
    BY <1>4
  <2>2. \A l \in legs : segments.personal[l] # NoSplit
    BY <1>4
  <2>3. RemovedOnce(filed) /\ RemovedTraceable(splits, filed)
    BY <1>2, <1>5, <2>1, <2>2, ArchiveSegmentsOnce
  <2>4. QED BY <1>2, <2>1, <2>2, <2>3, ArchiveSegmentsTables
<1>7. \A l \in Leg : filed.personal[l] = IF l \in legs THEN NoSplit ELSE segments.personal[l]
  BY <1>2, <1>6, ClearTables
<1>8. \A b \in Board : (\A l \in legs : BoardOf(l) # b) =>
         filed.global[b] = BestOf(RowsOn(filed.personal, b))
  <2> SUFFICES ASSUME NEW b \in Board, \A l \in legs : BoardOf(l) # b
               PROVE  filed.global[b] = BestOf(RowsOn(filed.personal, b))
    OBVIOUS
  <2>1. RowsOn(filed.personal, b) = RowsOn(segments.personal, b)
    BY <1>2, <1>6, ClearBoard
  <2>2. QED BY <1>6, <2>1 DEF SegmentsInv, IsBestOfBoards
<1> HIDE DEF filed
<1>9. /\ AreTables(segments') /\ segments'.personal = filed.personal
      /\ segments'.removed = filed.removed /\ IsBestOfBoards(segments')
      /\ segments'.personal \in Personal
  BY <1>1, <1>6, <1>8, TablesAre, RecomputeTables, RecomputeBoards
<1>10. \A l \in Leg : segments'.personal[l] # NoSplit =>
         l \notin legs /\ segments'.personal[l] = segments.personal[l]
  BY <1>7, <1>9
<1>11. db' = db /\ history' = history /\ UNCHANGED <<splits, date>>
  BY <1>1 DEF repositoryVars
<1>12. NeverCounts(segments', db'.archive)
  <2> SUFFICES ASSUME NEW l \in Leg, segments'.personal[l] # NoSplit
               PROVE  /\ \A a \in db'.archive : a.key = l[1] =>
                            a.completion.date # segments'.personal[l].date
                      /\ \A x \in segments'.removed : x.leg = l =>
                            x.split.date # segments'.personal[l].date
    BY DEF NeverCounts
  <2>1. l \notin legs /\ segments'.personal[l] = segments.personal[l]
    BY <1>10
  <2>2. \A x \in segments'.removed : x.leg = l => x \in segments.removed
    BY <1>6, <1>9, <2>1
  <2>3. QED BY <1>5, <1>11, <2>1, <2>2 DEF NeverCounts
<1>13. Uses(segments', history', db') \subseteq Uses(segments, history, db)
  <2> DEFINE uses == Uses(segments, history, db)
  <2>1. /\ \A l \in Leg : segments.personal[l] # NoSplit => <<l[1], segments.personal[l].date>> \in uses
        /\ \A x \in segments.removed : <<x.leg[1], x.split.date>> \in uses
        /\ \A x \in history : <<x.key, x.completion.date>> \in uses
        /\ \A x \in Stored(db) : <<x.key, x.completion.date>> \in uses
    BY UsesContain
  <2> HIDE DEF uses
  <2>2. \A l \in Leg : segments'.personal[l] # NoSplit => <<l[1], segments'.personal[l].date>> \in uses
    BY <1>10, <2>1
  <2>3. ASSUME NEW x \in segments'.removed PROVE <<x.leg[1], x.split.date>> \in uses
    <3>1. x \in segments.removed \/ (x.leg \in legs /\ x.split = segments.personal[x.leg])
      BY <1>6, <1>9
    <3>2. CASE x.leg \in legs /\ x.split = segments.personal[x.leg]
      BY <1>4, <2>1, <3>2
    <3>3. QED BY <2>1, <3>1, <3>2
  <2>4. Uses(segments', history', db') \subseteq uses
    BY <1>11, <2>1, <2>2, <2>3, UsesWithin
  <2>5. QED BY <2>4 DEF uses
<1>14. AllTraceable(splits, segments'.personal) /\ RemovedTraceable(splits, segments')
  BY <1>5, <1>6, <1>9, <1>10 DEF AllTraceable, RemovedTraceable
<1>15. RemovedOnce(segments') /\ segments'.removed \subseteq RemovedSplit
  BY <1>6, <1>9 DEF RemovedOnce, SegmentTables
<1>16. \A l \in Leg : Improves(l)
  BY <1>10 DEF Improves
<1>17. QED BY <1>16, <1>9, <1>11, <1>12, <1>13, <1>14, <1>15, QuietStep

\* Restoring splits fills the legs they came from, and archives what was there.
LEMMA RestoreSegmentInv ==
  ASSUME SegmentsInv, IInv', NEW x \in segments.removed, NEW caller \in User, NEW admin \in BOOLEAN,
         NEW force \in BOOLEAN, RestoreSegment(x, caller, admin, force)
  PROVE  SegmentsInv' /\ \A l \in Leg : Improves(l)
<1> DEFINE rows == {y \in RemovedCopies(x) : admin \/ y.by = caller}
           legs == {y.leg : y \in rows}
           busy == {l \in legs : segments.personal[l] # NoSplit}
           freed == ArchiveSegments(segments, busy, caller)
           personal == [l \in Leg |-> IF l \in legs THEN (CHOOSE y \in rows : y.leg = l).split
                                      ELSE freed.personal[l]]
           filled == [freed EXCEPT !.personal = personal, !.removed = @ \ rows]
<1>1. /\ ~\E y \in rows : IsBlocked(y)
      /\ segments' = RecomputeSegments(filled, legs)
      /\ UNCHANGED <<repositoryVars, history, splits>>
  BY DEF RestoreSegment
<1>2. segments \in SegmentTables
  BY InvTypes
<1>3. rows \subseteq segments.removed
  BY DEF RemovedCopies
<1>4. /\ legs \in SUBSET Leg
      /\ \A y \in rows : y.leg \in legs /\ y.split \in Split
      /\ \A l \in legs : \E y \in rows : y.leg = l
  BY <1>2, <1>3 DEF SegmentTables, RemovedSplit
<1>5. ASSUME NEW y \in rows, NEW a \in db.archive, a.key = y.leg[1]
      PROVE  a.completion.date # y.split.date
  BY <1>1, <1>5 DEF IsBlocked
<1> HIDE DEF rows
<1>6. \A l \in legs : \E y \in rows : y.leg = l /\ personal[l] = y.split
  <2> SUFFICES ASSUME NEW l \in legs PROVE \E y \in rows : y.leg = l /\ personal[l] = y.split
    OBVIOUS
  <2> DEFINE row == CHOOSE y \in rows : y.leg = l
  <2>1. row \in rows /\ row.leg = l
    BY <1>4
  <2>2. personal[l] = row.split
    BY <1>4
  <2> HIDE DEF row, personal
  <2>3. QED BY <2>1, <2>2
<1>7. busy \in SUBSET Leg /\ busy \subseteq legs
  BY <1>4
<1>8. \A l \in busy : segments.personal[l] # NoSplit
  OBVIOUS
<1>9. \A l \in Leg : l \notin busy => segments.personal[l] = NoSplit \/ l \notin legs
  OBVIOUS
<1> HIDE DEF legs, busy
<1>10. /\ NeverCounts(segments, db.archive) /\ RemovedOnce(segments)
       /\ AllTraceable(splits, segments.personal) /\ RemovedTraceable(splits, segments)
  BY DEF SegmentsInv
<1>11. /\ freed \in SegmentTables
       /\ freed.personal = Clear(segments, busy).personal
       /\ freed.global = segments.global
       /\ \A y \in freed.removed :
             y \in segments.removed
             \/ (y.leg \in busy /\ y.split = segments.personal[y.leg] /\ y.by = caller)
       /\ \A l \in busy : \E y \in freed.removed : y.leg = l /\ y.split = segments.personal[l]
  BY <1>2, <1>7, <1>8, ArchiveSegmentsTables
<1>12. RemovedOnce(freed) /\ RemovedTraceable(splits, freed)
  BY <1>2, <1>7, <1>8, <1>10, ArchiveSegmentsOnce
<1>13. \A l \in Leg : l \notin legs => freed.personal[l] = segments.personal[l]
  BY <1>2, <1>7, <1>11, ClearTables
<1> HIDE DEF freed
<1>14. personal = [l \in Leg |-> personal[l]]
  OBVIOUS
<1>15. \A l \in Leg : l \notin legs => personal[l] = segments.personal[l]
  BY <1>13
<1> HIDE DEF personal
<1>16. filled = [personal |-> personal, global |-> freed.global, removed |-> freed.removed \ rows]
  <2>1. freed = [personal |-> freed.personal, global |-> freed.global, removed |-> freed.removed]
    BY <1>11 DEF SegmentTables
  <2>2. filled = [freed EXCEPT !.personal = personal, !.removed = freed.removed \ rows]
    OBVIOUS
  <2> HIDE DEF filled
  <2>3. QED BY <2>1, <2>2
<1> HIDE DEF filled
<1>17. filled.personal = personal /\ filled.global = segments.global /\ filled.removed = freed.removed \ rows
  BY <1>11, <1>16
<1>18. AreTables(filled)
  <2>1. freed.global = [b \in Board |-> freed.global[b]]
    BY <1>11 DEF SegmentTables
  <2>2. QED BY <1>14, <1>16, <2>1 DEF AreTables
<1>19. personal \in Personal
  <2>1. \A l \in Leg : personal[l] \in Split \cup {NoSplit}
    BY <1>2, <1>4, <1>6, <1>15 DEF SegmentTables
  <2>2. QED BY <1>14, <2>1 DEF Personal
<1>20. ASSUME NEW b \in Board, \A l \in legs : BoardOf(l) # b
       PROVE  filled.global[b] = BestOf(RowsOn(filled.personal, b))
  <2>1. \A l \in Leg : BoardOf(l) = b => personal[l] = segments.personal[l]
    BY <1>15, <1>20
  <2>2. RowsOn(personal, b) = RowsOn(segments.personal, b)
    BY <2>1, RowsOnSame
  <2>3. QED BY <1>17, <2>2 DEF SegmentsInv, IsBestOfBoards
<1>21. /\ AreTables(segments') /\ segments'.personal = personal
       /\ segments'.removed = freed.removed \ rows /\ IsBestOfBoards(segments')
  BY <1>1, <1>17, <1>18, <1>20, RecomputeTables, RecomputeBoards
<1>22. db' = db /\ history' = history /\ UNCHANGED <<splits, date>>
  BY <1>1 DEF repositoryVars
<1>23. ASSUME NEW l \in Leg, personal[l] # NoSplit
       PROVE  /\ \A a \in db.archive : a.key = l[1] => a.completion.date # personal[l].date
              /\ \A y \in freed.removed : y \notin rows /\ y.leg = l => y.split.date # personal[l].date
  <2>1. CASE l \notin legs
    <3>1. personal[l] = segments.personal[l] /\ l \notin busy
      BY <1>7, <1>15, <2>1
    <3>2. \A y \in freed.removed : y.leg = l => y \in segments.removed
      BY <1>11, <3>1
    <3>3. QED BY <1>10, <1>23, <3>1, <3>2 DEF NeverCounts
  <2>2. CASE l \in legs
    <3>1. PICK y \in rows : y.leg = l /\ personal[l] = y.split
      BY <1>6, <2>2
    <3>2. \A a \in db.archive : a.key = l[1] => a.completion.date # personal[l].date
      BY <1>5, <3>1
    <3>3. ASSUME NEW z \in freed.removed, z \notin rows, z.leg = l
          PROVE  z.split.date # personal[l].date
      <4>1. y \in segments.removed
        BY <1>3
      <4>2. CASE z \in segments.removed
        BY <1>10, <3>1, <3>3, <4>1, <4>2 DEF RemovedOnce
      <4>3. CASE z \notin segments.removed
        <5>1. l \in busy /\ z.split = segments.personal[l]
          BY <1>11, <3>3, <4>3
        <5>2. segments.personal[l] # NoSplit
          BY <1>8, <5>1
        <5>3. y.split.date # segments.personal[l].date
          BY <1>10, <3>1, <4>1, <5>2 DEF NeverCounts
        <5>4. QED BY <3>1, <5>1, <5>3
      <4>4. QED BY <4>2, <4>3
    <3>4. QED BY <3>2, <3>3
  <2>3. QED BY <2>1, <2>2
<1>24. NeverCounts(segments', db'.archive)
  BY <1>21, <1>22, <1>23 DEF NeverCounts
<1>25. Uses(segments', history', db') \subseteq Uses(segments, history, db)
  <2> DEFINE uses == Uses(segments, history, db)
  <2>1. /\ \A l \in Leg : segments.personal[l] # NoSplit => <<l[1], segments.personal[l].date>> \in uses
        /\ \A y \in segments.removed : <<y.leg[1], y.split.date>> \in uses
        /\ \A h \in history : <<h.key, h.completion.date>> \in uses
        /\ \A h \in Stored(db) : <<h.key, h.completion.date>> \in uses
    BY UsesContain
  <2> HIDE DEF uses
  <2>2. ASSUME NEW l \in Leg, personal[l] # NoSplit PROVE <<l[1], personal[l].date>> \in uses
    <3>1. CASE l \in legs
      <4>1. PICK y \in rows : y.leg = l /\ personal[l] = y.split
        BY <1>6, <3>1
      <4>2. y \in segments.removed
        BY <1>3
      <4>3. QED BY <2>1, <4>1, <4>2
    <3>2. QED BY <1>15, <2>1, <2>2, <3>1
  <2>3. ASSUME NEW y \in freed.removed PROVE <<y.leg[1], y.split.date>> \in uses
    <3>1. CASE y.leg \in busy /\ y.split = segments.personal[y.leg]
      BY <1>7, <1>8, <2>1, <3>1
    <3>2. QED BY <1>11, <2>1, <3>1
  <2>4. Uses(segments', history', db') \subseteq uses
    BY <1>21, <1>22, <2>1, <2>2, <2>3, UsesWithin
  <2>5. QED BY <2>4 DEF uses
<1>26. AllTraceable(splits, personal)
  <2> SUFFICES ASSUME NEW l \in Leg, personal[l] # NoSplit PROVE Traceable(splits, l, personal[l])
    BY DEF AllTraceable
  <2>1. CASE l \in legs
    <3>1. PICK y \in rows : y.leg = l /\ personal[l] = y.split
      BY <1>6, <2>1
    <3>2. y \in segments.removed
      BY <1>3
    <3>3. QED BY <1>10, <3>1, <3>2 DEF RemovedTraceable
  <2>2. QED BY <1>10, <1>15, <2>1 DEF AllTraceable
<1>27. RemovedTraceable(splits, segments') /\ RemovedOnce(segments')
  BY <1>12, <1>21 DEF RemovedTraceable, RemovedOnce
<1>28. segments'.removed \subseteq RemovedSplit
  BY <1>11, <1>21 DEF SegmentTables
<1>29. segments'.personal \in Personal /\ AllTraceable(splits, segments'.personal)
  BY <1>19, <1>21, <1>26
<1>30. \A l \in Leg : Improves(l)
  <2> SUFFICES ASSUME NEW l \in Leg, segments.personal[l] # NoSplit PROVE Improves(l)
    BY DEF Improves
  <2>1. CASE l \in legs
    <3>1. l \in busy
      BY <1>9, <2>1
    <3>2. PICK z \in freed.removed : z.leg = l /\ z.split = segments.personal[l]
      BY <1>11, <3>1
    <3>3. z \notin segments.removed
      BY <1>10, <3>2 DEF NeverCounts
    <3>4. z \in segments'.removed
      BY <1>3, <1>21, <3>3
    <3>5. QED BY <3>2, <3>4 DEF Improves
  <2>2. CASE l \notin legs
    BY <1>15, <1>21, <2>2 DEF Improves
  <2>3. QED BY <2>1, <2>2
<1>31. QED BY <1>30, <1>21, <1>22, <1>24, <1>25, <1>27, <1>28, <1>29, QuietStep

\* Stored dates are those of completions.
LEMMA StoredDates ==
  ASSUME SegmentsInv
  PROVE  /\ \A l \in Leg : segments.personal[l] # NoSplit => segments.personal[l].date \in 1..Len(splits)
         /\ \A x \in segments.removed : x.split.date \in 1..Len(splits)
         /\ \A x \in history : x.completion.date \in 1..Len(splits) /\ x.completion.date \in 1..MaxDate
         /\ \A x \in db.archive : x.completion.date \in 1..Len(splits) /\ x.completion.date \in 1..MaxDate
<1>1. segments \in SegmentTables /\ db \in Database /\ Len(splits) = date /\ date \in 0..MaxDate
      /\ \A h \in history : h.completion \in Completion
  BY InvTypes
<1>2. \A x \in Uses(segments, history, db) : x[2] <= date
  BY DEF SegmentsInv
<1>3. ASSUME NEW l \in Leg, segments.personal[l] # NoSplit
      PROVE  segments.personal[l].date \in 1..Len(splits)
  <2>1. segments.personal[l].date \in 1..MaxDate
    BY <1>1, <1>3 DEF SegmentTables, Split
  <2>2. <<l[1], segments.personal[l].date>> \in Uses(segments, history, db)
    BY <1>3, UsesContain
  <2>3. QED BY <1>1, <1>2, <2>1, <2>2, BoundAssumption
<1>4. ASSUME NEW x \in segments.removed PROVE x.split.date \in 1..Len(splits)
  <2>1. x.split.date \in 1..MaxDate
    BY <1>1 DEF SegmentTables, RemovedSplit, Split
  <2>2. <<x.leg[1], x.split.date>> \in Uses(segments, history, db)
    BY UsesContain
  <2>3. QED BY <1>1, <1>2, <2>1, <2>2, BoundAssumption
<1>5. ASSUME NEW x \in history
      PROVE  x.completion.date \in 1..Len(splits) /\ x.completion.date \in 1..MaxDate
  <2>1. x.completion.date \in 1..MaxDate
    BY <1>1 DEF Completion
  <2>2. <<x.key, x.completion.date>> \in Uses(segments, history, db)
    BY UsesContain
  <2>3. QED BY <1>1, <1>2, <2>1, <2>2, BoundAssumption
<1>6. ASSUME NEW x \in db.archive
      PROVE  x.completion.date \in 1..Len(splits) /\ x.completion.date \in 1..MaxDate
  <2>1. x.completion.date \in 1..MaxDate
    BY <1>1 DEF Database, Removed, Completion
  <2> DEFINE copy == [key |-> x.key, completion |-> x.completion]
  <2>2. copy \in Stored(db)
    BY <1>1, ArchivedStored
  <2>3. <<copy.key, copy.completion.date>> \in Uses(segments, history, db)
    BY <2>2, UsesContain
  <2>4. copy.completion.date <= date
    BY <1>2, <2>3
  <2>5. QED BY <1>1, <2>1, <2>4, BoundAssumption
<1>7. QED BY <1>3, <1>4, <1>5, <1>6

\* Uses have dates.
LEMMA UseDates ==
  ASSUME SegmentsInv, NEW x \in Uses(segments, history, db)
  PROVE  x[2] \in Nat
<1>1. segments \in SegmentTables /\ db \in Database /\ \A h \in history : h.completion \in Completion
  BY InvTypes
<1>2. ASSUME NEW l \in Leg, segments.personal[l] # NoSplit PROVE segments.personal[l].date \in Nat
  BY <1>1, <1>2 DEF SegmentTables, Split
<1>3. ASSUME NEW y \in segments.removed PROVE y.split.date \in Nat
  BY <1>1, <1>3 DEF SegmentTables, RemovedSplit, Split
<1>4. ASSUME NEW h \in history \cup Stored(db) PROVE h.completion.date \in Nat
  BY <1>1, <1>4, StoredCases DEF Completion
<1>5. QED BY <1>2, <1>3, <1>4 DEF Uses

\* Restoring a record voids the splits of the records in its way, then lets the
\* restored copies compete.
LEMMA RestoreRunInv ==
  ASSUME SegmentsInv, IInv', NEW a \in db.archive, NEW caller \in User, NEW admin \in BOOLEAN,
         NEW force \in BOOLEAN, RestoreRun(a, caller, admin, force)
  PROVE  SegmentsInv' /\ \A l \in Leg : Improves(l)
<1> DEFINE rows == Restorable(db, a, caller, admin)
           freed == {[key |-> k, completion |-> db.live[k]] : k \in Conflicts(db, rows)}
           legs == HeldBy(segments, freed)
           voided == Clear(segments, legs)
           skip == TRUE
           applied == ApplyBestSegments(splits, voided, rows, skip)
           d == a.completion.date
           u == a.key.user
           r == a.key.run
           uses == Uses(segments, history, db)
<1>1. /\ Restore(a, caller, admin, force)
      /\ segments' = RecomputeSegments(applied, legs)
      /\ UNCHANGED <<history, splits>>
  BY DEF RestoreRun, VoidBestSegments
<1>2. segments \in SegmentTables /\ db \in Database /\ splits \in Seq(Splits)
  BY InvTypes
<1>3. db' = RestoreRecord(db, a, caller, admin) /\ date' = date
  BY <1>1 DEF Restore
<1>4. /\ rows \subseteq db.archive
      /\ \A x \in db'.archive :
            /\ x \notin rows
            /\ \/ x \in db.archive
               \/ HasRecord(db, x.key) /\ x.completion = db.live[x.key] /\ \E b \in rows : b.key = x.key
  BY <1>2, <1>3, RestoreTables
<1>5. \A b \in rows : b.completion.date = d /\ b.key.user = u /\ b.key.run = r
  BY DEF Restorable, ArchivedCopies
<1>6. AreOfRun(rows, d, u, r)
  BY <1>5 DEF AreOfRun
<1>7. \A l \in Leg : segments.personal[l] # NoSplit /\ l \notin legs =>
         \A k \in Conflicts(db, rows) : k = l[1] => db.live[k].date # segments.personal[l].date
  <2> SUFFICES ASSUME NEW l \in Leg, segments.personal[l] # NoSplit, NEW k \in Conflicts(db, rows),
                      k = l[1], db.live[k].date = segments.personal[l].date
               PROVE  l \in legs
    OBVIOUS
  <2> DEFINE x == [key |-> k, completion |-> db.live[k]]
  <2>1. x \in freed /\ x.key = l[1] /\ x.completion.date = segments.personal[l].date
    OBVIOUS
  <2> HIDE DEF freed, x
  <2>2. QED BY <2>1 DEF HeldBy
<1>skip. skip
  OBVIOUS
<1>held. \A l \in legs : \E k \in Conflicts(db, rows) : k = l[1] /\ db.live[k].date = segments.personal[l].date
  BY DEF HeldBy
<1>displaced. \A k \in Key : HasRecord(db, k) /\ (\E b \in rows : b.key = k) =>
                 \/ \E b \in rows : b.key = k /\ b.completion = db.live[k]
                 \/ \E b \in db'.archive : b.key = k /\ b.completion = db.live[k]
  <2>1. \A k \in Key : HasRecord(db, k) /\ (\E b \in rows : b.key = k) =>
           \/ [key |-> k, completion |-> db.live[k], by |-> caller] \in rows
           \/ [key |-> k, completion |-> db.live[k], by |-> caller] \in db'.archive
    BY <1>2, <1>3, RestoreTables
  <2>2. \A k : /\ [key |-> k, completion |-> db.live[k], by |-> caller].key = k
               /\ [key |-> k, completion |-> db.live[k], by |-> caller].completion = db.live[k]
    OBVIOUS
  <2> HIDE DEF rows
  <2>3. QED BY <2>1, <2>2
<1> HIDE DEF rows, freed, legs, skip
<1>8. /\ NeverCounts(segments, db.archive) /\ RemovedOnce(segments)
      /\ AllTraceable(splits, segments.personal) /\ RemovedTraceable(splits, segments)
      /\ OneRunPerDate(uses) /\ LiveOrArchivedOnce /\ IInv
  BY DEF SegmentsInv, IInv
<1>9. /\ voided \in SegmentTables
      /\ voided.removed = segments.removed
      /\ voided.global = segments.global
      /\ \A l \in Leg : voided.personal[l] = IF l \in legs THEN NoSplit ELSE segments.personal[l]
  BY <1>2, ClearTables
<1>10. \A b \in Board : (\A l \in legs : BoardOf(l) # b) =>
         voided.global[b] = BestOf(RowsOn(voided.personal, b))
  <2> SUFFICES ASSUME NEW b \in Board, \A l \in legs : BoardOf(l) # b
               PROVE  voided.global[b] = BestOf(RowsOn(voided.personal, b))
    OBVIOUS
  <2>1. RowsOn(voided.personal, b) = RowsOn(segments.personal, b)
    BY <1>2, ClearBoard
  <2>2. QED BY <1>9, <2>1 DEF SegmentsInv, IsBestOfBoards
<1> HIDE DEF voided
<1>11. AreCopies(splits, rows)
  <2> SUFFICES ASSUME NEW o \in rows
               PROVE  o.key \in Key /\ o.completion.date \in 1..MaxDate
                      /\ o.completion.date \in 1..Len(splits)
    BY DEF AreCopies
  <2>1. o \in db.archive
    BY <1>4
  <2>2. o.key \in Key
    BY <1>2, <2>1 DEF Database, Removed
  <2>3. QED BY <2>1, <2>2, StoredDates
<1>12. \A l \in Leg : voided.personal[l] # NoSplit =>
          l \notin legs /\ voided.personal[l] = segments.personal[l]
  BY <1>9
<1>13. Applied(applied, splits, voided, rows, skip)
  BY <1>2, <1>8, <1>9, <1>11, <1>12 DEF Applied, AllTraceable
<1>14. AreTables(applied) /\ applied.removed = segments.removed
  BY <1>9, ApplyTables
<1> HIDE DEF applied
<1>15. /\ applied.personal \in Personal
       /\ AllTraceable(splits, applied.personal)
       /\ \A l \in Leg : applied.personal[l] # NoSplit /\ applied.personal[l] # voided.personal[l] =>
            /\ \E o \in rows : o.key = l[1] /\ o.completion.date = applied.personal[l].date
            /\ \A y \in voided.removed : y.leg = l => y.split.date # applied.personal[l].date
  <2>1. /\ applied.personal \in Personal
        /\ AllTraceable(splits, applied.personal)
        /\ \A l \in Leg : applied.personal[l] # NoSplit /\ applied.personal[l] # voided.personal[l] =>
             /\ \E o \in rows : o.key = l[1] /\ o.completion.date = applied.personal[l].date
             /\ skip => \A y \in voided.removed : y.leg = l => y.split.date # applied.personal[l].date
    BY <1>13, ApplyPersonal
  <2>2. QED BY <1>skip, <2>1
<1>16. /\ \A l \in Leg : segments.personal[l] # NoSplit => <<l[1], segments.personal[l].date>> \in uses
       /\ \A y \in segments.removed : <<y.leg[1], y.split.date>> \in uses
       /\ \A h \in history : <<h.key, h.completion.date>> \in uses
       /\ \A h \in Stored(db) : <<h.key, h.completion.date>> \in uses
  BY UsesContain
<1> HIDE DEF uses
<1>17. \A b \in db.archive : <<b.key, b.completion.date>> \in uses
  <2> SUFFICES ASSUME NEW b \in db.archive PROVE <<b.key, b.completion.date>> \in uses
    OBVIOUS
  <2> DEFINE copy == [key |-> b.key, completion |-> b.completion]
  <2>1. copy \in Stored(db) /\ copy.key = b.key /\ copy.completion = b.completion
    BY <1>2, ArchivedStored
  <2> HIDE DEF copy
  <2>2. QED BY <1>16, <2>1
<1>18. OneUserPerDate(voided.personal) /\ BelongsTo(voided.personal, d, u)
  <2>1. OneUserPerDate(segments.personal)
    BY <1>8, UsersApart DEF uses
  <2>2. OneUserPerDate(voided.personal)
    BY <1>12, <2>1 DEF OneUserPerDate
  <2>3. ASSUME NEW l \in Leg, segments.personal[l] # NoSplit, segments.personal[l].date = d
        PROVE  l[1].user = u
    <3> DEFINE x == <<l[1], segments.personal[l].date>>
               y == <<a.key, a.completion.date>>
    <3>1. x \in uses /\ y \in uses /\ x[2] = y[2]
      BY <1>16, <1>17, <2>3
    <3>2. x[1].user = y[1].user
      BY <1>8, <3>1 DEF OneRunPerDate
    <3>3. QED BY <3>2
  <2>4. BelongsTo(voided.personal, d, u)
    BY <1>12, <2>3 DEF BelongsTo
  <2>5. QED BY <2>2, <2>4
<1> HIDE DEF d, u, r
<1>19. \A b \in Board : (\A l \in legs : BoardOf(l) # b) =>
          applied.global[b] = BestOf(RowsOn(applied.personal, b))
  BY <1>6, <1>10, <1>13, <1>18, ApplyBoard
<1>20. /\ AreTables(segments') /\ segments'.personal = applied.personal
       /\ segments'.removed = segments.removed /\ IsBestOfBoards(segments')
  BY <1>1, <1>14, <1>19, RecomputeTables, RecomputeBoards
<1>21. ASSUME NEW l \in Leg, applied.personal[l] # NoSplit
       PROVE  /\ \A x \in db'.archive : x.key = l[1] => x.completion.date # applied.personal[l].date
              /\ \A x \in segments.removed : x.leg = l => x.split.date # applied.personal[l].date
              /\ <<l[1], applied.personal[l].date>> \in uses
  <2>1. CASE applied.personal[l] = voided.personal[l]
    <3>1. l \notin legs /\ applied.personal[l] = segments.personal[l]
      BY <1>12, <1>21, <2>1
    <3>2. ASSUME NEW x \in db'.archive, x.key = l[1]
          PROVE  x.completion.date # applied.personal[l].date
      <4>1. CASE x \in db.archive
        BY <1>8, <1>21, <3>1, <3>2, <4>1 DEF NeverCounts
      <4>2. CASE HasRecord(db, x.key) /\ x.completion = db.live[x.key] /\ \E b \in rows : b.key = x.key
        <5>1. x.key \in Conflicts(db, rows)
          BY <3>2, <4>2, LegParts DEF Conflicts
        <5>2. QED BY <1>7, <1>21, <3>1, <3>2, <4>2, <5>1
      <4>3. QED BY <1>4, <4>1, <4>2
    <3>3. QED BY <1>8, <1>16, <1>21, <3>1, <3>2 DEF NeverCounts
  <2>2. CASE applied.personal[l] # voided.personal[l]
    <3>1. PICK o \in rows : o.key = l[1] /\ o.completion.date = applied.personal[l].date
      BY <1>15, <1>21, <2>2
    <3>2. o \in db.archive
      BY <1>4
    <3>3. ASSUME NEW x \in db'.archive, x.key = l[1]
          PROVE  x.completion.date # applied.personal[l].date
      <4>1. CASE x \in db.archive
        BY <1>4, <1>8, <3>1, <3>2, <3>3, <4>1 DEF LiveOrArchivedOnce
      <4>2. CASE HasRecord(db, x.key) /\ x.completion = db.live[x.key]
        <5>1. HasRecord(db, o.key) /\ x.completion = db.live[o.key]
          BY <3>1, <3>3, <4>2
        <5>2. o.completion.date # db.live[o.key].date
          BY <1>8, <3>2, <5>1, LiveDatesUnarchived
        <5>3. QED BY <3>1, <5>1, <5>2
      <4>3. QED BY <1>4, <4>1, <4>2
    <3>4. \A x \in segments.removed : x.leg = l => x.split.date # applied.personal[l].date
      BY <1>9, <1>15, <1>21, <2>2
    <3>5. <<l[1], applied.personal[l].date>> \in uses
      BY <1>17, <3>1, <3>2
    <3>6. QED BY <3>3, <3>4, <3>5
  <2>3. QED BY <2>1, <2>2
<1>22. NeverCounts(segments', db'.archive)
  BY <1>20, <1>21 DEF NeverCounts
<1>23. Stored(db') \subseteq Stored(db)
  BY <1>2, <1>3, RestoreStored
<1>24. Uses(segments', history', db') \subseteq uses
  BY <1>1, <1>16, <1>20, <1>21, <1>23, UsesWithin
<1>25. /\ segments'.personal \in Personal /\ AllTraceable(splits, segments'.personal)
       /\ RemovedTraceable(splits, segments') /\ RemovedOnce(segments')
       /\ segments'.removed \subseteq RemovedSplit
  BY <1>2, <1>8, <1>15, <1>20 DEF RemovedTraceable, RemovedOnce, SegmentTables
<1>26. history' \subseteq history /\ UNCHANGED <<splits, date>>
  BY <1>1, <1>3
<1>27. \A l \in Leg : Improves(l)
  <2> SUFFICES ASSUME NEW l \in Leg, segments.personal[l] # NoSplit, applied.personal[l] # NoSplit
               PROVE  Improves(l)
    BY <1>20 DEF Improves
  <2>1. CASE l \in legs
    <3>1. PICK k \in Conflicts(db, rows) : k = l[1] /\ db.live[k].date = segments.personal[l].date
      BY <1>held, <2>1
    <3>2. HasRecord(db, k) /\ k \in Key /\ \E b \in rows : b.key = k
      BY <3>1 DEF Conflicts
    <3>3. CASE \E b \in db'.archive : b.key = k /\ b.completion = db.live[k]
      BY <3>1, <3>3 DEF Improves
    <3>4. CASE \E b \in rows : b.key = k /\ b.completion = db.live[k]
      BY <1>4, <1>8, <3>2, <3>4, LiveDatesUnarchived
    <3>5. QED BY <1>displaced, <3>2, <3>3, <3>4
  <2>2. CASE l \notin legs
    <3>1. voided.personal[l] = segments.personal[l]
      BY <1>9, <2>2
    <3>2. applied.personal[l] = voided.personal[l] \/ Beats(applied.personal[l], voided.personal[l])
      BY <1>13, ApplyPersonal
    <3>3. QED BY <1>20, <3>1, <3>2 DEF Improves
  <2>3. QED BY <2>1, <2>2
<1>28. QED BY <1>27, <1>20, <1>22, <1>24, <1>25, <1>26, QuietStep DEF uses

\* A start on an empty table lets the history compete, without what is archived.
LEMMA RestartInv ==
  ASSUME SegmentsInv, IInv', Restart
  PROVE  SegmentsInv'
<1> DEFINE kept == {h \in history : ~\E a \in db.archive :
                      a.key = h.key /\ a.completion.date = h.completion.date}
           skip == TRUE
           fresh == ApplyBestSegments(splits, segments, kept, skip)
           uses == Uses(segments, history, db)
<1>1. /\ \A l \in Leg : segments.personal[l] = NoSplit
      /\ segments' = RecomputeSegments(fresh, Leg)
      /\ UNCHANGED <<repositoryVars, history, splits>>
  BY DEF Restart
<1>2. /\ segments \in SegmentTables /\ splits \in Seq(Splits)
      /\ \A h \in history : h.key \in Key
  BY InvTypes
<1>3. /\ kept \subseteq history
      /\ \A h \in kept : \A a \in db.archive : a.key = h.key => a.completion.date # h.completion.date
  OBVIOUS
<1>skip. skip
  OBVIOUS
<1> HIDE DEF kept, skip
<1>4. AreCopies(splits, kept)
  BY <1>2, <1>3, StoredDates DEF AreCopies
<1>5. Applied(fresh, splits, segments, kept, skip)
  BY <1>2, <1>4 DEF SegmentsInv, Applied
<1>6. AreTables(fresh) /\ fresh.removed = segments.removed
  BY <1>2, ApplyTables
<1>7. \A b \in Board : fresh.global[b] = BestOf(BoardRows(splits, segments, kept, skip, b))
  BY <1>2, ApplyToBoard
<1> HIDE DEF fresh
<1>8. /\ fresh.personal \in Personal
      /\ AllTraceable(splits, fresh.personal)
      /\ \A l \in Leg : fresh.personal[l] # NoSplit =>
           /\ \E o \in kept : o.key = l[1] /\ o.completion.date = fresh.personal[l].date
           /\ \A y \in segments.removed : y.leg = l => y.split.date # fresh.personal[l].date
  <2>1. /\ fresh.personal \in Personal
        /\ AllTraceable(splits, fresh.personal)
        /\ \A l \in Leg : fresh.personal[l] # NoSplit /\ fresh.personal[l] # segments.personal[l] =>
             /\ \E o \in kept : o.key = l[1] /\ o.completion.date = fresh.personal[l].date
             /\ skip => \A y \in segments.removed : y.leg = l => y.split.date # fresh.personal[l].date
    BY <1>5, ApplyPersonal
  <2>2. QED BY <1>1, <1>skip, <2>1
<1>9. \A b \in Board : (\A l \in Leg : BoardOf(l) # b) =>
         fresh.global[b] = BestOf(RowsOn(fresh.personal, b))
  <2> SUFFICES ASSUME NEW b \in Board, \A l \in Leg : BoardOf(l) # b
               PROVE  fresh.global[b] = BestOf(RowsOn(fresh.personal, b))
    OBVIOUS
  <2>1. RowsOn(fresh.personal, b) = {} /\ RowsOn(segments.personal, b) = {}
    BY DEF RowsOn
  <2>2. segments.global[b] = NoSplit
    BY <2>1 DEF SegmentsInv, IsBestOfBoards, BestOf
  <2>3. OfferBoard(splits, segments, kept, skip, b) = {}
    <3>1. \A p \in Offered(splits, segments, kept, skip) : <<p[1].key, p[2]>> \in Leg
      BY <1>4 DEF Offered, AreCopies, Leg
    <3>2. QED BY <3>1 DEF OfferBoard
  <2>4. BoardRows(splits, segments, kept, skip, b) = {}
    BY <2>2, <2>3 DEF BoardRows, Known
  <2>5. QED BY <1>7, <2>1, <2>4
<1>10. /\ AreTables(segments') /\ segments'.personal = fresh.personal
       /\ segments'.removed = segments.removed /\ IsBestOfBoards(segments')
  BY <1>1, <1>6, <1>9, RecomputeTables, RecomputeBoards
<1>11. db' = db /\ history' = history /\ UNCHANGED <<splits, date>>
  BY <1>1 DEF repositoryVars
<1>12. NeverCounts(segments', db'.archive)
  <2> SUFFICES ASSUME NEW l \in Leg, fresh.personal[l] # NoSplit
               PROVE  \A a \in db.archive : a.key = l[1] => a.completion.date # fresh.personal[l].date
    BY <1>8, <1>10, <1>11 DEF NeverCounts
  <2>1. PICK o \in kept : o.key = l[1] /\ o.completion.date = fresh.personal[l].date
    BY <1>8
  <2>2. QED BY <1>3, <2>1
<1>13. Uses(segments', history', db') \subseteq uses
  <2>1. /\ \A y \in segments.removed : <<y.leg[1], y.split.date>> \in uses
        /\ \A h \in history : <<h.key, h.completion.date>> \in uses
        /\ \A h \in Stored(db) : <<h.key, h.completion.date>> \in uses
    BY UsesContain
  <2> HIDE DEF uses
  <2>2. ASSUME NEW l \in Leg, fresh.personal[l] # NoSplit
        PROVE  <<l[1], fresh.personal[l].date>> \in uses
    <3>1. PICK o \in kept : o.key = l[1] /\ o.completion.date = fresh.personal[l].date
      BY <1>8, <2>2
    <3>2. QED BY <1>3, <2>1, <3>1
  <2>3. QED BY <1>10, <1>11, <2>1, <2>2, UsesWithin
<1>14. /\ segments'.personal \in Personal /\ AllTraceable(splits, segments'.personal)
       /\ RemovedTraceable(splits, segments') /\ RemovedOnce(segments')
       /\ segments'.removed \subseteq RemovedSplit
  BY <1>2, <1>8, <1>10 DEF SegmentsInv, RemovedTraceable, RemovedOnce, SegmentTables
<1>15. QED BY <1>10, <1>11, <1>12, <1>13, <1>14, QuietStep DEF uses

\* A completion upserts its splits for the seasons it counts for.
LEMMA CompleteRunApplied ==
  ASSUME SegmentsInv, NEW active \in SUBSET season, NEW u \in User, NEW r \in Run,
         NEW sp \in Splits, CompleteRun(active, u, r, sp)
  PROVE  \E copies, skip :
            /\ Applied(segments', splits', segments, copies, skip)
            /\ segments' = ApplyBestSegments(splits', segments, copies, skip)
            /\ AreOfRun(copies, date', u, r)
            /\ \A o \in copies : o.key \in {Row(s, u, r) : s \in active}
<1> DEFINE c == [time |-> RunTime(sp), date |-> date + 1]
           copies == {[key |-> Row(s, u, r), completion |-> c] : s \in active}
           skip == FALSE
<1>1. /\ Complete(active, u, r, c.time)
      /\ splits' = Append(splits, sp)
      /\ segments' = ApplyBestSegments(splits', segments, copies, skip)
  BY DEF CompleteRun
<1>2. /\ segments \in SegmentTables /\ season \in SUBSET Season
      /\ splits \in Seq(Splits) /\ Len(splits) = date /\ date \in 0..MaxDate
  BY InvTypes
<1>3. date < MaxDate /\ date' = date + 1
  BY <1>1 DEF Complete
<1>4. /\ splits' \in Seq(Splits) /\ Len(splits') = date + 1
      /\ \A d \in 1..Len(splits) : splits'[d] = splits[d]
  BY <1>1, <1>2
<1>5. \A o \in copies : /\ o.key \in {Row(s, u, r) : s \in active}
                        /\ o.key \in Key /\ o.key.user = u /\ o.key.run = r
                        /\ o.completion.date = date + 1
  BY <1>2, RowType
<1> HIDE DEF copies, skip
<1>6. AreCopies(splits', copies)
  <2>1. date + 1 \in 1..MaxDate /\ date + 1 \in 1..Len(splits')
    BY <1>2, <1>3, <1>4, BoundAssumption
  <2>2. QED BY <1>5, <2>1 DEF AreCopies
<1>7. AllTraceable(splits', segments.personal)
  BY <1>4, StoredDates DEF SegmentsInv, AllTraceable, Traceable
<1>8. Applied(segments', splits', segments, copies, skip)
  BY <1>1, <1>2, <1>4, <1>6, <1>7 DEF Applied
<1>9. AreOfRun(copies, date', u, r)
  BY <1>3, <1>5 DEF AreOfRun
<1>10. QED BY <1>1, <1>5, <1>8, <1>9

\* The runs of earlier dates stay apart from the new one, whose rows improve tables
\* that were in order.
LEMMA CompleteRunInv ==
  ASSUME SegmentsInv, IInv', NEW active \in SUBSET season, NEW u \in User, NEW r \in Run,
         NEW sp \in Splits, CompleteRun(active, u, r, sp)
  PROVE  SegmentsInv'
<1> DEFINE c == [time |-> RunTime(sp), date |-> date + 1]
           keys == {Row(s, u, r) : s \in active}
           new == {<<k, date'>> : k \in keys}
           uses == Uses(segments, history, db)
           uses2 == Uses(segments', history', db')
<1>1. /\ Complete(active, u, r, c.time) /\ c.time \in 1..MaxTime
      /\ splits' = Append(splits, sp)
      /\ \A h \in history' : h \in history \/ (h.key \in keys /\ h.completion = c)
  BY DEF CompleteRun, NewRecordSeasons
<1>2. /\ segments \in SegmentTables /\ db \in Database /\ season \in SUBSET Season
      /\ splits \in Seq(Splits) /\ Len(splits) = date /\ date \in 0..MaxDate
      /\ \A h \in history : h.key \in Key /\ h.completion \in Completion
  BY InvTypes
<1>3. /\ date < MaxDate /\ date' = date + 1 /\ db' = RecordCompletion(db, active, u, r, c)
      /\ c.date = date'
  BY <1>1 DEF Complete
<1>4. c \in Completion
  BY <1>1, <1>2, <1>3, BoundAssumption DEF Completion
<1>5. \A k \in keys : k \in Key /\ k.user = u /\ k.run = r
  BY <1>2, RowType
<1>6. /\ splits' \in Seq(Splits) /\ Len(splits') = date'
      /\ \A d \in 1..Len(splits) : splits'[d] = splits[d]
  BY <1>1, <1>2, <1>3
<1>7. PICK copies, skip :
         /\ Applied(segments', splits', segments, copies, skip)
         /\ segments' = ApplyBestSegments(splits', segments, copies, skip)
         /\ AreOfRun(copies, date', u, r)
         /\ \A o \in copies : o.key \in keys
  BY CompleteRunApplied
<1>8. /\ IsBestOfBoards(segments) /\ NeverCounts(segments, db.archive) /\ RemovedOnce(segments)
      /\ RemovedTraceable(splits, segments) /\ OneRunPerDate(uses) /\ \A x \in uses : x[2] <= date
  BY DEF SegmentsInv
<1>9. AreTables(segments') /\ segments'.removed = segments.removed
  BY <1>2, <1>7, ApplyTables
<1>10. /\ segments'.personal \in Personal
       /\ AllTraceable(splits', segments'.personal)
       /\ \A l \in Leg : segments'.personal[l] # NoSplit /\ segments'.personal[l] # segments.personal[l] =>
             \E o \in copies : o.key = l[1] /\ o.completion.date = segments'.personal[l].date
  BY <1>7, ApplyPersonal
<1>11. \A l \in Leg : segments'.personal[l] # NoSplit /\ segments'.personal[l] # segments.personal[l] =>
             l[1] \in keys /\ segments'.personal[l].date = date'
  BY <1>7, <1>10 DEF AreOfRun
<1> HIDE DEF c, keys
<1>12. /\ \A l \in Leg : segments.personal[l] # NoSplit => <<l[1], segments.personal[l].date>> \in uses
       /\ \A y \in segments.removed : <<y.leg[1], y.split.date>> \in uses
       /\ \A h \in history : <<h.key, h.completion.date>> \in uses
       /\ \A h \in Stored(db) : <<h.key, h.completion.date>> \in uses
  BY UsesContain
<1>13. uses2 \subseteq uses \cup new
  <2> DEFINE all == uses \cup new
  <2>1. \A k \in keys : <<k, date'>> \in all
    OBVIOUS
  <2>2. uses \subseteq all
    OBVIOUS
  <2> HIDE DEF uses, new, all
  <2>3. \A l \in Leg : segments'.personal[l] # NoSplit => <<l[1], segments'.personal[l].date>> \in all
    BY <1>11, <1>12, <2>1, <2>2
  <2>4. \A y \in segments'.removed : <<y.leg[1], y.split.date>> \in all
    BY <1>9, <1>12, <2>2
  <2>5. \A h \in history' : <<h.key, h.completion.date>> \in all
    BY <1>1, <1>3, <1>12, <2>1, <2>2
  <2>6. ASSUME NEW h \in Stored(db') PROVE <<h.key, h.completion.date>> \in all
    <3>1. h \in Stored(RecordCompletion(db, active, u, r, c))
      BY <1>3, <2>6
    <3>2. active \in SUBSET Season
      BY <1>2
    <3>3. \/ h \in Stored(db)
          \/ h.completion = c /\ h.key.user = u /\ h.key.run = r /\ h.key.season \in active
      BY <1>2, <1>4, <3>1, <3>2, CompleteStored
    <3>4. RecordCompletion(db, active, u, r, c) \in Database
      BY <1>2, <1>4, <3>2, RecordCompletionType
    <3>5. h.key \in Key
      BY <3>1, <3>4, StoredCases
    <3>6. ASSUME h.completion = c, h.key.user = u, h.key.run = r, h.key.season \in active
          PROVE  h.key \in keys
      <4>1. h.key = Row(h.key.season, u, r)
        BY <3>5, <3>6 DEF Key, Row
      <4>2. QED BY <3>6, <4>1 DEF keys
    <3>7. QED BY <1>3, <1>12, <2>1, <2>2, <3>3, <3>6
  <2>7. uses2 \subseteq all
    BY <2>3, <2>4, <2>5, <2>6, UsesWithin
  <2>8. QED BY <2>7 DEF all
<1>14. \A x \in new : x[1].user = u /\ x[1].run = r /\ x[2] = date'
  BY <1>5
<1> HIDE DEF new, uses, uses2
<1>15. OneRunPerDate(uses2)
  <2> SUFFICES ASSUME NEW x \in uses2, NEW y \in uses2, x[2] = y[2]
               PROVE  x[1].user = y[1].user /\ x[1].run = y[1].run
    BY DEF OneRunPerDate
  <2>1. CASE x \in uses /\ y \in uses
    BY <1>8, <2>1 DEF OneRunPerDate
  <2>2. CASE x \in new /\ y \in new
    BY <1>14, <2>2
  <2>3. ~(date' <= date)
    BY <1>2, <1>3
  <2>4. QED BY <1>8, <1>13, <1>14, <2>1, <2>2, <2>3
<1>16. \A x \in uses2 : x[2] <= date'
  <2> SUFFICES ASSUME NEW x \in uses2 PROVE x[2] <= date'
    OBVIOUS
  <2>1. x \in uses \/ x \in new
    BY <1>13
  <2>2. CASE x \in new
    BY <1>2, <1>3, <1>14, <2>2
  <2>3. CASE x \in uses
    <3>1. x[2] \in Int
      BY <2>3, UseDates DEF uses
    <3>2. x[2] <= date
      BY <1>8, <2>3
    <3>3. QED BY <1>2, <1>3, <3>1, <3>2
  <2>4. QED BY <2>1, <2>2, <2>3
<1>17. OneUserPerDate(segments.personal) /\ BelongsTo(segments.personal, date', u)
  <2>1. OneUserPerDate(segments.personal)
    BY <1>8, UsersApart DEF uses
  <2>2. \A l \in Leg : segments.personal[l] # NoSplit => segments.personal[l].date # date'
    BY <1>2, <1>3, StoredDates
  <2>3. QED BY <2>1, <2>2 DEF BelongsTo
<1>18. IsBestOfBoards(segments')
  BY <1>7, <1>8, <1>17, ApplyBoard DEF IsBestOfBoards
<1>19. segments' \in SegmentTables
  <2>1. OneUserPerDate(segments'.personal)
    BY <1>7, <1>17, ApplyUsers
  <2>2. segments'.removed \subseteq RemovedSplit
    BY <1>2, <1>9 DEF SegmentTables
  <2>3. QED BY <1>9, <1>10, <1>18, <2>1, <2>2, TablesType
<1>20. SegmentsTypeOK'
  <2>1. ASSUME NEW h \in history' PROVE h.key \in Key /\ h.completion \in Completion
    BY <1>1, <1>2, <1>4, <1>5, <2>1
  <2>2. QED BY <1>6, <1>19, <2>1 DEF SegmentsTypeOK
<1>21. NeverCounts(segments', db'.archive)
  <2>1. db'.archive = db.archive
    <3>1. RecordCompletion(db, active, u, r, c).archive = db.archive
      BY <1>2 DEF RecordCompletion, Database
    <3>2. QED BY <1>3, <3>1
  <2>2. /\ \A x \in db.archive : x.completion.date # date'
        /\ \A x \in segments.removed : x.split.date # date'
    BY <1>2, <1>3, StoredDates
  <2> SUFFICES ASSUME NEW l \in Leg, segments'.personal[l] # NoSplit
               PROVE  /\ \A x \in db.archive : x.key = l[1] =>
                            x.completion.date # segments'.personal[l].date
                      /\ \A x \in segments.removed : x.leg = l =>
                            x.split.date # segments'.personal[l].date
    BY <1>9, <2>1 DEF NeverCounts
  <2>3. CASE segments'.personal[l] = segments.personal[l]
    BY <1>8, <2>3 DEF NeverCounts
  <2>4. CASE segments'.personal[l] # segments.personal[l]
    BY <1>11, <2>2, <2>4
  <2>5. QED BY <2>3, <2>4
<1>22. RemovedTraceable(splits', segments') /\ RemovedOnce(segments')
  BY <1>6, <1>8, <1>9, StoredDates DEF RemovedTraceable, RemovedOnce, Traceable
<1>23. QED BY <1>10, <1>15, <1>16, <1>18, <1>20, <1>21, <1>22 DEF SegmentsInv, uses2

\* Every step keeps the invariant.
LEMMA SegmentsStepInv == SegmentsInv /\ [SegmentsNext]_segmentVars => SegmentsInv'
<1> SUFFICES ASSUME SegmentsInv, [SegmentsNext]_segmentVars PROVE SegmentsInv'
  OBVIOUS
<1>1. IInv'
  BY StepRefines, StepInv DEF SegmentsInv
<1>2. CASE UNCHANGED segmentVars
  <2>1. UNCHANGED <<segments, history, splits, db, date>>
    BY <1>2 DEF segmentVars, repositoryVars
  <2>2. SegmentsTypeOK'
    BY <2>1 DEF SegmentsInv, SegmentsTypeOK
  <2>3. QED BY <1>1, <2>1, <2>2 DEF SegmentsInv
<1>3. ASSUME NEW active \in {a \in SUBSET season : Default \in a}, NEW u \in User, NEW r \in Run,
             NEW sp \in Splits, CompleteRun(active, u, r, sp)
      PROVE  SegmentsInv'
  BY <1>1, <1>3, CompleteRunInv
<1>4. ASSUME NEW target \in season \cup {AnySeason}, NEW u \in User, NEW by \in User, NEW r \in Run,
             RemoveRun(target, u, r, by)
      PROVE  SegmentsInv'
  BY <1>1, <1>4, RemoveRunInv
<1>5. ASSUME NEW a \in db.archive, NEW caller \in User, NEW admin \in BOOLEAN, NEW force \in BOOLEAN,
             RestoreRun(a, caller, admin, force)
      PROVE  SegmentsInv'
  BY <1>1, <1>5, RestoreRunInv
<1>6. CASE AddSegmentSeason
  BY <1>1, <1>6, AddSegmentSeasonInv
<1>7. ASSUME NEW s \in season, PurgeSegments(s) PROVE SegmentsInv'
  BY <1>1, <1>7, PurgeSegmentsInv
<1>8. ASSUME NEW target \in season \cup {AnySeason}, NEW u \in User, NEW by \in User, NEW r \in Run,
             NEW i \in Segment, RemoveSegment(target, u, r, i, by)
      PROVE  SegmentsInv'
  BY <1>1, <1>8, RemoveSegmentInv
<1>9. ASSUME NEW x \in segments.removed, NEW caller \in User, NEW admin \in BOOLEAN,
             NEW force \in BOOLEAN, RestoreSegment(x, caller, admin, force)
      PROVE  SegmentsInv'
  BY <1>1, <1>9, RestoreSegmentInv
<1>10. CASE Restart
  BY <1>1, <1>10, RestartInv
<1>11. QED BY <1>2, <1>3, <1>4, <1>5, <1>6, <1>7, <1>8, <1>9, <1>10 DEF SegmentsNext

\* Every reachable state satisfies the invariant.
LEMMA SegmentsInvariance == SegmentsSpec => []SegmentsInv
  BY SegmentsInitInv, SegmentsStepInv, PTL DEF SegmentsSpec

-----------------------------------------------------------------------------
(* The theorems.                                                           *)

\* The records under the segments are those of TimerunRepository: every operation
\* on the segments is one of its operations, or leaves the records alone.
THEOREM SegmentsRefineRepository == SegmentsSpec => RepositorySpec
<1>1. SegmentsInit => RepositoryInit
  BY DEF SegmentsInit
<1>2. [SegmentsNext]_segmentVars => [RepositoryNext]_repositoryVars
  BY StepRefines
<1>3. QED BY <1>1, <1>2, PTL DEF SegmentsSpec, RepositorySpec

\* The segment tables, the history and the checkpoints keep their types.
THEOREM SegmentTypesCorrect == SegmentsSpec => []SegmentsTypeOK
<1>1. SegmentsInv => SegmentsTypeOK
  BY SegmentsInvImplies
<1>2. QED BY <1>1, SegmentsInvariance, PTL

\* The upserts, voids and partial recomputations leave the global best of every
\* board the best of the personal rows that compete on it.
THEOREM GlobalBestsAreMaterialised == SegmentsSpec => []GlobalIsBestPersonal
<1>1. SegmentsInv => GlobalIsBestPersonal
  BY SegmentsInvImplies
<1>2. QED BY <1>1, SegmentsInvariance, PTL

\* In whatever order records and segments are removed and restored, no personal
\* row comes from an archived run or from a split removed on its own.
THEOREM RemovedRunsNeverCount == SegmentsSpec => []RemovedNeverCounts
<1>1. SegmentsInv => RemovedNeverCounts
  BY SegmentsInvImplies
<1>2. QED BY <1>1, SegmentsInvariance, PTL

\* Whatever is stored or removed carries the time of its leg in the run its date names,
\* and no two removed rows are of one leg and one run: the unique index of the archive is
\* never hit.
THEOREM SplitsComeFromRuns == SegmentsSpec => []SplitsAreTraceable
<1>1. SegmentsInv => SplitsAreTraceable
  BY SegmentsInvImplies
<1>2. QED BY <1>1, SegmentsInvariance, PTL

\* Whatever an operation does to a best split, it improves it or removes it.
LEMMA StepImproves ==
  ASSUME SegmentsInv, [SegmentsNext]_segmentVars
  PROVE  \A l \in Leg : Improves(l)
<1>1. IInv'
  BY StepRefines, StepInv DEF SegmentsInv
<1>2. CASE UNCHANGED segments
  BY <1>2 DEF Improves
<1>3. ASSUME NEW active \in {a \in SUBSET season : Default \in a}, NEW u \in User, NEW r \in Run,
             NEW sp \in Splits, CompleteRun(active, u, r, sp)
      PROVE  \A l \in Leg : Improves(l)
  <2>1. PICK copies, skip : Applied(segments', splits', segments, copies, skip)
    BY <1>3, CompleteRunApplied
  <2>2. QED BY <2>1, ApplyPersonal DEF Improves
<1>4. ASSUME NEW target \in season \cup {AnySeason}, NEW u \in User, NEW by \in User, NEW r \in Run,
             RemoveRun(target, u, r, by)
      PROVE  \A l \in Leg : Improves(l)
  BY <1>1, <1>4, RemoveRunInv
<1>5. ASSUME NEW a \in db.archive, NEW caller \in User, NEW admin \in BOOLEAN, NEW force \in BOOLEAN,
             RestoreRun(a, caller, admin, force)
      PROVE  \A l \in Leg : Improves(l)
  BY <1>1, <1>5, RestoreRunInv
<1>6. ASSUME NEW s \in season, PurgeSegments(s) PROVE \A l \in Leg : Improves(l)
  BY <1>1, <1>6, PurgeSegmentsInv
<1>7. ASSUME NEW target \in season \cup {AnySeason}, NEW u \in User, NEW by \in User, NEW r \in Run,
             NEW i \in Segment, RemoveSegment(target, u, r, i, by)
      PROVE  \A l \in Leg : Improves(l)
  BY <1>1, <1>7, RemoveSegmentInv
<1>8. ASSUME NEW x \in segments.removed, NEW caller \in User, NEW admin \in BOOLEAN,
             NEW force \in BOOLEAN, RestoreSegment(x, caller, admin, force)
      PROVE  \A l \in Leg : Improves(l)
  BY <1>1, <1>8, RestoreSegmentInv
<1>9. CASE AddSegmentSeason \/ UNCHANGED segmentVars
  BY <1>2, <1>9 DEF AddSegmentSeason, segmentVars
<1>10. CASE Restart
  BY <1>10 DEF Restart, Improves
<1>11. QED BY <1>3, <1>4, <1>5, <1>6, <1>7, <1>8, <1>9, <1>10 DEF SegmentsNext

\* No completion, restoration or seed replaces a best split by a worse one: a split gives
\* way to a better one, or because it or its run was removed.
THEOREM BestSplitsOnlyImprove == SegmentsSpec => SplitsOnlyImprove
<1>1. SegmentsInv /\ [SegmentsNext]_segmentVars => [\A l \in Leg : Improves(l)]_segmentVars
  BY StepImproves
<1>2. [\A l \in Leg : Improves(l)]_segmentVars =>
        [\A l \in Leg :
            LET old == segments.personal[l]
                new == segments'.personal[l]
            IN  old # NoSplit /\ new # NoSplit =>
                   \/ new = old \/ Beats(new, old)
                   \/ \E x \in segments'.removed : x.leg = l /\ x.split = old
                   \/ \E a \in db'.archive : a.key = l[1] /\ a.completion.date = old.date]_segmentVars
  BY DEF Improves
<1>3. QED BY <1>1, <1>2, SegmentsInvariance, PTL DEF SegmentsSpec, SplitsOnlyImprove
=============================================================================
