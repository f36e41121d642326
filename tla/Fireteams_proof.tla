---------------------------- MODULE Fireteams_proof ----------------------------
(***************************************************************************)
(* Fireteams for any number of clients, teams, limits and questions: what  *)
(* every way into a team and out of one does to all teams, and from it     *)
(* their invariants.                                                       *)
(***************************************************************************)
EXTENDS Fireteams, TLAPS

\* A team in use has a leader, room and a name of its own.
WellFormed ==
    \A f \in Fireteam :
        /\ fireTeams[f].inuse <=> fireTeams[f].joinOrder # <<>>
        /\ Len(fireTeams[f].joinOrder) <= MaxUsers
        /\ fireTeams[f].inuse => /\ fireTeams[f].ident \in Fireteam
                                 /\ \A g \in Fireteam : fireTeams[g].inuse /\ g # f =>
                                        fireTeams[g].ident # fireTeams[f].ident

TeamInv == fireTeams \in [Fireteam -> FireteamData] /\ OneTeamEach /\ WellFormed

MembersPresent == \A f \in Fireteam : \A c \in Members(f) : status[c] # "gone"

\* The rules of two states of a team are the same.
SameRules(s, t) == s.saveLimit = t.saveLimit /\ s.noGhost = t.noGhost

-----------------------------------------------------------------------------
(* Members and places.                                                     *)

\* A member has a place, and with one team each the place is the only one.
LEMMA Places ==
    ASSUME TeamInv, NEW f \in Fireteam
    PROVE  /\ fireTeams[f].joinOrder \in Seq(Client)
           /\ Members(f) \subseteq Client
           /\ \A c \in Members(f) : \E i \in 1..Len(fireTeams[f].joinOrder) :
                 fireTeams[f].joinOrder[i] = c
           /\ \A i \in 1..Len(fireTeams[f].joinOrder) :
                 fireTeams[f].joinOrder[i] \in Members(f)
           /\ \A c : IsOn(c, f) <=> c \in Members(f)
           /\ \A c : Leads(c, f) => c \in Members(f)
           /\ fireTeams[f].inuse => /\ Len(fireTeams[f].joinOrder) >= 1
                                    /\ fireTeams[f].joinOrder[1] \in Members(f)
  <1> DEFINE order == fireTeams[f].joinOrder
  <1>1. order \in Seq(Client)
    BY DEF TeamInv, FireteamData
  <1>2. Len(order) \in Nat /\ DOMAIN order = 1..Len(order) /\ \A i \in 1..Len(order) : order[i] \in Client
    BY <1>1
  <1>3. Members(f) = {order[i] : i \in 1..Len(order)}
    BY <1>2 DEF Members
  <1>4. fireTeams[f].inuse <=> order # <<>>
    BY DEF TeamInv, WellFormed
  <1>5. order # <<>> => Len(order) >= 1
    BY <1>1
  <1>6. order = <<>> => Members(f) = {}
    BY <1>3
  <1> HIDE DEF order
  <1>7. \A c : IsOn(c, f) <=> c \in Members(f)
    BY <1>4, <1>6 DEF IsOn
  <1>8. order # <<>> => order[1] \in Members(f)
    BY <1>2, <1>3, <1>5
  <1>9. \A c : Leads(c, f) => c \in Members(f)
    BY <1>8 DEF Leads, order
  <1> QED BY <1>1, <1>2, <1>3, <1>4, <1>5, <1>7, <1>8, <1>9 DEF order

\* No two teams share a member.
LEMMA OneTeam ==
    ASSUME TeamInv, NEW f \in Fireteam, NEW g \in Fireteam, NEW c, c \in Members(f), c \in Members(g)
    PROVE  f = g
  BY DEF TeamInv, OneTeamEach, Members

\* The team of a client on one.
LEMMA TheTeam ==
    ASSUME TeamInv, NEW f \in Fireteam, NEW c \in Members(f)
    PROVE  OnFireteam(c) /\ TeamOf(c) = f
  <1>1. IsOn(c, f)
    BY Places
  <1>2. TeamOf(c) \in Fireteam /\ IsOn(c, TeamOf(c))
    BY <1>1 DEF TeamOf
  <1> QED BY <1>1, <1>2, Places, OneTeam DEF OnFireteam

\* A join order without one of its clients: the others in the order they were in.
LEMMA OrderWithout ==
    ASSUME NEW order \in Seq(Client), NEW k \in 1..Len(order),
           \A i, j \in 1..Len(order) : order[i] = order[j] => i = j
    PROVE  LET rest == Without(order, order[k])
           IN  /\ rest \in Seq(Client)
               /\ Len(rest) = Len(order) - 1
               /\ \A i \in 1..(Len(order) - 1) : rest[i] = IF i < k THEN order[i] ELSE order[i + 1]
  <1>1. (CHOOSE i \in DOMAIN order : order[i] = order[k]) = k
    OBVIOUS
  <1> DEFINE rest == [i \in 1..(Len(order) - 1) |-> IF i < k THEN order[i] ELSE order[i + 1]]
  <1>2. Without(order, order[k]) = rest
    BY <1>1 DEF Without
  <1>3. Len(order) - 1 \in Nat /\ \A i \in 1..(Len(order) - 1) : i \in 1..Len(order) /\ i + 1 \in 1..Len(order)
    OBVIOUS
  <1>4. rest \in [1..(Len(order) - 1) -> Client]
    BY <1>3
  <1>5. rest \in Seq(Client) /\ Len(rest) = Len(order) - 1
    BY <1>3, <1>4
  <1> QED BY <1>2, <1>5

-----------------------------------------------------------------------------
(* What every way out of a team and into one does.                         *)

\* A client leaves: its team has the others in their order, or is out of use.
LEMMA TeamAfterLeaving ==
    ASSUME TeamInv, NEW c \in Client, NEW f \in Fireteam, c \in Members(f),
           fireTeams' = TeamsWithout(c)
    PROVE  /\ fireTeams'[f] \in FireteamData
           /\ SameRules(fireTeams'[f], fireTeams[f])
           /\ \E k \in 1..Len(fireTeams[f].joinOrder) :
                /\ fireTeams[f].joinOrder[k] = c
                /\ Len(fireTeams'[f].joinOrder) = Len(fireTeams[f].joinOrder) - 1
                /\ \A i \in 1..(Len(fireTeams[f].joinOrder) - 1) :
                      fireTeams'[f].joinOrder[i] = fireTeams[f].joinOrder[IF i < k THEN i ELSE i + 1]
           /\ fireTeams'[f].inuse <=> fireTeams'[f].joinOrder # <<>>
           /\ fireTeams'[f].inuse => fireTeams[f].inuse /\ fireTeams'[f].ident = fireTeams[f].ident
  <1> DEFINE order == fireTeams[f].joinOrder
             rest == Without(order, c)
  <1>1. PICK k \in 1..Len(order) : order[k] = c
    BY Places
  <1>2. order \in Seq(Client) /\ DOMAIN order = 1..Len(order)
    BY Places
  <1>3. \A i, j \in 1..Len(order) : order[i] = order[j] => i = j
    BY <1>2 DEF TeamInv, OneTeamEach
  <1>4. /\ rest \in Seq(Client) /\ Len(rest) = Len(order) - 1
        /\ \A i \in 1..(Len(order) - 1) : rest[i] = IF i < k THEN order[i] ELSE order[i + 1]
    BY <1>1, <1>2, <1>3, OrderWithout
  <1>5. fireTeams'[f] = [fireTeams[f] EXCEPT !.joinOrder = rest, !.inuse = rest # <<>>,
                                             !.ident = IF rest = <<>> THEN -1 ELSE @]
    BY Places DEF TeamsWithout
  <1>6. fireTeams[f] \in FireteamData
    BY DEF TeamInv
  <1> HIDE DEF rest
  <1>7. fireTeams'[f] \in FireteamData
    BY <1>4, <1>5, <1>6 DEF FireteamData
  <1>8. /\ fireTeams'[f].joinOrder = rest
        /\ fireTeams'[f].inuse <=> rest # <<>>
        /\ rest # <<>> => fireTeams'[f].ident = fireTeams[f].ident
        /\ SameRules(fireTeams'[f], fireTeams[f])
    BY <1>5, <1>6 DEF FireteamData, SameRules
  <1>9. fireTeams[f].inuse
    BY Places DEF IsOn
  <1>10. \A i \in 1..(Len(order) - 1) : rest[i] = order[IF i < k THEN i ELSE i + 1]
    BY <1>4
  <1> QED BY <1>1, <1>4, <1>7, <1>8, <1>9, <1>10

\* Leaving keeps every other member where it was, and the leaders that stay.
LEMMA Leaving ==
    ASSUME TeamInv, NEW c \in Client, fireTeams' = TeamsWithout(c)
    PROVE  /\ TeamInv'
           /\ \A f \in Fireteam : Members(f)' = Members(f) \ {c}
           /\ \A f \in Fireteam : \A d : d # c /\ Leads(d, f) => Leads(d, f)'
           /\ \A f \in Fireteam : SameRules(fireTeams'[f], fireTeams[f])
  <1>1. \A f \in Fireteam : c \notin Members(f) => fireTeams'[f] = fireTeams[f]
    BY Places DEF TeamsWithout
  <1>2. fireTeams' \in [Fireteam -> FireteamData]
    <2>1. \A f \in Fireteam : fireTeams'[f] \in FireteamData
      BY <1>1, TeamAfterLeaving DEF TeamInv
    <2> QED BY <2>1 DEF TeamsWithout
  <1>3. \A f \in Fireteam : SameRules(fireTeams'[f], fireTeams[f])
    BY <1>1, TeamAfterLeaving DEF SameRules
  <1>4. ASSUME NEW f \in Fireteam PROVE Members(f)' = Members(f) \ {c}
    <2>1. CASE c \notin Members(f)
      BY <1>1, <2>1 DEF Members
    <2>2. CASE c \in Members(f)
      <3> DEFINE order == fireTeams[f].joinOrder
                 rest == fireTeams'[f].joinOrder
      <3>1. PICK k \in 1..Len(order) :
               /\ order[k] = c /\ Len(rest) = Len(order) - 1
               /\ \A i \in 1..(Len(order) - 1) : rest[i] = order[IF i < k THEN i ELSE i + 1]
        BY <2>2, TeamAfterLeaving
      <3>2. /\ order \in Seq(Client) /\ DOMAIN order = 1..Len(order) /\ Len(order) \in Nat
            /\ \A i, j \in 1..Len(order) : order[i] = order[j] => i = j
        BY Places DEF TeamInv, OneTeamEach
      <3>3. rest \in Seq(Client) /\ DOMAIN rest = 1..(Len(order) - 1)
        BY <1>2, <3>1 DEF FireteamData
      <3>4. Members(f) = {order[i] : i \in 1..Len(order)}
        BY <3>2 DEF Members
      <3>5. Members(f)' = {rest[i] : i \in 1..(Len(order) - 1)}
        BY <3>3 DEF Members
      <3> HIDE DEF order, rest
      <3>6. ASSUME NEW i \in 1..(Len(order) - 1) PROVE rest[i] \in Members(f) \ {c}
        BY <3>1, <3>2, <3>4
      <3>7. ASSUME NEW j \in 1..Len(order), order[j] # c
            PROVE  \E i \in 1..(Len(order) - 1) : rest[i] = order[j]
        <4>1. CASE j < k
          BY <3>1, <3>2, <4>1
        <4>2. CASE j > k
          <5>1. j - 1 \in 1..(Len(order) - 1) /\ ~(j - 1 < k) /\ (j - 1) + 1 = j
            BY <3>2, <4>2
          <5> QED BY <3>1, <5>1
        <4>3. j # k
          BY <3>1, <3>7
        <4>4. j < k \/ j > k
          BY <3>2, <4>3
        <4> QED BY <4>1, <4>2, <4>4
      <3>8. Members(f)' \subseteq Members(f) \ {c}
        BY <3>5, <3>6
      <3>9. ASSUME NEW d \in Members(f), d # c PROVE d \in Members(f)'
        <4>1. PICK j \in 1..Len(order) : order[j] = d
          BY <3>4
        <4>2. PICK i \in 1..(Len(order) - 1) : rest[i] = order[j]
          BY <3>7, <3>9, <4>1
        <4> QED BY <3>5, <4>1, <4>2
      <3> QED BY <3>8, <3>9
    <2> QED BY <2>1, <2>2
  <1>5. ASSUME NEW f \in Fireteam, NEW d, d # c, Leads(d, f) PROVE Leads(d, f)'
    <2>1. CASE c \notin Members(f)
      BY <1>1, <1>5, <2>1 DEF Leads
    <2>2. CASE c \in Members(f)
      <3>1. PICK k \in 1..Len(fireTeams[f].joinOrder) :
               /\ fireTeams[f].joinOrder[k] = c
               /\ Len(fireTeams'[f].joinOrder) = Len(fireTeams[f].joinOrder) - 1
               /\ \A i \in 1..(Len(fireTeams[f].joinOrder) - 1) :
                     fireTeams'[f].joinOrder[i] = fireTeams[f].joinOrder[IF i < k THEN i ELSE i + 1]
        BY <2>2, TeamAfterLeaving
      <3>2. Len(fireTeams[f].joinOrder) \in Nat
        BY Places
      <3>3. k > 1
        BY <1>5, <3>1, <3>2 DEF Leads
      <3>4. fireTeams'[f].joinOrder[1] = d /\ Len(fireTeams'[f].joinOrder) >= 1
        BY <1>5, <3>1, <3>2, <3>3 DEF Leads
      <3>5. fireTeams'[f].joinOrder # <<>>
        BY <3>4
      <3> QED BY <2>2, <3>4, <3>5, TeamAfterLeaving DEF Leads
    <2> QED BY <2>1, <2>2
  <1>6. OneTeamEach'
    <2> SUFFICES ASSUME NEW f \in Fireteam, NEW g \in Fireteam,
                        NEW i \in DOMAIN fireTeams'[f].joinOrder,
                        NEW j \in DOMAIN fireTeams'[g].joinOrder,
                        fireTeams'[f].joinOrder[i] = fireTeams'[g].joinOrder[j]
                 PROVE  f = g /\ i = j
      BY DEF OneTeamEach
    <2>1. f = g
      <3>1. fireTeams'[f].joinOrder[i] \in Members(f)' /\ fireTeams'[f].joinOrder[i] \in Members(g)'
        BY DEF Members
      <3>2. fireTeams'[f].joinOrder[i] \in Members(f) /\ fireTeams'[f].joinOrder[i] \in Members(g)
        BY <1>4, <3>1
      <3> QED BY <3>2, OneTeam
    <2>2. CASE c \notin Members(f)
      BY <1>1, <2>1, <2>2 DEF TeamInv, OneTeamEach
    <2>3. CASE c \in Members(f)
      <3> DEFINE order == fireTeams[f].joinOrder
                 rest == fireTeams'[f].joinOrder
      <3>1. PICK k \in 1..Len(order) :
               /\ order[k] = c /\ Len(rest) = Len(order) - 1
               /\ \A n \in 1..(Len(order) - 1) : rest[n] = order[IF n < k THEN n ELSE n + 1]
        BY <2>3, TeamAfterLeaving
      <3>2. /\ order \in Seq(Client) /\ DOMAIN order = 1..Len(order) /\ Len(order) \in Nat
            /\ \A m, n \in 1..Len(order) : order[m] = order[n] => m = n
        BY Places DEF TeamInv, OneTeamEach
      <3>3. DOMAIN rest = 1..(Len(order) - 1)
        BY <1>2, <3>1 DEF FireteamData
      <3>4. i \in 1..(Len(order) - 1) /\ j \in 1..(Len(order) - 1) /\ rest[i] = rest[j]
        BY <2>1, <3>3
      <3> HIDE DEF order, rest
      <3>5. (IF i < k THEN i ELSE i + 1) = (IF j < k THEN j ELSE j + 1)
        BY <3>1, <3>2, <3>4
      <3> QED BY <2>1, <3>1, <3>2, <3>4, <3>5
    <2> QED BY <2>2, <2>3
  <1>7. WellFormed'
    <2>1. ASSUME NEW f \in Fireteam
          PROVE  /\ fireTeams'[f].inuse <=> fireTeams'[f].joinOrder # <<>>
                 /\ Len(fireTeams'[f].joinOrder) <= Len(fireTeams[f].joinOrder)
                 /\ fireTeams'[f].inuse => fireTeams[f].inuse /\ fireTeams'[f].ident = fireTeams[f].ident
      <3>1. fireTeams[f].joinOrder \in Seq(Client)
        BY Places
      <3> QED BY <1>1, <3>1, TeamAfterLeaving DEF TeamInv, WellFormed
    <2>2. \A f \in Fireteam : Len(fireTeams[f].joinOrder) \in Nat /\ Len(fireTeams'[f].joinOrder) \in Nat
      BY <1>2, Places DEF FireteamData
    <2> QED BY <2>1, <2>2, FireteamAssumption DEF TeamInv, WellFormed
  <1> QED BY <1>2, <1>3, <1>4, <1>5, <1>6, <1>7 DEF TeamInv

\* A client joins a team that has room: it is the last of it.
LEMMA Joining ==
    ASSUME TeamInv, NEW c \in Client, NEW l, NEW t \in Fireteam, CanJoin(c, l, t),
           fireTeams' = [fireTeams EXCEPT ![t].joinOrder = Append(@, c)]
    PROVE  /\ TeamInv'
           /\ \A f \in Fireteam : Members(f)' = IF f = t THEN Members(f) \cup {c} ELSE Members(f)
           /\ \A f \in Fireteam : \A d : Leads(d, f) => Leads(d, f)'
           /\ \A f \in Fireteam : SameRules(fireTeams'[f], fireTeams[f])
           /\ \A f \in Fireteam : \A i \in 1..Len(fireTeams[f].joinOrder) :
                 fireTeams'[f].joinOrder[i] = fireTeams[f].joinOrder[i]
           /\ fireTeams'[t].joinOrder[Len(fireTeams[t].joinOrder) + 1] = c
           /\ Len(fireTeams'[t].joinOrder) = Len(fireTeams[t].joinOrder) + 1
  <1> DEFINE order == fireTeams[t].joinOrder
             longer == Append(order, c)
  <1>1. \A f \in Fireteam : f # t => fireTeams'[f] = fireTeams[f]
    BY DEF TeamInv
  <1>2. fireTeams'[t] = [fireTeams[t] EXCEPT !.joinOrder = longer]
    BY DEF TeamInv
  <1>3. order \in Seq(Client) /\ Len(order) \in Nat /\ DOMAIN order = 1..Len(order) /\ Len(order) >= 1
    BY Places DEF CanJoin, Leads
  <1>4. /\ longer \in Seq(Client) /\ Len(longer) = Len(order) + 1
        /\ DOMAIN longer = 1..(Len(order) + 1)
        /\ \A i \in 1..Len(order) : longer[i] = order[i]
        /\ longer[Len(order) + 1] = c
    BY <1>3
  <1> HIDE DEF longer
  <1>5. /\ fireTeams'[t] \in FireteamData /\ fireTeams'[t].joinOrder = longer
        /\ fireTeams'[t].inuse = fireTeams[t].inuse /\ fireTeams'[t].ident = fireTeams[t].ident
        /\ SameRules(fireTeams'[t], fireTeams[t])
    <2>1. fireTeams[t] \in FireteamData
      BY DEF TeamInv
    <2>2. fireTeams'[t] \in FireteamData
      BY <1>2, <1>4, <2>1 DEF FireteamData
    <2> QED BY <1>2, <2>1, <2>2 DEF FireteamData, SameRules
  <1>6. fireTeams' \in [Fireteam -> FireteamData]
    <2>1. \A f \in Fireteam : fireTeams'[f] \in FireteamData
      BY <1>1, <1>5 DEF TeamInv
    <2> QED BY <2>1 DEF TeamInv
  <1>7. \A f \in Fireteam : c \notin Members(f)
    BY Places DEF CanJoin, OnFireteam
  <1>8. \A i \in 1..Len(order) : order[i] # c
    BY <1>3, <1>7, Places
  <1>9. OneTeamEach'
    <2> SUFFICES ASSUME NEW f \in Fireteam, NEW g \in Fireteam,
                        NEW i \in DOMAIN fireTeams'[f].joinOrder,
                        NEW j \in DOMAIN fireTeams'[g].joinOrder,
                        fireTeams'[f].joinOrder[i] = fireTeams'[g].joinOrder[j]
                 PROVE  f = g /\ i = j
      BY DEF OneTeamEach
    <2>1. \A g1 \in Fireteam \ {t} : \A j1 \in DOMAIN fireTeams'[g1].joinOrder :
             /\ fireTeams'[g1] = fireTeams[g1]
             /\ fireTeams'[g1].joinOrder[j1] # c
      BY <1>1, <1>7 DEF Members
    <2>2. \A i1 \in DOMAIN fireTeams'[t].joinOrder :
             \/ i1 = Len(order) + 1 /\ longer[i1] = c
             \/ i1 \in DOMAIN order /\ longer[i1] = order[i1]
      BY <1>3, <1>4, <1>5
    <2>3. CASE f # t /\ g # t
      BY <2>1, <2>3 DEF TeamInv, OneTeamEach
    <2>4. CASE f = t /\ g # t
      BY <1>5, <2>1, <2>2, <2>4 DEF TeamInv, OneTeamEach
    <2>5. CASE f # t /\ g = t
      BY <1>5, <2>1, <2>2, <2>5 DEF TeamInv, OneTeamEach
    <2>6. CASE f = t /\ g = t
      <3>1. \A i1, j1 \in DOMAIN order : order[i1] = order[j1] => i1 = j1
        BY DEF TeamInv, OneTeamEach
      <3> QED BY <1>3, <1>5, <1>8, <2>2, <2>6, <3>1
    <2> QED BY <2>3, <2>4, <2>5, <2>6
  <1>10. WellFormed'
    <2>1. Len(longer) <= MaxUsers /\ longer # <<>> /\ fireTeams[t].inuse
      BY <1>3, <1>4, FireteamAssumption DEF CanJoin, Leads
    <2>2. \A f \in Fireteam : /\ fireTeams'[f].inuse = fireTeams[f].inuse
                              /\ fireTeams'[f].ident = fireTeams[f].ident
      BY <1>1, <1>5
    <2> QED BY <1>1, <1>5, <2>1, <2>2 DEF TeamInv, WellFormed
  <1>11. Members(t)' = Members(t) \cup {c}
    BY <1>3, <1>4, <1>5 DEF Members
  <1>12. \A f \in Fireteam : f # t => Members(f)' = Members(f)
    BY <1>1 DEF Members
  <1>13. \A f \in Fireteam : \A d : Leads(d, f) => Leads(d, f)'
    <2>1. \A d : Leads(d, t) => Leads(d, t)'
      BY <1>3, <1>4, <1>5 DEF Leads
    <2> QED BY <1>1, <2>1 DEF Leads
  <1>14. \A f \in Fireteam : SameRules(fireTeams'[f], fireTeams[f])
    BY <1>1, <1>5 DEF SameRules
  <1> QED BY <1>1, <1>4, <1>5, <1>6, <1>9, <1>10, <1>11, <1>12, <1>13, <1>14 DEF TeamInv

\* The teams keep their members, their order and their names.
SameTeams ==
    \A f \in Fireteam : /\ fireTeams'[f].joinOrder = fireTeams[f].joinOrder
                        /\ fireTeams'[f].inuse = fireTeams[f].inuse
                        /\ fireTeams[f].inuse => fireTeams'[f].ident = fireTeams[f].ident

LEMMA Staying ==
    ASSUME TeamInv, fireTeams' \in [Fireteam -> FireteamData], SameTeams
    PROVE  /\ TeamInv'
           /\ \A f \in Fireteam : Members(f)' = Members(f)
           /\ \A f \in Fireteam : \A d : Leads(d, f)' <=> Leads(d, f)
  <1>1. \A f \in Fireteam : Members(f)' = Members(f)
    BY DEF SameTeams, Members
  <1>2. \A f \in Fireteam : \A d : Leads(d, f)' <=> Leads(d, f)
    BY DEF SameTeams, Leads
  <1>3. OneTeamEach'
    BY DEF SameTeams, TeamInv, OneTeamEach
  <1>4. WellFormed'
    BY DEF SameTeams, TeamInv, WellFormed
  <1> QED BY <1>1, <1>2, <1>3, <1>4 DEF TeamInv

\* A new team has its leader only; the others are as they were.
LEMMA Creating ==
    ASSUME TeamInv, NEW c \in Client, NEW t \in Fireteam, NEW n \in Fireteam,
           ~OnFireteam(c), ~fireTeams[t].inuse, FreeIdent(n),
           fireTeams' = [fireTeams EXCEPT ![t] = [inuse |-> TRUE, ident |-> n,
                             joinOrder |-> <<c>>, priv |-> FALSE,
                             saveLimit |-> NotSet, noGhost |-> FALSE]]
    PROVE  /\ TeamInv'
           /\ \A f \in Fireteam : f # t => fireTeams'[f] = fireTeams[f] /\ Members(f)' = Members(f)
           /\ Members(t)' = {c} /\ Leads(c, t)'
           /\ fireTeams'[t].saveLimit = NotSet /\ ~fireTeams'[t].noGhost
           /\ fireTeams'[t].joinOrder = <<c>>
           /\ Members(t) = {}
  <1>1. \A f \in Fireteam : f # t => fireTeams'[f] = fireTeams[f]
    BY DEF TeamInv
  <1>2. fireTeams'[t] = [inuse |-> TRUE, ident |-> n, joinOrder |-> <<c>>, priv |-> FALSE,
                         saveLimit |-> NotSet, noGhost |-> FALSE]
    BY DEF TeamInv
  <1>3. <<c>> \in Seq(Client) /\ Len(<<c>>) = 1 /\ DOMAIN <<c>> = {1} /\ <<c>>[1] = c /\ <<c>> # <<>>
    OBVIOUS
  <1>4. fireTeams' \in [Fireteam -> FireteamData]
    <2>1. fireTeams'[t] \in FireteamData
      BY <1>2, <1>3 DEF FireteamData
    <2>2. \A f \in Fireteam : fireTeams'[f] \in FireteamData
      BY <1>1, <2>1 DEF TeamInv
    <2> QED BY <2>2 DEF TeamInv
  <1>5. \A f \in Fireteam : f # t => Members(f)' = Members(f)
    BY <1>1 DEF Members
  <1>6. Members(t)' = {c}
    BY <1>2, <1>3 DEF Members
  <1>7. Leads(c, t)'
    BY <1>2, <1>3 DEF Leads
  <1>8. Members(t) = {}
    BY Places DEF IsOn
  <1>9. \A f \in Fireteam : c \notin Members(f)
    BY Places DEF OnFireteam
  <1>10. OneTeamEach'
    <2> SUFFICES ASSUME NEW f \in Fireteam, NEW g \in Fireteam,
                        NEW i \in DOMAIN fireTeams'[f].joinOrder,
                        NEW j \in DOMAIN fireTeams'[g].joinOrder,
                        fireTeams'[f].joinOrder[i] = fireTeams'[g].joinOrder[j]
                 PROVE  f = g /\ i = j
      BY DEF OneTeamEach
    <2>1. \A g1 \in Fireteam \ {t} : \A j1 \in DOMAIN fireTeams'[g1].joinOrder :
             /\ fireTeams'[g1] = fireTeams[g1]
             /\ fireTeams'[g1].joinOrder[j1] # c
      BY <1>1, <1>9 DEF Members
    <2>2. \A i1 \in DOMAIN fireTeams'[t].joinOrder : i1 = 1 /\ fireTeams'[t].joinOrder[i1] = c
      BY <1>2, <1>3
    <2>3. CASE f # t /\ g # t
      BY <2>1, <2>3 DEF TeamInv, OneTeamEach
    <2> QED BY <2>1, <2>2, <2>3
  <1>11. WellFormed'
    <2>1. \A f \in Fireteam : fireTeams[f].inuse => fireTeams[f].ident # n
      BY DEF FreeIdent
    <2>2. /\ fireTeams'[t].inuse /\ fireTeams'[t].joinOrder = <<c>> /\ fireTeams'[t].ident = n
      BY <1>2
    <2>3. 1 <= MaxUsers
      BY FireteamAssumption
    <2> QED BY <1>1, <1>3, <2>1, <2>2, <2>3 DEF TeamInv, WellFormed
  <1>12. /\ fireTeams'[t].saveLimit = NotSet /\ ~fireTeams'[t].noGhost
         /\ fireTeams'[t].joinOrder = <<c>>
    BY <1>2
  <1> QED BY <1>1, <1>4, <1>5, <1>6, <1>7, <1>8, <1>10, <1>11, <1>12 DEF TeamInv

\* A team that is disbanded has no members; the others are as they were.
LEMMA Disbanding ==
    ASSUME TeamInv, NEW t \in Fireteam,
           fireTeams' = [fireTeams EXCEPT ![t].joinOrder = <<>>, ![t].inuse = FALSE, ![t].ident = -1]
    PROVE  /\ TeamInv'
           /\ \A f \in Fireteam : f # t => fireTeams'[f] = fireTeams[f] /\ Members(f)' = Members(f)
           /\ Members(t)' = {} /\ ~fireTeams'[t].inuse
  <1>1. \A f \in Fireteam : f # t => fireTeams'[f] = fireTeams[f]
    BY DEF TeamInv
  <1>2. /\ fireTeams'[t] \in FireteamData
        /\ ~fireTeams'[t].inuse /\ fireTeams'[t].joinOrder = <<>>
    <2>1. fireTeams[t] \in FireteamData
      BY DEF TeamInv
    <2>2. fireTeams'[t] = [[[fireTeams[t] EXCEPT !.joinOrder = <<>>] EXCEPT !.inuse = FALSE] EXCEPT !.ident = -1]
      BY DEF TeamInv
    <2>3. <<>> \in Seq(Client)
      OBVIOUS
    <2> DEFINE emptied == [fireTeams[t] EXCEPT !.joinOrder = <<>>]
               unused == [emptied EXCEPT !.inuse = FALSE]
    <2>4. emptied \in FireteamData /\ emptied.joinOrder = <<>>
      BY <2>1, <2>3 DEF FireteamData
    <2> HIDE DEF emptied
    <2>5. unused \in FireteamData /\ ~unused.inuse /\ unused.joinOrder = <<>>
      BY <2>4 DEF FireteamData
    <2>6. fireTeams'[t] = [unused EXCEPT !.ident = -1]
      BY <2>2 DEF emptied
    <2> HIDE DEF unused
    <2> QED BY <2>5, <2>6 DEF FireteamData
  <1>3. fireTeams' \in [Fireteam -> FireteamData]
    <2>1. \A f \in Fireteam : fireTeams'[f] \in FireteamData
      BY <1>1, <1>2 DEF TeamInv
    <2> QED BY <2>1 DEF TeamInv
  <1>4. \A f \in Fireteam : f # t => Members(f)' = Members(f)
    BY <1>1 DEF Members
  <1>5. Members(t)' = {}
    BY <1>2 DEF Members
  <1>6. OneTeamEach'
    BY <1>1, <1>2 DEF TeamInv, OneTeamEach
  <1>7. WellFormed'
    <2>1. Len(<<>>) <= MaxUsers
      BY FireteamAssumption
    <2> QED BY <1>1, <1>2, <2>1 DEF TeamInv, WellFormed
  <1> QED BY <1>1, <1>2, <1>3, <1>4, <1>5, <1>6, <1>7 DEF TeamInv

-----------------------------------------------------------------------------
(* The invariant.                                                          *)

\* A question that was asked names a client.
QuestionInv ==
    /\ application \in [Client -> Question]
    /\ invitation \in [Client -> Question]
    /\ proposition \in [Client -> Question]

\* What makes a run and noghost exclude each other between two questions: a run is of a
\* client that plays, and who plays in a team with noghost has it marked in its life.
LifeInv ==
    /\ \A c \in Client : run[c] # "none" => Playing(c)
    /\ \A f \in Fireteam : \A c \in Members(f) :
          fireTeams[f].noGhost /\ Playing(c) => ftNoGhostThisLife[c]

FireteamInv ==
    /\ FireteamTypeOK /\ TeamInv /\ MembersPresent /\ QuestionInv
    /\ TeamLimitHolds /\ PromptIsForLeader /\ CountdownHasTeam

LEMMA QuestionTypes ==
    /\ Nobody \in Question
    /\ \A c \in Client : c \in Question /\ c # Nobody
    /\ \A q \in Question : q # Nobody => q \in Client
  BY FireteamAssumption DEF Question

LEMMA InitInv == FireteamInit => FireteamInv /\ LifeInv /\ NoGhostHasNoRun
  <1> SUFFICES ASSUME FireteamInit PROVE FireteamInv /\ LifeInv /\ NoGhostHasNoRun
    OBVIOUS
  <1> USE DEF FireteamInit
  <1>1. FreeTeam \in FireteamData
    <2>1. <<>> \in Seq(Client)
      OBVIOUS
    <2> QED BY <2>1 DEF FreeTeam, FireteamData
  <1>2. \A f \in Fireteam : /\ fireTeams[f] = FreeTeam /\ fireTeams[f].joinOrder = <<>>
                            /\ ~fireTeams[f].inuse /\ Members(f) = {}
    BY DEF FreeTeam, Members
  <1>3. QuestionInv
    BY QuestionTypes DEF QuestionInv
  <1>4. FireteamTypeOK
    BY <1>1, <1>3, QuestionTypes DEF FireteamTypeOK, QuestionInv
  <1>5. TeamInv
    <2>1. Len(<<>>) <= MaxUsers
      BY FireteamAssumption
    <2> QED BY <1>2, <1>4, <2>1 DEF TeamInv, OneTeamEach, WellFormed, FireteamTypeOK
  <1> QED BY <1>2, <1>3, <1>4, <1>5 DEF FireteamInv, MembersPresent, TeamLimitHolds,
          PromptIsForLeader, CountdownHasTeam, LifeInv, NoGhostHasNoRun, Playing

-----------------------------------------------------------------------------
(* The ways a step can move members.                                       *)

\* Nobody is asked anew whether its team is to be private, nor starts a countdown.
NoNewPrompt == \A c \in Client : privatePrompt'[c] => privatePrompt[c]
NoNewCountdown == countdown' \subseteq countdown

JoinMove ==
    /\ NoNewPrompt /\ NoNewCountdown
    /\ \E c, l \in Client, t \in Fireteam :
          /\ CanJoin(c, l, t)
          /\ application[l] = c \/ invitation[c] = l
          /\ Playing(c) /\ status' = status
          /\ fireTeams' = [fireTeams EXCEPT ![t].joinOrder = Append(@, c)]

CreateMove ==
    \E c \in Client, t, n \in Fireteam :
        /\ ~OnFireteam(c) /\ ~fireTeams[t].inuse /\ FreeIdent(n)
        /\ Playing(c) /\ status' = status /\ NoNewCountdown
        /\ \A d \in Client : privatePrompt'[d] => privatePrompt[d] \/ d = c
        /\ fireTeams' = [fireTeams EXCEPT ![t] = [inuse |-> TRUE, ident |-> n,
                             joinOrder |-> <<c>>, priv |-> FALSE,
                             saveLimit |-> NotSet, noGhost |-> FALSE]]

LeaveMove ==
    \E c \in Client :
        /\ fireTeams' = TeamsWithout(c)
        /\ \A d \in Client : d # c => status'[d] = status[d]
        /\ NoNewPrompt /\ (OnFireteam(c) => ~privatePrompt'[c])
        /\ countdown' \subseteq countdown \ {c}

DisbandMove ==
    \E t \in Fireteam :
        /\ fireTeams' = [fireTeams EXCEPT ![t].joinOrder = <<>>, ![t].inuse = FALSE, ![t].ident = -1]
        /\ status' = status
        /\ \A d \in Client : privatePrompt'[d] => privatePrompt[d] /\ ~IsOn(d, t)
        /\ countdown' \subseteq countdown \ Members(t)

StayMove ==
    /\ fireTeams' \in [Fireteam -> FireteamData]
    /\ SameTeams
    /\ \A c \in Client : status[c] # "gone" => status'[c] # "gone"
    /\ NoNewPrompt
    /\ \A c \in countdown' : c \in countdown \/ OnFireteam(c)

LEMMA Moves ==
    ASSUME FireteamInv, [FireteamNext]_vars
    PROVE  JoinMove \/ CreateMove \/ LeaveMove \/ DisbandMove \/ StayMove
  <1> DEFINE Goal == JoinMove \/ CreateMove \/ LeaveMove \/ DisbandMove \/ StayMove
  <1> USE DEF FireteamInv
  <1>0. privatePrompt \in [Client -> BOOLEAN]
    BY DEF FireteamTypeOK
  <1>1. ASSUME UNCHANGED <<status, fireTeams>>, NoNewPrompt, NoNewCountdown PROVE StayMove
    BY <1>1 DEF StayMove, SameTeams, TeamInv, NoNewCountdown
  <1>2. ASSUME MapChange PROVE StayMove
    <2>1. \A f \in Fireteam : fireTeams[f].inuse =>
             fireTeams'[f] = [fireTeams[f] EXCEPT !.saveLimit = NotSet, !.noGhost = FALSE]
      BY <1>2 DEF MapChange
    <2>2. \A f \in Fireteam : ~fireTeams[f].inuse => fireTeams'[f] = FreeTeam
      BY <1>2 DEF MapChange
    <2>3. <<>> \in Seq(Client)
      OBVIOUS
    <2>4. \A f \in Fireteam : fireTeams[f] \in FireteamData /\ fireTeams'[f] \in FireteamData
      <3>1. FreeTeam \in FireteamData
        BY <2>3 DEF FreeTeam, FireteamData
      <3>2. ASSUME NEW s \in FireteamData
            PROVE  [s EXCEPT !.saveLimit = NotSet, !.noGhost = FALSE] \in FireteamData
        BY DEF FireteamData
      <3> QED BY <2>1, <2>2, <3>1, <3>2 DEF TeamInv
    <2>5. SameTeams
      <3>1. \A f \in Fireteam : fireTeams[f].inuse =>
               /\ fireTeams'[f].joinOrder = fireTeams[f].joinOrder
               /\ fireTeams'[f].inuse = fireTeams[f].inuse /\ fireTeams'[f].ident = fireTeams[f].ident
        BY <2>1, <2>4 DEF FireteamData
      <3>2. \A f \in Fireteam : ~fireTeams[f].inuse =>
               /\ fireTeams'[f].joinOrder = fireTeams[f].joinOrder
               /\ fireTeams'[f].inuse = fireTeams[f].inuse
        BY <2>2, <2>4 DEF FreeTeam, TeamInv, WellFormed, FireteamData
      <3> QED BY <3>1, <3>2 DEF SameTeams
    <2>6. fireTeams' \in [Fireteam -> FireteamData]
      BY <1>2, <2>4 DEF MapChange
    <2>7. \A c \in Client : status[c] # "gone" => status'[c] # "gone"
      BY <1>2 DEF MapChange
    <2>8. NoNewPrompt /\ countdown' = {}
      BY <1>2 DEF MapChange, NoNewPrompt
    <2> QED BY <2>5, <2>6, <2>7, <2>8 DEF StayMove
  <1>p. ASSUME NEW c \in Client, privatePrompt' = PromptsWithout(c)
        PROVE  NoNewPrompt /\ (OnFireteam(c) => ~privatePrompt'[c])
    BY <1>0, <1>p DEF PromptsWithout, NoNewPrompt
  <1>3. ASSUME NEW c \in Client, Connect(c) \/ Reconnect(c) \/ Begin(c) \/ Respawn(c) \/ Disconnect(c)
        PROVE  Goal
    <2>1. CASE UNCHANGED fireTeams /\ ~Disconnect(c)
      <3>1. \A d \in Client : status[d] # "gone" => status'[d] # "gone"
        BY <1>3, <2>1 DEF Connect, Reconnect, Begin, Respawn, FireteamTypeOK
      <3>2. NoNewPrompt
        BY <1>0, <1>3, <2>1 DEF Connect, Reconnect, Begin, Respawn, NoNewPrompt
      <3>3. countdown' \subseteq countdown
        BY <1>3, <2>1 DEF Connect, Reconnect, Begin, Respawn
      <3> QED BY <2>1, <3>1, <3>2, <3>3 DEF StayMove, SameTeams, TeamInv
    <2>2. CASE Reconnect(c) /\ Playing(c)
      <3>1. \A d \in Client : d # c => status'[d] = status[d]
        BY <2>2 DEF Reconnect, FireteamTypeOK
      <3>2. privatePrompt' = [privatePrompt EXCEPT ![c] = FALSE]
        BY <2>2 DEF Reconnect
      <3>3. fireTeams' = TeamsWithout(c) /\ countdown' = countdown \ {c}
        BY <2>2 DEF Reconnect
      <3> QED BY <1>0, <3>1, <3>2, <3>3 DEF LeaveMove, NoNewPrompt
    <2>3. CASE Disconnect(c)
      <3>1. \A d \in Client : d # c => status'[d] = status[d]
        BY <2>3 DEF Disconnect, FireteamTypeOK
      <3> QED BY <1>0, <1>p, <2>3, <3>1 DEF LeaveMove, Disconnect, RemoveClientFromFireteams
    <2> QED BY <1>3, <2>1, <2>2, <2>3 DEF Connect, Reconnect, Begin, Respawn
  <1>4. ASSUME NEW c \in Client, RegisterFireteam(c) PROVE CreateMove
    <2>1. \A d \in Client : privatePrompt'[d] => privatePrompt[d] \/ d = c
      BY <1>0, <1>4 DEF RegisterFireteam
    <2> QED BY <1>4, <2>1 DEF CreateMove, RegisterFireteam, NoNewCountdown
  <1>5. ASSUME NEW c \in Client, Leave(c) \/ \E l \in Client : Kick(l, c) PROVE LeaveMove
    BY <1>5, <1>p DEF LeaveMove, Leave, Kick, RemoveClientFromFireteams
  <1>6. ASSUME NEW l \in Client, DestroyFireteam(l) PROVE DisbandMove
    BY <1>6 DEF DestroyFireteam, DisbandMove
  <1>7. ASSUME NEW l \in Client, NEW yes \in BOOLEAN, AnswerApplication(l, yes) PROVE Goal
    <2>1. application[l] \in Client
      BY <1>7, QuestionTypes DEF AnswerApplication, QuestionInv
    <2>2. NoNewPrompt /\ NoNewCountdown
      BY <1>7 DEF AnswerApplication, NoNewPrompt, NoNewCountdown
    <2> QED BY <1>1, <1>7, <2>1, <2>2 DEF AnswerApplication, AddClientToFireteam, JoinMove
  <1>8. ASSUME NEW c \in Client, NEW yes \in BOOLEAN, AnswerInvitation(c, yes) PROVE Goal
    <2>1. invitation[c] \in Client
      BY <1>8, QuestionTypes DEF AnswerInvitation, QuestionInv
    <2>2. NoNewPrompt /\ NoNewCountdown
      BY <1>8 DEF AnswerInvitation, NoNewPrompt, NoNewCountdown
    <2> QED BY <1>1, <1>8, <2>1, <2>2 DEF AnswerInvitation, AddClientToFireteam, JoinMove
  <1>9. ASSUME NEW c \in Client, NEW yes \in BOOLEAN, AnswerPrivate(c, yes) PROVE StayMove
    <2>1. \A f \in Fireteam : fireTeams[f] \in FireteamData
      BY DEF TeamInv
    <2>2. \A f \in Fireteam : fireTeams'[f] = fireTeams[f] \/ fireTeams'[f] = [fireTeams[f] EXCEPT !.priv = TRUE]
      BY <1>9 DEF AnswerPrivate
    <2>3. \A f \in Fireteam : fireTeams'[f] \in FireteamData
      BY <2>1, <2>2 DEF FireteamData
    <2>4. SameTeams
      BY <2>1, <2>2 DEF FireteamData, SameTeams
    <2>5. NoNewPrompt
      BY <1>0, <1>9 DEF AnswerPrivate, NoNewPrompt
    <2> QED BY <1>9, <2>3, <2>4, <2>5 DEF AnswerPrivate, StayMove
  <1>10. ASSUME NEW c \in Client, NEW n \in Limits \cup {NotSet}, SetSaveLimit(c, n) PROVE StayMove
    <2>1. PICK f \in Fireteam : fireTeams' = [fireTeams EXCEPT ![f].saveLimit = n]
      BY <1>10 DEF SetSaveLimit
    <2>2. \A g \in Fireteam : /\ fireTeams[g] \in FireteamData
                              /\ g # f => fireTeams'[g] = fireTeams[g]
      BY <2>1 DEF TeamInv
    <2>3. fireTeams'[f] = [fireTeams[f] EXCEPT !.saveLimit = n]
      BY <2>1 DEF TeamInv
    <2>4. fireTeams'[f] \in FireteamData
      BY <2>2, <2>3 DEF FireteamData
    <2>5. fireTeams' \in [Fireteam -> FireteamData]
      <3>1. \A g \in Fireteam : fireTeams'[g] \in FireteamData
        BY <2>2, <2>4
      <3> QED BY <2>1, <3>1 DEF TeamInv
    <2>6. SameTeams
      <3>1. /\ fireTeams'[f].joinOrder = fireTeams[f].joinOrder
            /\ fireTeams'[f].inuse = fireTeams[f].inuse /\ fireTeams'[f].ident = fireTeams[f].ident
        BY <2>2, <2>3 DEF FireteamData
      <3> QED BY <2>2, <3>1 DEF SameTeams
    <2> QED BY <1>10, <2>5, <2>6 DEF SetSaveLimit, StayMove, NoNewPrompt
  <1>11. ASSUME NEW c \in Client, NEW on \in BOOLEAN, SetNoGhost(c, on) PROVE StayMove
    <2>1. PICK f \in Fireteam : fireTeams' = [fireTeams EXCEPT ![f].noGhost = on]
      BY <1>11 DEF SetNoGhost
    <2>2. \A g \in Fireteam : /\ fireTeams[g] \in FireteamData
                              /\ g # f => fireTeams'[g] = fireTeams[g]
      BY <2>1 DEF TeamInv
    <2>3. fireTeams'[f] = [fireTeams[f] EXCEPT !.noGhost = on]
      BY <2>1 DEF TeamInv
    <2>4. fireTeams'[f] \in FireteamData
      BY <2>2, <2>3 DEF FireteamData
    <2>5. fireTeams' \in [Fireteam -> FireteamData]
      <3>1. \A g \in Fireteam : fireTeams'[g] \in FireteamData
        BY <2>2, <2>4
      <3> QED BY <2>1, <3>1 DEF TeamInv
    <2>6. SameTeams
      <3>1. /\ fireTeams'[f].joinOrder = fireTeams[f].joinOrder
            /\ fireTeams'[f].inuse = fireTeams[f].inuse /\ fireTeams'[f].ident = fireTeams[f].ident
        BY <2>2, <2>3 DEF FireteamData
      <3> QED BY <2>2, <3>1 DEF SameTeams
    <2> QED BY <1>11, <2>5, <2>6 DEF SetNoGhost, StayMove, NoNewPrompt
  <1>12. ASSUME TeamStep PROVE Goal
    BY <1>1, <1>4, <1>5, <1>6, <1>12 DEF TeamStep, Invite, InviteMultiple, Propose, ApplyToFireTeam,
       NoNewPrompt, NoNewCountdown
  <1>13. ASSUME AnswerStep PROVE Goal
    <2>1. ASSUME NEW c \in Client, Expire(c) \/ \E yes \in BOOLEAN : AnswerProposition(c, yes)
          PROVE  StayMove
      <3>1. NoNewPrompt /\ NoNewCountdown
        BY <1>0, <2>1 DEF Expire, AnswerProposition, NoNewPrompt, NoNewCountdown
      <3> QED BY <1>1, <2>1, <3>1 DEF Expire, AnswerProposition
    <2> QED BY <1>7, <1>8, <1>9, <1>13, <2>1 DEF AnswerStep
  <1>14. ASSUME RuleStep PROVE Goal
    <2>1. ASSUME NEW c \in Client, StartCountdown(c) PROVE StayMove
      BY <2>1 DEF StartCountdown, StayMove, SameTeams, TeamInv, NoNewPrompt
    <2> QED BY <1>1, <1>10, <1>11, <1>14, <2>1
            DEF RuleStep, SavePosition, StartRun, EndRun, EndCountdown, NoNewPrompt, NoNewCountdown
  <1> QED BY <1>1, <1>2, <1>3, <1>12, <1>13, <1>14 DEF FireteamNext, ConnectionStep, vars,
          NoNewPrompt, NoNewCountdown

\* Whatever a step does, the teams stay sound and their members connected.
LEMMA TeamsStep ==
    ASSUME FireteamInv, [FireteamNext]_vars
    PROVE  TeamInv' /\ MembersPresent'
  <1>0. TeamInv /\ MembersPresent
    BY DEF FireteamInv
  <1>1. CASE JoinMove
    <2>1. PICK c \in Client, l \in Client, t \in Fireteam :
             /\ CanJoin(c, l, t) /\ status' = status /\ Playing(c)
             /\ fireTeams' = [fireTeams EXCEPT ![t].joinOrder = Append(@, c)]
      BY <1>1 DEF JoinMove
    <2>2. /\ TeamInv'
          /\ \A f \in Fireteam : Members(f)' = IF f = t THEN Members(f) \cup {c} ELSE Members(f)
      BY <1>0, <2>1, Joining
    <2> QED BY <1>0, <2>1, <2>2 DEF MembersPresent, Playing
  <1>2. CASE CreateMove
    <2>1. PICK c \in Client, t \in Fireteam : /\ TeamInv' /\ Members(t)' = {c} /\ status' = status /\ Playing(c)
                                             /\ \A f \in Fireteam : f # t => Members(f)' = Members(f)
      BY <1>0, <1>2, Creating DEF CreateMove
    <2> QED BY <1>0, <2>1 DEF MembersPresent, Playing
  <1>3. CASE LeaveMove
    <2>1. PICK c \in Client : /\ TeamInv' /\ \A f \in Fireteam : Members(f)' = Members(f) \ {c}
                              /\ \A d \in Client : d # c => status'[d] = status[d]
      BY <1>0, <1>3, Leaving DEF LeaveMove
    <2> QED BY <1>0, <2>1, Places DEF MembersPresent
  <1>4. CASE DisbandMove
    <2>1. PICK t \in Fireteam : /\ TeamInv' /\ Members(t)' = {} /\ status' = status
                               /\ \A f \in Fireteam : f # t => Members(f)' = Members(f)
      BY <1>0, <1>4, Disbanding DEF DisbandMove
    <2> QED BY <1>0, <2>1 DEF MembersPresent
  <1>5. CASE StayMove
    BY <1>0, <1>5, Staying, Places DEF StayMove, MembersPresent
  <1> QED BY <1>1, <1>2, <1>3, <1>4, <1>5, Moves

\* Prompts stay with the leaders, and countdowns with the members.
LEMMA PromptsStep ==
    ASSUME FireteamInv, [FireteamNext]_vars
    PROVE  PromptIsForLeader' /\ CountdownHasTeam'
  <1>0. /\ TeamInv /\ TeamInv' /\ countdown \subseteq Client
        /\ \A c \in Client : privatePrompt[c] => \E f \in Fireteam : Leads(c, f)
        /\ \A c \in countdown : \E f \in Fireteam : c \in Members(f)
    BY TeamsStep, Places DEF FireteamInv, FireteamTypeOK, PromptIsForLeader, IsLeader, CountdownHasTeam,
       OnFireteam
  <1>1. SUFFICES /\ \A c \in Client : privatePrompt'[c] => \E f \in Fireteam : Leads(c, f)'
                 /\ \A c \in countdown' : \E f \in Fireteam : c \in Members(f)'
    <2>1. \A c : \A f \in Fireteam : c \in Members(f)' => IsOn(c, f)'
      <3>1. \A f \in Fireteam : fireTeams'[f].joinOrder = <<>> => Members(f)' = {}
        BY DEF Members
      <3> QED BY <1>0, <3>1 DEF IsOn, TeamInv, WellFormed
    <2> QED BY <1>1, <2>1 DEF PromptIsForLeader, IsLeader, CountdownHasTeam, OnFireteam
  <1>2. CASE JoinMove
    <2>1. PICK c \in Client, l \in Client, t \in Fireteam :
             /\ CanJoin(c, l, t)
             /\ fireTeams' = [fireTeams EXCEPT ![t].joinOrder = Append(@, c)]
      BY <1>2 DEF JoinMove
    <2>2. /\ \A f \in Fireteam : Members(f)' = IF f = t THEN Members(f) \cup {c} ELSE Members(f)
          /\ \A f \in Fireteam : \A d : Leads(d, f) => Leads(d, f)'
      BY <1>0, <2>1, Joining
    <2> QED BY <1>0, <1>2, <2>2 DEF JoinMove, NoNewPrompt, NoNewCountdown
  <1>3. CASE CreateMove
    <2>1. PICK c \in Client, t \in Fireteam :
             /\ Leads(c, t)' /\ Members(t) = {} /\ ~fireTeams[t].inuse
             /\ \A f \in Fireteam : f # t => fireTeams'[f] = fireTeams[f] /\ Members(f)' = Members(f)
             /\ \A d \in Client : privatePrompt'[d] => privatePrompt[d] \/ d = c
      BY <1>0, <1>3, Creating DEF CreateMove
    <2>2. \A f \in Fireteam : \A d : Leads(d, f) => Leads(d, f)'
      BY <2>1 DEF Leads
    <2> QED BY <1>0, <1>3, <2>1, <2>2 DEF CreateMove, NoNewCountdown
  <1>4. CASE LeaveMove
    <2>1. PICK c \in Client :
             /\ fireTeams' = TeamsWithout(c)
             /\ NoNewPrompt /\ (OnFireteam(c) => ~privatePrompt'[c])
             /\ countdown' \subseteq countdown \ {c}
      BY <1>4 DEF LeaveMove
    <2>2. /\ \A f \in Fireteam : Members(f)' = Members(f) \ {c}
          /\ \A f \in Fireteam : \A d : d # c /\ Leads(d, f) => Leads(d, f)'
      BY <1>0, <2>1, Leaving
    <2>3. ~OnFireteam(c) => ~\E f \in Fireteam : Leads(c, f)
      BY <1>0, Places DEF OnFireteam
    <2> QED BY <1>0, <2>1, <2>2, <2>3 DEF NoNewPrompt
  <1>5. CASE DisbandMove
    <2>1. PICK t \in Fireteam :
             /\ \A f \in Fireteam : f # t => fireTeams'[f] = fireTeams[f] /\ Members(f)' = Members(f)
             /\ \A d \in Client : privatePrompt'[d] => privatePrompt[d] /\ ~IsOn(d, t)
             /\ countdown' \subseteq countdown \ Members(t)
      BY <1>0, <1>5, Disbanding DEF DisbandMove
    <2>2. \A d : Leads(d, t) => IsOn(d, t)
      BY <1>0, Places
    <2>3. \A f \in Fireteam : \A d : f # t /\ Leads(d, f) => Leads(d, f)'
      BY <2>1 DEF Leads
    <2> QED BY <1>0, <2>1, <2>2, <2>3
  <1>6. CASE StayMove
    <2>1. /\ \A f \in Fireteam : Members(f)' = Members(f)
          /\ \A f \in Fireteam : \A d : Leads(d, f)' <=> Leads(d, f)
      BY <1>0, <1>6, Staying DEF StayMove
    <2>2. \A c : OnFireteam(c) => \E f \in Fireteam : c \in Members(f)
      BY <1>0, Places DEF OnFireteam
    <2> QED BY <1>0, <1>6, <2>1, <2>2 DEF StayMove, NoNewPrompt
  <1> QED BY <1>2, <1>3, <1>4, <1>5, <1>6, Moves

-----------------------------------------------------------------------------
(* Types and questions.                                                    *)

LEMMA QuestionStep ==
    ASSUME FireteamInv, [FireteamNext]_vars
    PROVE  QuestionInv'
  <1> USE QuestionTypes DEF FireteamInv, QuestionInv
  <1>1. ASSUME UNCHANGED questions PROVE QuestionInv'
    BY <1>1 DEF questions
  <1>2. ASSUME MapChange PROVE QuestionInv'
    BY <1>2 DEF MapChange
  <1>3. ASSUME NEW c \in Client, Connect(c) \/ Reconnect(c) \/ Begin(c) \/ Respawn(c) \/ Disconnect(c)
        PROVE  QuestionInv'
    <2>1. CASE Connect(c) \/ Reconnect(c)
      <3>1. ClearQuestions(c)
        BY <2>1 DEF Connect, Reconnect
      <3> QED BY <3>1 DEF ClearQuestions
    <2>2. CASE Begin(c) \/ Respawn(c)
      BY <1>1, <2>2 DEF Begin, Respawn
    <2>3. CASE Disconnect(c)
      BY <1>1, <2>3 DEF Disconnect
    <2> QED BY <1>3, <2>1, <2>2, <2>3
  <1>4. ASSUME NEW c \in Client, RegisterFireteam(c) \/ Leave(c) \/ DestroyFireteam(c)
                                 \/ \E l \in Client : Kick(l, c)
        PROVE  QuestionInv'
    BY <1>1, <1>4 DEF RegisterFireteam, Leave, DestroyFireteam, Kick
  <1>5. ASSUME NEW c \in Client, NEW f \in Fireteam, ApplyToFireTeam(c, f) PROVE QuestionInv'
    BY <1>5 DEF ApplyToFireTeam
  <1>6. ASSUME NEW l \in Client, NEW c \in Client, InviteToFireTeam(l, c)
        PROVE  invitation' \in [Client -> Question]
    BY <1>6 DEF InviteToFireTeam
  <1>7. ASSUME NEW l \in Client, NEW c \in Client, Invite(l, c) \/ Propose(l, c) PROVE QuestionInv'
    BY <1>6, <1>7 DEF Invite, Propose
  <1>8. ASSUME NEW l \in Client, NEW C \in SUBSET Client, InviteMultiple(l, C) PROVE QuestionInv'
    BY <1>8 DEF InviteMultiple
  <1>9. ASSUME NEW c \in Client, NEW yes \in BOOLEAN,
               AnswerApplication(c, yes) \/ AnswerInvitation(c, yes) \/ AnswerPrivate(c, yes)
        PROVE  QuestionInv'
    <2>1. CASE AnswerApplication(c, yes)
      BY <2>1 DEF AnswerApplication
    <2>2. CASE AnswerInvitation(c, yes)
      BY <2>2 DEF AnswerInvitation
    <2>3. CASE AnswerPrivate(c, yes)
      BY <1>1, <2>3 DEF AnswerPrivate
    <2> QED BY <1>9, <2>1, <2>2, <2>3
  <1>10. ASSUME NEW c \in Client, NEW yes \in BOOLEAN, AnswerProposition(c, yes) PROVE QuestionInv'
    BY <1>6, <1>10 DEF AnswerProposition
  <1>11. ASSUME NEW c \in Client, Expire(c) PROVE QuestionInv'
    <2>1. ASSUME NEW Q \in [Client -> Question]
          PROVE  [Q EXCEPT ![c] = Nobody] \in [Client -> Question]
      OBVIOUS
    <2>2. application' \in {application, [application EXCEPT ![c] = Nobody]}
      BY <1>11 DEF Expire, questions
    <2>3. invitation' \in {invitation, [invitation EXCEPT ![c] = Nobody]}
      BY <1>11 DEF Expire, questions
    <2>4. proposition' \in {proposition, [proposition EXCEPT ![c] = Nobody]}
      BY <1>11 DEF Expire, questions
    <2>5. application' \in [Client -> Question]
      BY <2>1, <2>2
    <2>6. invitation' \in [Client -> Question]
      BY <2>1, <2>3
    <2>7. proposition' \in [Client -> Question]
      BY <2>1, <2>4
    <2> QED BY <2>5, <2>6, <2>7
  <1>12. ASSUME RuleStep PROVE QuestionInv'
    BY <1>1, <1>12 DEF RuleStep, SetSaveLimit, SetNoGhost, SavePosition, StartRun, EndRun,
                       StartCountdown, EndCountdown
  <1> QED BY <1>1, <1>2, <1>3, <1>4, <1>5, <1>7, <1>8, <1>9, <1>10, <1>11, <1>12
          DEF FireteamNext, ConnectionStep, TeamStep, AnswerStep, vars

\* The types that no rule is about.
PlainTypes ==
    /\ status \in [Client -> {"gone", "connecting", "playing"}]
    /\ privatePrompt \in [Client -> BOOLEAN]
    /\ ftNoGhostThisLife \in [Client -> BOOLEAN]
    /\ run \in [Client -> RunKinds \cup {"none"}]
    /\ countdown \subseteq Client

LEMMA PlainStep ==
    ASSUME FireteamInv, [FireteamNext]_vars
    PROVE  PlainTypes'
  <1>0. PlainTypes
    BY DEF PlainTypes, FireteamInv, FireteamTypeOK
  <1> USE DEF PlainTypes
  <1>1. ASSUME NEW f \in Fireteam PROVE fireTeams[f].noGhost \in BOOLEAN
    BY DEF FireteamInv, TeamInv, FireteamData
  <1>2. ASSUME UNCHANGED vars PROVE PlainTypes'
    BY <1>0, <1>2 DEF vars, rules
  <1>3. ASSUME MapChange PROVE PlainTypes'
    BY <1>0, <1>3 DEF MapChange
  <1>4. ASSUME NEW c \in Client, ClientSpawn(c)
        PROVE  run' \in [Client -> RunKinds \cup {"none"}] /\ ftNoGhostThisLife' \in [Client -> BOOLEAN]
    BY <1>0, <1>1, <1>4 DEF ClientSpawn
  <1>5. ASSUME NEW c \in Client PROVE PromptsWithout(c) \in [Client -> BOOLEAN]
    BY <1>0 DEF PromptsWithout
  <1>6. ASSUME NEW c \in Client, Begin(c) \/ Respawn(c) PROVE PlainTypes'
    BY <1>0, <1>4, <1>6 DEF Begin, Respawn
  <1>7. ASSUME NEW c \in Client, Connect(c) \/ Reconnect(c) PROVE PlainTypes'
    BY <1>0, <1>7 DEF Connect, Reconnect
  <1>8. ASSUME NEW c \in Client, Disconnect(c) PROVE PlainTypes'
    BY <1>0, <1>5, <1>8 DEF Disconnect, RemoveClientFromFireteams
  <1>9. ASSUME NEW c \in Client, Leave(c) \/ \E l \in Client : Kick(l, c) PROVE PlainTypes'
    BY <1>0, <1>5, <1>9 DEF Leave, Kick, RemoveClientFromFireteams
  <1>10. ASSUME NEW c \in Client, RegisterFireteam(c) PROVE PlainTypes'
    BY <1>0, <1>10 DEF RegisterFireteam, rules
  <1>11. ASSUME NEW c \in Client, DestroyFireteam(c) PROVE PlainTypes'
    <2>1. privatePrompt' \in [Client -> BOOLEAN] /\ countdown' \subseteq Client
      BY <1>0, <1>11 DEF DestroyFireteam
    <2> QED BY <1>0, <1>11, <2>1 DEF DestroyFireteam
  <1>12. ASSUME NEW c \in Client, NEW l, AddClientToFireteam(c, l)
         PROVE  run' \in [Client -> RunKinds \cup {"none"}] /\ ftNoGhostThisLife' \in [Client -> BOOLEAN]
    BY <1>0, <1>1, <1>12 DEF AddClientToFireteam, rules
  <1>13. ASSUME NEW c \in Client, NEW yes \in BOOLEAN, AnswerApplication(c, yes) PROVE PlainTypes'
    <2>1. application[c] \in Client
      BY <1>13, QuestionTypes DEF AnswerApplication, FireteamInv, QuestionInv
    <2> QED BY <1>0, <1>12, <1>13, <2>1 DEF AnswerApplication, rules
  <1>14. ASSUME NEW c \in Client, NEW yes \in BOOLEAN, AnswerInvitation(c, yes) PROVE PlainTypes'
    BY <1>0, <1>12, <1>14 DEF AnswerInvitation, rules
  <1>15. ASSUME NEW c \in Client, NEW yes \in BOOLEAN, AnswerProposition(c, yes) \/ AnswerPrivate(c, yes)
         PROVE  PlainTypes'
    BY <1>0, <1>15 DEF AnswerProposition, AnswerPrivate, rules
  <1>16. ASSUME NEW c \in Client, Expire(c) PROVE PlainTypes'
    BY <1>0, <1>16 DEF Expire, rules
  <1>17. ASSUME NEW c \in Client, NEW on \in BOOLEAN, SetNoGhost(c, on) PROVE PlainTypes'
    <2>1. ftNoGhostThisLife' \in [Client -> BOOLEAN]
      BY <1>0, <1>17 DEF SetNoGhost
    <2> QED BY <1>0, <1>17, <2>1 DEF SetNoGhost
  <1>18. ASSUME NEW c \in Client,
                \/ \E n \in Limits \cup {NotSet} : SetSaveLimit(c, n)
                \/ SavePosition(c)
                \/ \E k \in RunKinds : StartRun(c, k)
                \/ EndRun(c) \/ StartCountdown(c) \/ EndCountdown(c)
         PROVE  PlainTypes'
    BY <1>0, <1>18 DEF SetSaveLimit, SavePosition, StartRun, EndRun, StartCountdown, EndCountdown, rules
  <1>19. ASSUME NEW c \in Client,
                \/ \E l \in Client : Invite(l, c) \/ Propose(l, c)
                \/ \E f \in Fireteam : ApplyToFireTeam(c, f)
                \/ \E C \in SUBSET Client : InviteMultiple(c, C)
         PROVE  PlainTypes'
    BY <1>0, <1>19 DEF Invite, Propose, ApplyToFireTeam, InviteMultiple, rules
  <1> QED BY <1>2, <1>3, <1>6, <1>7, <1>8, <1>9, <1>10, <1>11, <1>13, <1>14, <1>15, <1>16, <1>17,
             <1>18, <1>19
          DEF FireteamNext, ConnectionStep, TeamStep, AnswerStep, RuleStep

-----------------------------------------------------------------------------
(* Save limits.                                                            *)

LimitInv == saveLimitFt \in [Client -> Nat \cup {NotSet}] /\ TeamLimitHolds

\* Who leaves gives the others the whole limit.
LEMMA LeavingLimits ==
    ASSUME FireteamInv, NEW c \in Client, fireTeams' = TeamsWithout(c),
           saveLimitFt' = LimitsWithout(c) \/ saveLimitFt' = [LimitsWithout(c) EXCEPT ![c] = 0]
    PROVE  LimitInv'
  <1> USE DEF FireteamInv
  <1>1. \A f \in Fireteam : fireTeams[f].saveLimit \in Nat \cup {NotSet}
    BY FireteamAssumption DEF TeamInv, FireteamData
  <1>2. OnFireteam(c) => TeamOf(c) \in Fireteam
    BY DEF OnFireteam, TeamOf
  <1>3. LimitsWithout(c) \in [Client -> Nat \cup {NotSet}]
    <2>1. \A d \in Client : saveLimitFt[d] \in Nat \cup {NotSet}
      BY DEF FireteamTypeOK
    <2> QED BY <1>1, <1>2, <2>1 DEF LimitsWithout
  <1>4. ASSUME NEW f \in Fireteam, NEW d \in Members(f)', fireTeams'[f].saveLimit # NotSet
        PROVE  saveLimitFt'[d] \in 0..fireTeams'[f].saveLimit
    <2>1. /\ d \in Members(f) /\ d # c /\ d \in Client
          /\ fireTeams'[f].saveLimit = fireTeams[f].saveLimit
      BY Leaving, Places DEF SameRules
    <2>2. saveLimitFt'[d] = LimitsWithout(c)[d]
      BY <1>3, <2>1
    <2>3. OnFireteam(c) /\ IsOn(d, TeamOf(c)) => TeamOf(c) = f
      BY <1>2, <2>1, Places, OneTeam
    <2>4. saveLimitFt[d] \in 0..fireTeams[f].saveLimit
      BY <1>4, <2>1 DEF TeamLimitHolds
    <2>5. saveLimitFt'[d] = saveLimitFt[d] \/ saveLimitFt'[d] = fireTeams[f].saveLimit
      BY <2>1, <2>2, <2>3 DEF LimitsWithout
    <2> QED BY <1>1, <1>4, <2>1, <2>4, <2>5 DEF NotSet
  <1> QED BY <1>3, <1>4 DEF LimitInv, TeamLimitHolds, NotSet

\* Who joins gets the limit of the team.
LEMMA JoiningLimits ==
    ASSUME FireteamInv, NEW c \in Client, NEW l, AddClientToFireteam(c, l)
    PROVE  LimitInv'
  <1> USE DEF FireteamInv
  <1>1. CASE UNCHANGED <<fireTeams, rules>>
    BY <1>1 DEF LimitInv, TeamLimitHolds, FireteamTypeOK, Members, rules
  <1>2. CASE \E f \in Fireteam : CanJoin(c, l, f)
    <2>1. PICK t \in Fireteam :
             /\ CanJoin(c, l, t)
             /\ fireTeams' = [fireTeams EXCEPT ![t].joinOrder = Append(@, c)]
             /\ saveLimitFt' = [saveLimitFt EXCEPT ![c] = fireTeams[t].saveLimit]
      BY <1>2 DEF AddClientToFireteam
    <2>2. \A f \in Fireteam : fireTeams[f].saveLimit \in Nat \cup {NotSet}
      BY FireteamAssumption DEF TeamInv, FireteamData
    <2>3. \A f \in Fireteam : Members(f)' = IF f = t THEN Members(f) \cup {c} ELSE Members(f)
      BY <2>1, Joining
    <2>4. \A f \in Fireteam : fireTeams'[f].saveLimit = fireTeams[f].saveLimit
      BY <2>1, Joining DEF SameRules
    <2>5. \A f \in Fireteam : c \notin Members(f)
      BY <2>1, Places DEF CanJoin, OnFireteam
    <2>6. saveLimitFt' \in [Client -> Nat \cup {NotSet}]
      BY <2>1, <2>2 DEF FireteamTypeOK
    <2>7. ASSUME NEW f \in Fireteam, NEW d \in Members(f)', fireTeams'[f].saveLimit # NotSet
          PROVE  saveLimitFt'[d] \in 0..fireTeams'[f].saveLimit
      <3>1. CASE d = c
        BY <2>1, <2>2, <2>3, <2>4, <2>5, <2>7, <3>1 DEF FireteamTypeOK, NotSet
      <3>2. CASE d # c
        BY <2>1, <2>3, <2>4, <2>7, <3>2, Places DEF TeamLimitHolds, FireteamTypeOK
      <3> QED BY <3>1, <3>2
    <2> QED BY <2>6, <2>7 DEF LimitInv, TeamLimitHolds
  <1> QED BY <1>1, <1>2 DEF AddClientToFireteam

LEMMA LimitStep ==
    ASSUME FireteamInv, [FireteamNext]_vars
    PROVE  LimitInv'
  <1> USE DEF FireteamInv
  <1>0. /\ saveLimitFt \in [Client -> Nat \cup {NotSet}]
        /\ \A f \in Fireteam : fireTeams[f].saveLimit \in Nat \cup {NotSet}
        /\ Limits \subseteq Nat
    BY FireteamAssumption DEF TeamInv, FireteamData, FireteamTypeOK
  <1>1. ASSUME UNCHANGED <<fireTeams, saveLimitFt>> PROVE LimitInv'
    BY <1>0, <1>1 DEF LimitInv, TeamLimitHolds, Members
  <1>2. ASSUME \A f \in Fireteam : /\ fireTeams'[f].saveLimit = fireTeams[f].saveLimit
                                   /\ Members(f)' \subseteq Members(f),
               NEW c \in Client,
               saveLimitFt' = saveLimitFt \/ saveLimitFt' = [saveLimitFt EXCEPT ![c] = 0]
        PROVE  LimitInv'
    <2>1. saveLimitFt' \in [Client -> Nat \cup {NotSet}]
      BY <1>0, <1>2
    <2>2. ASSUME NEW f \in Fireteam, NEW d \in Members(f)', fireTeams'[f].saveLimit # NotSet
          PROVE  saveLimitFt'[d] \in 0..fireTeams'[f].saveLimit
      <3>1. d \in Client /\ saveLimitFt[d] \in 0..fireTeams[f].saveLimit
        BY <1>2, <2>2, Places DEF TeamLimitHolds
      <3>2. saveLimitFt'[d] = saveLimitFt[d] \/ saveLimitFt'[d] = 0
        BY <1>0, <1>2, <3>1
      <3> QED BY <1>0, <1>2, <2>2, <3>1, <3>2 DEF NotSet
    <2> QED BY <2>1, <2>2 DEF LimitInv, TeamLimitHolds
  <1>3. ASSUME MapChange PROVE LimitInv'
    <2>1. ASSUME NEW f \in Fireteam PROVE fireTeams'[f].saveLimit = NotSet
      <3>1. CASE fireTeams[f].inuse
        BY <1>3, <3>1 DEF MapChange, TeamInv, FireteamData
      <3>2. CASE ~fireTeams[f].inuse
        BY <1>3, <3>2 DEF MapChange, FreeTeam
      <3> QED BY <3>1, <3>2
    <2> QED BY <1>3, <2>1 DEF MapChange, LimitInv, TeamLimitHolds
  <1>4. ASSUME NEW c \in Client, Connect(c) \/ Reconnect(c) \/ Begin(c) \/ Respawn(c) \/ Disconnect(c)
        PROVE  LimitInv'
    <2>1. CASE Connect(c) \/ (Reconnect(c) /\ ~Playing(c))
      <3>1. /\ saveLimitFt' = [saveLimitFt EXCEPT ![c] = 0]
            /\ UNCHANGED fireTeams
        BY <2>1 DEF Connect, Reconnect
      <3> QED BY <1>2, <3>1 DEF Members
    <2>2. CASE (Reconnect(c) /\ Playing(c)) \/ Disconnect(c)
      BY <2>2, LeavingLimits DEF Reconnect, Disconnect, RemoveClientFromFireteams
    <2>3. CASE Begin(c) \/ Respawn(c)
      BY <1>1, <2>3 DEF Begin, Respawn
    <2> QED BY <1>4, <2>1, <2>2, <2>3
  <1>5. ASSUME NEW c \in Client, Leave(c) \/ \E l \in Client : Kick(l, c) PROVE LimitInv'
    BY <1>5, LeavingLimits DEF Leave, Kick, RemoveClientFromFireteams
  <1>6. ASSUME NEW c \in Client, RegisterFireteam(c) PROVE LimitInv'
    <2>1. PICK t \in Fireteam, n \in Fireteam :
             /\ ~fireTeams[t].inuse /\ FreeIdent(n)
             /\ fireTeams' = [fireTeams EXCEPT ![t] = [inuse |-> TRUE, ident |-> n,
                             joinOrder |-> <<c>>, priv |-> FALSE,
                             saveLimit |-> NotSet, noGhost |-> FALSE]]
      BY <1>6 DEF RegisterFireteam
    <2>2. /\ \A f \in Fireteam : f # t => fireTeams'[f] = fireTeams[f] /\ Members(f)' = Members(f)
          /\ fireTeams'[t].saveLimit = NotSet
      BY <1>6, <2>1, Creating DEF RegisterFireteam
    <2>3. saveLimitFt' = saveLimitFt
      BY <1>6 DEF RegisterFireteam, rules
    <2> QED BY <1>0, <2>2, <2>3 DEF LimitInv, TeamLimitHolds
  <1>7. ASSUME NEW l \in Client, DestroyFireteam(l) PROVE LimitInv'
    <2>1. PICK t \in Fireteam :
        /\ fireTeams' = [fireTeams EXCEPT ![t].joinOrder = <<>>, ![t].inuse = FALSE, ![t].ident = -1]
        /\ saveLimitFt' = [d \in Client |->
                IF d # l /\ IsOn(d, t) /\ fireTeams[t].saveLimit # NotSet
                THEN fireTeams[t].saveLimit ELSE saveLimitFt[d]]
      BY <1>7 DEF DestroyFireteam
    <2>2. /\ \A f \in Fireteam : f # t => fireTeams'[f] = fireTeams[f] /\ Members(f)' = Members(f)
          /\ Members(t)' = {}
      BY <2>1, Disbanding
    <2>3. saveLimitFt' \in [Client -> Nat \cup {NotSet}]
      BY <1>0, <2>1
    <2>4. ASSUME NEW f \in Fireteam, NEW d \in Members(f)' PROVE saveLimitFt'[d] = saveLimitFt[d]
      BY <2>1, <2>2, Places, OneTeam
    <2> QED BY <2>2, <2>3, <2>4 DEF LimitInv, TeamLimitHolds
  <1>8. ASSUME NEW c \in Client, NEW yes \in BOOLEAN, AnswerApplication(c, yes) PROVE LimitInv'
    <2>1. application[c] \in Client
      BY <1>8, QuestionTypes DEF AnswerApplication, QuestionInv
    <2> QED BY <1>1, <1>8, <2>1, JoiningLimits DEF AnswerApplication, rules
  <1>9. ASSUME NEW c \in Client, NEW yes \in BOOLEAN, AnswerInvitation(c, yes) PROVE LimitInv'
    BY <1>1, <1>9, JoiningLimits DEF AnswerInvitation, rules
  <1>10. ASSUME NEW c \in Client, NEW yes \in BOOLEAN, AnswerPrivate(c, yes) PROVE LimitInv'
    <2>1. ASSUME NEW f \in Fireteam
          PROVE  fireTeams'[f].saveLimit = fireTeams[f].saveLimit /\ fireTeams'[f].joinOrder = fireTeams[f].joinOrder
      <3>1. fireTeams[f] \in FireteamData
        BY DEF TeamInv
      <3> QED BY <1>10, <3>1 DEF AnswerPrivate, FireteamData
    <2>2. \A f \in Fireteam : Members(f)' = Members(f)
      BY <2>1 DEF Members
    <2> QED BY <1>2, <1>10, <2>1, <2>2 DEF AnswerPrivate, rules
  <1>11. ASSUME NEW c \in Client, NEW n \in Limits \cup {NotSet}, SetSaveLimit(c, n) PROVE LimitInv'
    <2>1. PICK t \in Fireteam :
             /\ fireTeams' = [fireTeams EXCEPT ![t].saveLimit = n]
             /\ saveLimitFt' = [d \in Client |-> IF IsOn(d, t) THEN n ELSE saveLimitFt[d]]
      BY <1>11 DEF SetSaveLimit
    <2>2. \A f \in Fireteam : f # t => fireTeams'[f] = fireTeams[f]
      BY <2>1 DEF TeamInv
    <2>3. fireTeams'[t].saveLimit = n /\ fireTeams'[t].joinOrder = fireTeams[t].joinOrder
      BY <2>1 DEF TeamInv, FireteamData
    <2>4. \A f \in Fireteam : Members(f)' = Members(f)
      BY <2>2, <2>3 DEF Members
    <2>5. saveLimitFt' \in [Client -> Nat \cup {NotSet}]
      BY <1>0, <2>1
    <2>6. ASSUME NEW f \in Fireteam, NEW d \in Members(f), f # t PROVE saveLimitFt'[d] = saveLimitFt[d]
      BY <2>1, <2>6, Places, OneTeam
    <2>7. ASSUME NEW d \in Members(t) PROVE saveLimitFt'[d] = n
      BY <2>1, Places
    <2>8. n # NotSet => n \in 0..n
      <3>1. n # NotSet => n \in Nat
        BY <1>0
      <3> QED BY <3>1
    <2> QED BY <2>2, <2>3, <2>4, <2>5, <2>6, <2>7, <2>8 DEF LimitInv, TeamLimitHolds
  <1>12. ASSUME NEW c \in Client, NEW on \in BOOLEAN, SetNoGhost(c, on) PROVE LimitInv'
    <2>1. PICK t \in Fireteam : fireTeams' = [fireTeams EXCEPT ![t].noGhost = on]
      BY <1>12 DEF SetNoGhost
    <2>2. \A f \in Fireteam : f # t => fireTeams'[f] = fireTeams[f]
      BY <2>1 DEF TeamInv
    <2>3. fireTeams'[t].saveLimit = fireTeams[t].saveLimit /\ fireTeams'[t].joinOrder = fireTeams[t].joinOrder
      BY <2>1 DEF TeamInv, FireteamData
    <2>4. \A f \in Fireteam : Members(f)' = Members(f)
      BY <2>2, <2>3 DEF Members
    <2> QED BY <1>2, <1>12, <2>2, <2>3, <2>4 DEF SetNoGhost
  <1>13. ASSUME NEW c \in Client, SavePosition(c) PROVE LimitInv'
    <2>1. PICK t \in Fireteam :
        /\ IsOn(c, t)
        /\ \/ /\ fireTeams[t].saveLimit = NotSet
              /\ saveLimitFt' = [saveLimitFt EXCEPT ![c] = NotSet]
           \/ /\ fireTeams[t].saveLimit # NotSet
              /\ saveLimitFt[c] # 0
              /\ saveLimitFt' = [saveLimitFt EXCEPT ![c] = @ - 1]
      BY <1>13 DEF SavePosition
    <2>2. c \in Members(t)
      BY <2>1, Places
    <2>3. UNCHANGED fireTeams /\ \A f \in Fireteam : Members(f)' = Members(f)
      BY <1>13 DEF SavePosition, Members
    <2>4. \A f \in Fireteam : c \in Members(f) => f = t
      BY <2>2, OneTeam
    <2>5. CASE fireTeams[t].saveLimit = NotSet
      BY <1>0, <2>1, <2>3, <2>4, <2>5, Places DEF LimitInv, TeamLimitHolds
    <2>6. CASE fireTeams[t].saveLimit # NotSet
      <3>1. saveLimitFt[c] \in 0..fireTeams[t].saveLimit /\ saveLimitFt[c] # 0 /\ fireTeams[t].saveLimit \in Nat
        BY <1>0, <2>1, <2>2, <2>6 DEF TeamLimitHolds
      <3>2. saveLimitFt'[c] = saveLimitFt[c] - 1 /\ \A d \in Client : d # c => saveLimitFt'[d] = saveLimitFt[d]
        BY <1>0, <2>1, <2>6
      <3>3. saveLimitFt'[c] \in 0..fireTeams[t].saveLimit
        BY <3>1, <3>2
      <3>4. saveLimitFt' \in [Client -> Nat \cup {NotSet}]
        BY <1>0, <2>1, <2>6, <3>1
      <3> QED BY <2>3, <2>4, <3>2, <3>3, <3>4, Places DEF LimitInv, TeamLimitHolds
    <2> QED BY <2>5, <2>6
  <1>14. ASSUME TeamStep PROVE LimitInv'
    BY <1>1, <1>5, <1>6, <1>7, <1>14
       DEF TeamStep, Invite, InviteMultiple, Propose, ApplyToFireTeam, rules
  <1>15. ASSUME AnswerStep PROVE LimitInv'
    BY <1>1, <1>8, <1>9, <1>10, <1>15 DEF AnswerStep, Expire, AnswerProposition, rules
  <1>16. ASSUME RuleStep PROVE LimitInv'
    BY <1>1, <1>11, <1>12, <1>13, <1>16
       DEF RuleStep, StartRun, EndRun, StartCountdown, EndCountdown, rules
  <1> QED BY <1>1, <1>3, <1>4, <1>14, <1>15, <1>16 DEF FireteamNext, ConnectionStep, vars, rules

-----------------------------------------------------------------------------
(* Runs and noghost.                                                       *)

\* A spawn point that starts runs breaks this (run FireteamsSpawn).
LEMMA LifeStep ==
    ASSUME ~SpawnStartsRun, FireteamInv, LifeInv, NoGhostHasNoRun, [FireteamNext]_vars
    PROVE  LifeInv' /\ NoGhostHasNoRun'
  <1> DEFINE Goal == LifeInv' /\ NoGhostHasNoRun'
  <1>0. /\ TeamInv /\ QuestionInv /\ LifeInv /\ NoGhostHasNoRun /\ PlainTypes
        /\ \A f \in Fireteam : fireTeams[f].noGhost \in BOOLEAN
        /\ \A f \in Fireteam : Members(f) \subseteq Client
    BY Places DEF FireteamInv, FireteamTypeOK, PlainTypes, TeamInv, FireteamData
  \* What ends runs and lives, marks lives, and takes members or noghost away.
  <1>1. ASSUME \A f \in Fireteam : /\ fireTeams'[f].noGhost => fireTeams[f].noGhost
                                   /\ Members(f)' \subseteq Members(f),
               \A d \in Client : /\ run'[d] \in {run[d], "none"}
                                 /\ Playing(d)' => Playing(d) /\ (ftNoGhostThisLife[d] => ftNoGhostThisLife'[d])
                                 /\ ~Playing(d)' /\ Playing(d) => run'[d] = "none"
        PROVE  Goal
    <2>1. \A d \in Client : run'[d] # "none" => Playing(d)'
      BY <1>0, <1>1 DEF LifeInv
    <2>2. ASSUME NEW f \in Fireteam, NEW d \in Members(f)', fireTeams'[f].noGhost
          PROVE  (Playing(d)' => ftNoGhostThisLife'[d]) /\ run'[d] # "plain"
      BY <1>0, <1>1, <2>2 DEF LifeInv, NoGhostHasNoRun
    <2> QED BY <2>1, <2>2 DEF LifeInv, NoGhostHasNoRun
  <1>2. ASSUME UNCHANGED <<status, fireTeams, ftNoGhostThisLife>>,
               \A d \in Client : run'[d] \in {run[d], "none"}
        PROVE  Goal
    BY <1>1, <1>2 DEF Members, Playing
  <1>3. ASSUME MapChange PROVE Goal
    <2>1. \A f \in Fireteam : Members(f)' = Members(f) /\ ~fireTeams'[f].noGhost
      <3>1. ASSUME NEW f \in Fireteam, fireTeams[f].inuse
            PROVE  fireTeams'[f].joinOrder = fireTeams[f].joinOrder /\ ~fireTeams'[f].noGhost
        BY <1>0, <1>3, <3>1 DEF MapChange, TeamInv, FireteamData
      <3>2. ASSUME NEW f \in Fireteam, ~fireTeams[f].inuse
            PROVE  fireTeams'[f].joinOrder = fireTeams[f].joinOrder /\ ~fireTeams'[f].noGhost
        BY <1>0, <1>3, <3>2 DEF MapChange, TeamInv, WellFormed, FreeTeam
      <3> QED BY <3>1, <3>2 DEF Members
    <2>2. \A d \in Client : run'[d] = "none" /\ ~Playing(d)'
      BY <1>3 DEF MapChange, Playing
    <2> QED BY <1>1, <2>1, <2>2
  <1>4. ASSUME NEW c \in Client, fireTeams' = TeamsWithout(c) \/ UNCHANGED fireTeams
        PROVE  \A f \in Fireteam : /\ fireTeams'[f].noGhost => fireTeams[f].noGhost
                                   /\ Members(f)' \subseteq Members(f)
    <2>1. CASE fireTeams' = TeamsWithout(c)
      BY <1>0, <2>1, Leaving DEF SameRules
    <2>2. CASE UNCHANGED fireTeams
      BY <2>2 DEF Members
    <2> QED BY <1>4, <2>1, <2>2
  <1>5. ASSUME NEW c \in Client, Connect(c) \/ Reconnect(c) \/ Disconnect(c) PROVE Goal
    <2>1. fireTeams' = TeamsWithout(c) \/ UNCHANGED fireTeams
      BY <1>5 DEF Connect, Reconnect, Disconnect, RemoveClientFromFireteams
    <2>2. /\ status' = [status EXCEPT ![c] = "connecting"] \/ status' = [status EXCEPT ![c] = "gone"]
          /\ run' = [run EXCEPT ![c] = "none"]
          /\ ftNoGhostThisLife' = [ftNoGhostThisLife EXCEPT ![c] = FALSE] \/ UNCHANGED ftNoGhostThisLife
      BY <1>5 DEF Connect, Reconnect, Disconnect
    <2>3. \A d \in Client : /\ run'[d] \in {run[d], "none"}
                            /\ Playing(d)' => Playing(d) /\ (ftNoGhostThisLife[d] => ftNoGhostThisLife'[d])
                            /\ ~Playing(d)' /\ Playing(d) => run'[d] = "none"
      BY <1>0, <2>2 DEF PlainTypes, Playing
    <2> QED BY <1>1, <1>4, <2>1, <2>3
  <1>6. ASSUME NEW c \in Client, Begin(c) \/ Respawn(c) PROVE Goal
    <2>1. /\ status' = [status EXCEPT ![c] = "playing"] \/ UNCHANGED status
          /\ UNCHANGED fireTeams
          /\ ClientSpawn(c)
      BY <1>6 DEF Begin, Respawn
    <2>2. run' = run
      BY <1>0, <2>1 DEF ClientSpawn, PlainTypes
    <2>3. /\ ftNoGhostThisLife'[c] <=> \E f \in Fireteam : IsOn(c, f) /\ fireTeams[f].noGhost
          /\ \A d \in Client : d # c => ftNoGhostThisLife'[d] = ftNoGhostThisLife[d]
      BY <1>0, <2>1 DEF ClientSpawn, PlainTypes
    <2>4. \A d \in Client : /\ d # c => status'[d] = status[d]
                            /\ Playing(d) => Playing(d)'
      BY <1>0, <2>1 DEF PlainTypes, Playing
    <2>5. \A f \in Fireteam : Members(f)' = Members(f)
      BY <2>1 DEF Members
    <2>6. ASSUME NEW f \in Fireteam, c \in Members(f), fireTeams[f].noGhost PROVE ftNoGhostThisLife'[c]
      BY <1>0, <2>3, <2>6, Places
    <2>7. LifeInv'
      BY <1>0, <2>1, <2>2, <2>3, <2>4, <2>5, <2>6 DEF LifeInv, Playing
    <2>8. NoGhostHasNoRun'
      BY <1>0, <2>1, <2>2, <2>5 DEF NoGhostHasNoRun
    <2> QED BY <2>7, <2>8
  <1>7. ASSUME NEW c \in Client, Leave(c) \/ \E l \in Client : Kick(l, c) PROVE Goal
    <2>1. fireTeams' = TeamsWithout(c) /\ UNCHANGED <<status, ftNoGhostThisLife, run>>
      BY <1>7 DEF Leave, Kick, RemoveClientFromFireteams
    <2> QED BY <1>1, <1>4, <2>1 DEF Playing
  <1>8. ASSUME NEW c \in Client, RegisterFireteam(c) PROVE Goal
    <2>1. PICK t \in Fireteam, n \in Fireteam :
             /\ ~fireTeams[t].inuse /\ FreeIdent(n)
             /\ fireTeams' = [fireTeams EXCEPT ![t] = [inuse |-> TRUE, ident |-> n,
                             joinOrder |-> <<c>>, priv |-> FALSE,
                             saveLimit |-> NotSet, noGhost |-> FALSE]]
      BY <1>8 DEF RegisterFireteam
    <2>2. /\ \A f \in Fireteam : f # t => fireTeams'[f] = fireTeams[f] /\ Members(f)' = Members(f)
          /\ ~fireTeams'[t].noGhost
      BY <1>0, <1>8, <2>1, Creating DEF RegisterFireteam
    <2>3. UNCHANGED <<status, ftNoGhostThisLife, run>>
      BY <1>8 DEF RegisterFireteam, rules
    <2> QED BY <1>0, <2>2, <2>3 DEF LifeInv, NoGhostHasNoRun, Playing
  <1>9. ASSUME NEW l \in Client, DestroyFireteam(l) PROVE Goal
    <2>1. PICK t \in Fireteam :
             fireTeams' = [fireTeams EXCEPT ![t].joinOrder = <<>>, ![t].inuse = FALSE, ![t].ident = -1]
      BY <1>9 DEF DestroyFireteam
    <2>2. /\ \A f \in Fireteam : f # t => fireTeams'[f] = fireTeams[f] /\ Members(f)' = Members(f)
          /\ Members(t)' = {}
      BY <1>0, <2>1, Disbanding
    <2>3. UNCHANGED <<status, ftNoGhostThisLife, run>>
      BY <1>9 DEF DestroyFireteam
    <2> QED BY <1>0, <2>2, <2>3 DEF LifeInv, NoGhostHasNoRun, Playing
  <1>10. ASSUME NEW c \in Client, NEW l, Playing(c), AddClientToFireteam(c, l), status' = status PROVE Goal
    <2>1. CASE UNCHANGED <<fireTeams, rules>>
      BY <1>2, <1>10, <2>1 DEF rules
    <2>2. CASE \E f \in Fireteam : CanJoin(c, l, f)
      <3>1. PICK t \in Fireteam :
               /\ CanJoin(c, l, t)
               /\ fireTeams' = [fireTeams EXCEPT ![t].joinOrder = Append(@, c)]
               /\ ftNoGhostThisLife' = [ftNoGhostThisLife EXCEPT ![c] = @ \/ fireTeams[t].noGhost]
               /\ run' = [run EXCEPT ![c] = IF fireTeams[t].noGhost /\ @ = "plain" THEN "none" ELSE @]
        BY <1>10, <2>2 DEF AddClientToFireteam
      <3>2. /\ \A f \in Fireteam : Members(f)' = IF f = t THEN Members(f) \cup {c} ELSE Members(f)
            /\ \A f \in Fireteam : fireTeams'[f].noGhost = fireTeams[f].noGhost
        BY <1>0, <3>1, Joining DEF SameRules
      <3>3. \A f \in Fireteam : c \notin Members(f)
        BY <1>0, <3>1, Places DEF CanJoin, OnFireteam
      <3>4. \A d \in Client : d # c => run'[d] = run[d] /\ ftNoGhostThisLife'[d] = ftNoGhostThisLife[d]
        BY <1>0, <3>1 DEF PlainTypes
      <3>5. fireTeams[t].noGhost => ftNoGhostThisLife'[c] /\ run'[c] # "plain"
        BY <1>0, <3>1 DEF PlainTypes
      <3>6. \A d \in Client : run'[d] # "none" => Playing(d)
        BY <1>0, <1>10, <3>4 DEF LifeInv
      <3>7. ASSUME NEW f \in Fireteam, NEW d \in Members(f)', fireTeams'[f].noGhost
            PROVE  (Playing(d) => ftNoGhostThisLife'[d]) /\ run'[d] # "plain"
        <4>1. CASE d = c
          BY <3>2, <3>3, <3>5, <3>7, <4>1
        <4>2. CASE d # c
          BY <1>0, <3>2, <3>4, <3>7, <4>2 DEF LifeInv, NoGhostHasNoRun
        <4> QED BY <4>1, <4>2
      <3> QED BY <1>10, <3>6, <3>7 DEF LifeInv, NoGhostHasNoRun, Playing
    <2> QED BY <1>10, <2>1, <2>2 DEF AddClientToFireteam
  <1>11. ASSUME NEW l \in Client, NEW yes \in BOOLEAN, AnswerApplication(l, yes) PROVE Goal
    <2>1. application[l] \in Client
      BY <1>0, <1>11, QuestionTypes DEF AnswerApplication, QuestionInv
    <2> QED BY <1>2, <1>10, <1>11, <2>1 DEF AnswerApplication, rules
  <1>12. ASSUME NEW c \in Client, NEW yes \in BOOLEAN, AnswerInvitation(c, yes) PROVE Goal
    BY <1>2, <1>10, <1>12 DEF AnswerInvitation, rules
  <1>13. ASSUME NEW c \in Client, NEW yes \in BOOLEAN, AnswerPrivate(c, yes) PROVE Goal
    <2>1. ASSUME NEW f \in Fireteam
          PROVE  fireTeams'[f].noGhost = fireTeams[f].noGhost /\ fireTeams'[f].joinOrder = fireTeams[f].joinOrder
      <3>1. fireTeams[f] \in FireteamData
        BY <1>0 DEF TeamInv
      <3> QED BY <1>13, <3>1 DEF AnswerPrivate, FireteamData
    <2>2. UNCHANGED <<status, ftNoGhostThisLife, run>>
      BY <1>13 DEF AnswerPrivate, rules
    <2> QED BY <1>1, <2>1, <2>2 DEF Playing, Members
  <1>14. ASSUME NEW c \in Client, NEW n \in Limits \cup {NotSet}, SetSaveLimit(c, n) PROVE Goal
    <2>1. PICK t \in Fireteam : fireTeams' = [fireTeams EXCEPT ![t].saveLimit = n]
      BY <1>14 DEF SetSaveLimit
    <2>2. \A f \in Fireteam : fireTeams'[f].noGhost = fireTeams[f].noGhost /\ fireTeams'[f].joinOrder = fireTeams[f].joinOrder
      BY <1>0, <2>1 DEF TeamInv, FireteamData
    <2>3. UNCHANGED <<status, ftNoGhostThisLife, run>>
      BY <1>14 DEF SetSaveLimit
    <2> QED BY <1>1, <2>2, <2>3 DEF Playing, Members
  <1>15. ASSUME NEW c \in Client, NEW on \in BOOLEAN, SetNoGhost(c, on) PROVE Goal
    <2>1. PICK t \in Fireteam :
             /\ on => \A d \in Members(t) : run[d] # "plain"
             /\ fireTeams' = [fireTeams EXCEPT ![t].noGhost = on]
             /\ ftNoGhostThisLife' = [d \in Client |-> ftNoGhostThisLife[d] \/ (on /\ IsOn(d, t))]
      BY <1>15 DEF SetNoGhost
    <2>2. \A f \in Fireteam : f # t => fireTeams'[f] = fireTeams[f]
      BY <1>0, <2>1 DEF TeamInv
    <2>3. fireTeams'[t].noGhost = on /\ fireTeams'[t].joinOrder = fireTeams[t].joinOrder
      BY <1>0, <2>1 DEF TeamInv, FireteamData
    <2>4. \A f \in Fireteam : Members(f)' = Members(f)
      BY <2>2, <2>3 DEF Members
    <2>5. UNCHANGED <<status, run>>
      BY <1>15 DEF SetNoGhost
    <2>6. /\ \A d \in Client : ftNoGhostThisLife[d] => ftNoGhostThisLife'[d]
          /\ on => \A d \in Members(t) : ftNoGhostThisLife'[d]
      BY <1>0, <2>1, Places
    <2>7. LifeInv'
      BY <1>0, <2>2, <2>3, <2>4, <2>5, <2>6 DEF LifeInv, Playing
    <2>8. NoGhostHasNoRun'
      BY <1>0, <2>1, <2>2, <2>3, <2>4, <2>5 DEF NoGhostHasNoRun
    <2> QED BY <2>7, <2>8
  <1>16. ASSUME NEW c \in Client, NEW k \in RunKinds, StartRun(c, k) PROVE Goal
    <2>1. /\ run'[c] = k /\ (ftNoGhostThisLife[c] => k = "noghost") /\ Playing(c)
          /\ \A d \in Client : d # c => run'[d] = run[d]
      BY <1>0, <1>16 DEF StartRun, PlainTypes
    <2>2. UNCHANGED <<status, fireTeams, ftNoGhostThisLife>>
      BY <1>16 DEF StartRun
    <2>3. \A f \in Fireteam : Members(f)' = Members(f)
      BY <2>2 DEF Members
    <2>4. LifeInv'
      BY <1>0, <2>1, <2>2, <2>3 DEF LifeInv, Playing
    <2>5. NoGhostHasNoRun'
      BY <1>0, <2>1, <2>2, <2>3 DEF LifeInv, NoGhostHasNoRun
    <2> QED BY <2>4, <2>5
  <1>17. ASSUME NEW c \in Client, EndRun(c) PROVE Goal
    <2>1. \A d \in Client : run'[d] \in {run[d], "none"}
      BY <1>0, <1>17 DEF EndRun, PlainTypes
    <2> QED BY <1>2, <1>17, <2>1 DEF EndRun
  <1>18. ASSUME TeamStep PROVE Goal
    BY <1>2, <1>7, <1>8, <1>9, <1>18
       DEF TeamStep, Invite, InviteMultiple, Propose, ApplyToFireTeam, rules
  <1>19. ASSUME AnswerStep PROVE Goal
    BY <1>2, <1>11, <1>12, <1>13, <1>19 DEF AnswerStep, Expire, AnswerProposition, rules
  <1>20. ASSUME RuleStep PROVE Goal
    BY <1>2, <1>14, <1>15, <1>16, <1>17, <1>20
       DEF RuleStep, SavePosition, StartCountdown, EndCountdown, rules
  <1> QED BY <1>2, <1>3, <1>5, <1>6, <1>18, <1>19, <1>20 DEF FireteamNext, ConnectionStep, vars, rules

-----------------------------------------------------------------------------
(* The theorems.                                                           *)

LEMMA InvStep == FireteamInv /\ [FireteamNext]_vars => FireteamInv'
  <1> SUFFICES ASSUME FireteamInv, [FireteamNext]_vars PROVE FireteamInv'
    OBVIOUS
  <1>1. TeamInv' /\ MembersPresent' /\ QuestionInv' /\ PlainTypes' /\ LimitInv'
        /\ PromptIsForLeader' /\ CountdownHasTeam'
    BY TeamsStep, QuestionStep, PlainStep, LimitStep, PromptsStep
  <1>2. FireteamTypeOK'
    BY <1>1 DEF FireteamTypeOK, QuestionInv, PlainTypes, LimitInv, TeamInv
  <1> QED BY <1>1, <1>2 DEF FireteamInv, LimitInv

LEMMA Invariance == FireteamSpec => []FireteamInv
  BY InitInv, InvStep, PTL DEF FireteamSpec

\* Every variable has its type, for any clients, teams, limits and runs; the saves a team
\* leaves its members never fall below zero (SaveSystem::save, etj_save_system.cpp:174).
THEOREM FireteamTypeCorrect == FireteamSpec => []FireteamTypeOK
  <1>1. FireteamInv => FireteamTypeOK
    BY DEF FireteamInv
  <1> QED BY <1>1, Invariance, PTL

\* No client is on two teams or twice on one, and a team in use has a leader, room,
\* connected members and a name of its own, so the game never ends for an invalid leader
\* (G_AddClientToFireteam, G_ApplyToFireTeam).
THEOREM TeamsCorrect == FireteamSpec => []TeamsAreValid
  <1>1. FireteamInv => TeamsAreValid
    BY DEF FireteamInv, TeamInv, WellFormed, MembersPresent, TeamsAreValid
  <1> QED BY <1>1, Invariance, PTL

\* The members of a team with a save limit have at most the limit left.
THEOREM TeamLimitCorrect == FireteamSpec => []TeamLimitHolds
  <1>1. FireteamInv => TeamLimitHolds
    BY DEF FireteamInv
  <1> QED BY <1>1, Invariance, PTL

\* Only the leader of a team is asked whether it is to be private, and no countdown goes on
\* for a client that is on no team.
THEOREM MembershipCorrect == FireteamSpec => []EndsWithMembership
  <1>1. FireteamInv => EndsWithMembership
    BY DEF FireteamInv, EndsWithMembership
  <1> QED BY <1>1, Invariance, PTL

\* Where no spawn point starts a run, nobody makes a run that forbids noghost on a team
\* that has it (canEnableFtNoGhost, canStartTimerun).
THEOREM NoGhostCorrect ==
    ASSUME ~SpawnStartsRun
    PROVE  FireteamSpec => []NoGhostHasNoRun
  <1>1. FireteamInv /\ LifeInv /\ NoGhostHasNoRun /\ [FireteamNext]_vars => LifeInv' /\ NoGhostHasNoRun'
    BY LifeStep
  <1> QED BY <1>1, InitInv, Invariance, PTL DEF FireteamSpec

\* Who gets onto a team makes it, or is let in by an answer to a question between its slot and
\* the slot of the client that leads the team then. It says nothing of who was in the two
\* slots when the question was asked; the run with FireteamQuestions shows that may be others.
THEOREM AdmissionCorrect == FireteamSpec => AdmittedByLeader
  <1>1. FireteamInv /\ [FireteamNext]_vars =>
           [\A f \in Fireteam : \A c \in Members(f)' \ Members(f) :
               \/ ~fireTeams[f].inuse /\ fireTeams'[f].joinOrder = <<c>>
               \/ \E l \in Client : /\ Leads(l, f)
                                    /\ application[l] = c \/ invitation[c] = l]_vars
    <2> SUFFICES ASSUME FireteamInv, [FireteamNext]_vars,
                        NEW f \in Fireteam, NEW c \in Members(f)' \ Members(f)
                 PROVE  \/ ~fireTeams[f].inuse /\ fireTeams'[f].joinOrder = <<c>>
                        \/ \E l \in Client : /\ Leads(l, f)
                                             /\ application[l] = c \/ invitation[c] = l
      OBVIOUS
    <2>0. TeamInv
      BY DEF FireteamInv
    <2>1. CASE JoinMove
      <3>1. PICK d \in Client, l \in Client, t \in Fireteam :
               /\ CanJoin(d, l, t)
               /\ application[l] = d \/ invitation[d] = l
               /\ fireTeams' = [fireTeams EXCEPT ![t].joinOrder = Append(@, d)]
        BY <2>1 DEF JoinMove
      <3>2. \A g \in Fireteam : Members(g)' = IF g = t THEN Members(g) \cup {d} ELSE Members(g)
        BY <2>0, <3>1, Joining
      <3>3. f = t /\ c = d
        BY <3>2
      <3> QED BY <3>1, <3>3 DEF CanJoin
    <2>2. CASE CreateMove
      <3>1. PICK d \in Client, t \in Fireteam :
               /\ ~fireTeams[t].inuse /\ fireTeams'[t].joinOrder = <<d>> /\ Members(t)' = {d}
               /\ \A g \in Fireteam : g # t => Members(g)' = Members(g)
        BY <2>0, <2>2, Creating DEF CreateMove
      <3> QED BY <3>1
    <2>3. CASE LeaveMove
      BY <2>0, <2>3, Leaving DEF LeaveMove
    <2>4. CASE DisbandMove
      <3>1. PICK t \in Fireteam : /\ Members(t)' = {}
                                 /\ \A g \in Fireteam : g # t => Members(g)' = Members(g)
        BY <2>0, <2>4, Disbanding DEF DisbandMove
      <3> QED BY <3>1
    <2>5. CASE StayMove
      BY <2>0, <2>5, Staying DEF StayMove
    <2> QED BY <2>1, <2>2, <2>3, <2>4, <2>5, Moves
  <1> QED BY <1>1, Invariance, PTL DEF FireteamSpec, AdmittedByLeader

\* The members of a team keep the order they joined in, whoever leaves or joins.
THEOREM SeniorityCorrect == FireteamSpec => SeniorityKept
  <1>1. FireteamInv /\ [FireteamNext]_vars =>
           [\A f \in Fireteam : fireTeams[f].inuse /\ fireTeams'[f].inuse =>
               \A i, j \in DOMAIN fireTeams'[f].joinOrder :
                   (i < j /\ fireTeams'[f].joinOrder[j] \in Members(f)) =>
                       \E k, m \in DOMAIN fireTeams[f].joinOrder :
                           /\ k < m
                           /\ fireTeams[f].joinOrder[k] = fireTeams'[f].joinOrder[i]
                           /\ fireTeams[f].joinOrder[m] = fireTeams'[f].joinOrder[j]]_vars
    <2> SUFFICES ASSUME FireteamInv, [FireteamNext]_vars,
                        NEW f \in Fireteam, fireTeams[f].inuse, fireTeams'[f].inuse,
                        NEW i \in DOMAIN fireTeams'[f].joinOrder, NEW j \in DOMAIN fireTeams'[f].joinOrder,
                        i < j, fireTeams'[f].joinOrder[j] \in Members(f)
                 PROVE  \E k, m \in DOMAIN fireTeams[f].joinOrder :
                           /\ k < m
                           /\ fireTeams[f].joinOrder[k] = fireTeams'[f].joinOrder[i]
                           /\ fireTeams[f].joinOrder[m] = fireTeams'[f].joinOrder[j]
      OBVIOUS
    <2> DEFINE order == fireTeams[f].joinOrder
               after == fireTeams'[f].joinOrder
    <2>0. TeamInv /\ TeamInv'
      BY TeamsStep DEF FireteamInv
    <2>o. /\ order \in Seq(Client) /\ DOMAIN order = 1..Len(order) /\ Len(order) \in Nat
          /\ after \in Seq(Client) /\ DOMAIN after = 1..Len(after) /\ Len(after) \in Nat
      BY <2>0 DEF TeamInv, FireteamData
    <2>s. CASE after = order
      BY <2>s
    <2>1. CASE JoinMove
      <3>1. PICK d \in Client, l \in Client, t \in Fireteam :
               /\ CanJoin(d, l, t)
               /\ fireTeams' = [fireTeams EXCEPT ![t].joinOrder = Append(@, d)]
        BY <2>1 DEF JoinMove
      <3>2. CASE f # t
        BY <2>0, <2>s, <3>1, <3>2 DEF TeamInv
      <3>3. CASE f = t
        <4>1. /\ \A n \in 1..Len(order) : after[n] = order[n]
              /\ after[Len(order) + 1] = d /\ Len(after) = Len(order) + 1
          <5>0. TeamInv /\ CanJoin(d, l, t)
            BY <2>0, <3>1
          <5>1. fireTeams' = [fireTeams EXCEPT ![t].joinOrder = Append(@, d)]
            BY <3>1
          <5>2. /\ \A g \in Fireteam : \A n \in 1..Len(fireTeams[g].joinOrder) :
                      fireTeams'[g].joinOrder[n] = fireTeams[g].joinOrder[n]
                /\ fireTeams'[t].joinOrder[Len(fireTeams[t].joinOrder) + 1] = d
                /\ Len(fireTeams'[t].joinOrder) = Len(fireTeams[t].joinOrder) + 1
            BY ONLY <5>0, <5>1, Joining
          <5> QED BY <3>3, <5>2
        <4>2. d \notin Members(f)
          BY <2>0, <3>1, Places DEF CanJoin, OnFireteam
        <4>3. j # Len(order) + 1
          BY <4>1, <4>2
        <4>4. i \in 1..Len(order) /\ j \in 1..Len(order)
          BY <2>o, <4>1, <4>3
        <4> QED BY <2>o, <4>1, <4>4
      <3> QED BY <3>2, <3>3
    <2>2. CASE CreateMove
      BY <2>0, <2>2, <2>s, Creating DEF CreateMove
    <2>3. CASE LeaveMove
      <3>1. PICK c \in Client : fireTeams' = TeamsWithout(c)
        BY <2>3 DEF LeaveMove
      <3>2. CASE c \notin Members(f)
        BY <2>0, <2>s, <3>1, <3>2, Places DEF TeamsWithout
      <3>3. CASE c \in Members(f)
        <4>1. PICK n \in 1..Len(order) :
                 /\ Len(after) = Len(order) - 1
                 /\ \A x \in 1..(Len(order) - 1) : after[x] = order[IF x < n THEN x ELSE x + 1]
          BY <2>0, <3>1, <3>3, TeamAfterLeaving
        <4> DEFINE k == IF i < n THEN i ELSE i + 1
                   m == IF j < n THEN j ELSE j + 1
        <4>2. i \in 1..(Len(order) - 1) /\ j \in 1..(Len(order) - 1)
          BY <2>o, <4>1
        <4>3. k \in 1..Len(order) /\ m \in 1..Len(order) /\ k < m
          BY <2>o, <4>2
        <4>4. after[i] = order[k] /\ after[j] = order[m]
          BY <4>1, <4>2
        <4> QED BY <2>o, <4>3, <4>4
      <3> QED BY <3>2, <3>3
    <2>4. CASE DisbandMove
      BY <2>0, <2>4, <2>s, Disbanding DEF DisbandMove
    <2>5. CASE StayMove
      BY <2>5, <2>s DEF StayMove, SameTeams
    <2> QED BY <2>1, <2>2, <2>3, <2>4, <2>5, Moves
  <1> QED BY <1>1, Invariance, PTL DEF FireteamSpec, SeniorityKept

-----------------------------------------------------------------------------
(* The teams are rosters.                                                  *)

\* A step brings or takes one client at most.
LEMMA PresenceStep ==
    ASSUME FireteamInv, [FireteamNext]_vars, NEW c \in Client, NEW d \in Client, c # d
    PROVE  \/ status'[c] = "gone" <=> status[c] = "gone"
           \/ status'[d] = "gone" <=> status[d] = "gone"
  <1> DEFINE Goal == \/ status'[c] = "gone" <=> status[c] = "gone"
                     \/ status'[d] = "gone" <=> status[d] = "gone"
  <1>0. status \in [Client -> {"gone", "connecting", "playing"}]
    BY DEF FireteamInv, FireteamTypeOK
  <1>1. ASSUME UNCHANGED status PROVE Goal
    BY <1>1
  <1>2. ASSUME MapChange PROVE Goal
    BY <1>2 DEF MapChange
  <1>3. ASSUME NEW e \in Client,
               Connect(e) \/ Reconnect(e) \/ Begin(e) \/ Respawn(e) \/ Disconnect(e)
        PROVE  Goal
    <2>1. \A b \in Client : b # e => status'[b] = status[b]
      BY <1>0, <1>3 DEF Connect, Reconnect, Begin, Respawn, Disconnect
    <2> QED BY <2>1
  <1>4. ASSUME TeamStep PROVE UNCHANGED status
    BY <1>4 DEF TeamStep, RegisterFireteam, Leave, DestroyFireteam, Kick, Invite, Propose,
       ApplyToFireTeam, InviteMultiple
  <1>5. ASSUME AnswerStep PROVE UNCHANGED status
    BY <1>5 DEF AnswerStep, Expire, AnswerApplication, AnswerInvitation, AnswerProposition, AnswerPrivate
  <1>6. ASSUME RuleStep PROVE UNCHANGED status
    BY <1>6 DEF RuleStep, SetSaveLimit, SetNoGhost, SavePosition, StartRun, EndRun,
       StartCountdown, EndCountdown
  <1> HIDE DEF Goal
  <1>7. Goal
    BY <1>1, <1>2, <1>3, <1>4, <1>5, <1>6 DEF FireteamNext, ConnectionStep, vars
  <1> QED BY <1>7 DEF Goal

\* The roster of a team names its members.
LEMMA RosterNames ==
    ASSUME TeamInv, NEW f \in Fireteam
    PROVE  /\ Orders[f] = fireTeams[f].joinOrder
           /\ Orders[f] \in Seq(Client)
           /\ \A c : Roster!OnRoster(c, f) <=> c \in Members(f)
  <1>1. Orders[f] = fireTeams[f].joinOrder
    BY DEF Orders
  <1>2. Orders[f] \in Seq(Client)
    BY <1>1, Places
  <1>3. DOMAIN Orders[f] = 1..Len(Orders[f])
    BY <1>2
  <1> QED BY <1>1, <1>2, <1>3 DEF Members, Roster!OnRoster

\* Who is on no team and connected is free.
LEMMA FreeClients ==
    ASSUME TeamInv, NEW c \in Client
    PROVE  Roster!Free(c) <=> status[c] # "gone" /\ ~OnFireteam(c)
  <1>1. OnFireteam(c) <=> \E f \in Fireteam : Roster!OnRoster(c, f)
    BY RosterNames, Places DEF OnFireteam
  <1> QED BY <1>1 DEF Roster!Free, Connected

\* A step changes the roster of a team by changing its join order.
LEMMA OneOrder ==
    ASSUME NEW t \in Fireteam, NEW order, fireTeams'[t].joinOrder = order,
           \A f \in Fireteam : f # t => fireTeams'[f].joinOrder = fireTeams[f].joinOrder
    PROVE  Orders' = [Orders EXCEPT ![t] = order]
  BY DEF Orders

\* The place of a client that leaves is closed.
LEMMA LeavingCloses ==
    ASSUME TeamInv, NEW c \in Client, fireTeams' = TeamsWithout(c)
    PROVE  \/ ~OnFireteam(c) /\ Orders' = Orders
           \/ \E t \in Fireteam : Roster!Close(c, t)
  <1>1. \A f \in Fireteam : c \notin Members(f) => fireTeams'[f] = fireTeams[f]
    BY Places DEF TeamsWithout
  <1>2. CASE ~OnFireteam(c)
    <2>1. \A f \in Fireteam : fireTeams'[f] = fireTeams[f]
      BY <1>1, <1>2, Places DEF OnFireteam
    <2>2. Orders' = Orders
      BY <2>1 DEF Orders
    <2> QED BY <1>2, <2>2
  <1>3. CASE OnFireteam(c)
    <2>1. PICK t \in Fireteam : c \in Members(t)
      BY <1>3, Places DEF OnFireteam
    <2> DEFINE order == fireTeams[t].joinOrder
               rest == fireTeams'[t].joinOrder
    <2>2. PICK k \in 1..Len(order) :
             /\ order[k] = c /\ Len(rest) = Len(order) - 1
             /\ \A i \in 1..(Len(order) - 1) : rest[i] = order[IF i < k THEN i ELSE i + 1]
      BY <2>1, TeamAfterLeaving
    <2>3. rest \in Seq(Client)
      BY <2>1, TeamAfterLeaving DEF FireteamData
    <2> HIDE DEF order, rest
    <2>4. rest = [i \in 1..(Len(order) - 1) |-> rest[i]]
      <3>1. rest = [i \in 1..Len(rest) |-> rest[i]]
        BY <2>3
      <3> QED BY <2>2, <3>1
    <2>5. rest = Roster!Removed(order, k)
      BY <2>2, <2>4 DEF Roster!Removed
    <2> USE DEF order, rest
    <2>6. \A f \in Fireteam : f # t => fireTeams'[f].joinOrder = fireTeams[f].joinOrder
      BY <1>1, <2>1, OneTeam
    <2>7. Orders[t] = order
      BY RosterNames
    <2>8. Orders' = [Orders EXCEPT ![t] = Roster!Removed(Orders[t], k)]
      BY <2>5, <2>6, <2>7, OneOrder
    <2>9. Roster!Close(c, t)
      BY <2>2, <2>7, <2>8 DEF Roster!Close
    <2> QED BY <2>9
  <1> QED BY <1>2, <1>3

LEMMA RosterInitial == FireteamInit => Roster!RosterInit
  <1> SUFFICES ASSUME FireteamInit PROVE Roster!RosterInit
    OBVIOUS
  <1>1. \A f \in Fireteam : fireTeams[f].joinOrder = <<>>
    BY DEF FireteamInit, FreeTeam
  <1>2. Orders = [f \in Fireteam |-> <<>>]
    BY <1>1 DEF Orders
  <1>3. Connected = {}
    BY DEF FireteamInit, Connected
  <1> QED BY <1>2, <1>3 DEF Roster!RosterInit

LEMMA RosterStep ==
    ASSUME FireteamInv, [FireteamNext]_vars
    PROVE  [Roster!RosterNext]_<<Orders, Connected>>
  <1> DEFINE Goal == [Roster!RosterNext]_<<Orders, Connected>>
  <1>0. TeamInv /\ MembersPresent
    BY DEF FireteamInv
  <1>s. ASSUME status' = status PROVE Connected' = Connected
    BY <1>s DEF Connected
  <1>1. CASE JoinMove
    <2>1. PICK c \in Client, l \in Client, t \in Fireteam :
             /\ CanJoin(c, l, t) /\ status' = status /\ Playing(c)
             /\ fireTeams' = [fireTeams EXCEPT ![t].joinOrder = Append(@, c)]
      BY <1>1 DEF JoinMove
    <2>2. Roster!Free(c)
      BY <1>0, <2>1, FreeClients DEF CanJoin, Playing
    <2>3. Orders[t] # <<>> /\ Len(Orders[t]) < MaxUsers
      BY <1>0, <2>1, RosterNames DEF CanJoin, Leads
    <2>4. Orders' = [Orders EXCEPT ![t] = Append(Orders[t], c)]
      <3>1. fireTeams[t] \in FireteamData /\ fireTeams \in [Fireteam -> FireteamData]
        BY <1>0 DEF TeamInv
      <3>2. fireTeams'[t] = [fireTeams[t] EXCEPT !.joinOrder = Append(fireTeams[t].joinOrder, c)]
        BY <2>1, <3>1
      <3>3. fireTeams'[t].joinOrder = Append(Orders[t], c)
        BY <1>0, <3>1, <3>2, RosterNames DEF FireteamData
      <3>4. \A f \in Fireteam : f # t => fireTeams'[f].joinOrder = fireTeams[f].joinOrder
        BY <2>1, <3>1
      <3> QED BY <3>3, <3>4, OneOrder
    <2>5. Roster!Join(c, t)
      BY <1>s, <2>1, <2>2, <2>3, <2>4 DEF Roster!Join
    <2> QED BY <2>5 DEF Roster!RosterNext
  <1>2. CASE CreateMove
    <2>1. PICK c \in Client, t \in Fireteam, n \in Fireteam :
             /\ ~OnFireteam(c) /\ ~fireTeams[t].inuse /\ FreeIdent(n)
             /\ Playing(c) /\ status' = status
             /\ fireTeams' = [fireTeams EXCEPT ![t] = [inuse |-> TRUE, ident |-> n,
                                 joinOrder |-> <<c>>, priv |-> FALSE,
                                 saveLimit |-> NotSet, noGhost |-> FALSE]]
      BY <1>2 DEF CreateMove
    <2>2. /\ \A f \in Fireteam : f # t => fireTeams'[f] = fireTeams[f]
          /\ fireTeams'[t].joinOrder = <<c>>
      BY <1>0, <2>1, Creating
    <2>3. Orders' = [Orders EXCEPT ![t] = <<c>>]
      BY <2>2, OneOrder
    <2>4. Roster!Free(c)
      BY <1>0, <2>1, FreeClients DEF Playing
    <2>5. Orders[t] = <<>>
      BY <1>0, <2>1, RosterNames DEF TeamInv, WellFormed
    <2>6. Roster!Found(c, t)
      BY <1>s, <2>1, <2>3, <2>4, <2>5 DEF Roster!Found
    <2> QED BY <2>6 DEF Roster!RosterNext
  <1>3. CASE LeaveMove
    <2>1. PICK c \in Client : /\ fireTeams' = TeamsWithout(c)
                              /\ \A d \in Client : d # c => status'[d] = status[d]
      BY <1>3 DEF LeaveMove
    <2>2. \/ ~OnFireteam(c) /\ Orders' = Orders
          \/ \E t \in Fireteam : Roster!Close(c, t)
      BY <1>0, <2>1, LeavingCloses
    <2>3. CASE status'[c] = "gone" <=> status[c] = "gone"
      <3>1. Connected' = Connected
        BY <2>1, <2>3 DEF Connected
      <3> QED BY <2>2, <3>1 DEF Roster!RosterNext, Roster!Leave
    <2>4. CASE status'[c] = "gone" /\ status[c] # "gone"
      <3>1. c \in Connected /\ Connected' = Connected \ {c}
        BY <2>1, <2>4 DEF Connected
      <3>2. ~OnFireteam(c) => Roster!Free(c)
        BY <1>0, <2>4, FreeClients
      <3>3. Roster!Depart(c)
        BY <2>2, <3>1, <3>2 DEF Roster!Depart
      <3> QED BY <3>3 DEF Roster!RosterNext
    <2>5. CASE status'[c] # "gone" /\ status[c] = "gone"
      <3>1. c \notin Connected /\ Connected' = Connected \cup {c}
        BY <2>1, <2>5 DEF Connected
      <3>2. ~OnFireteam(c)
        BY <1>0, <2>5, Places DEF OnFireteam, MembersPresent
      <3>3. Orders' = Orders
        <4>1. \A f \in Fireteam : fireTeams'[f] = fireTeams[f]
          BY <2>1, <3>2 DEF TeamsWithout, OnFireteam
        <4> QED BY <4>1 DEF Orders
      <3>4. Roster!Enter(c)
        BY <3>1, <3>3 DEF Roster!Enter
      <3> QED BY <3>4 DEF Roster!RosterNext
    <2> QED BY <2>3, <2>4, <2>5
  <1>4. CASE DisbandMove
    <2>1. PICK t \in Fireteam :
             /\ fireTeams' = [fireTeams EXCEPT ![t].joinOrder = <<>>, ![t].inuse = FALSE, ![t].ident = -1]
             /\ status' = status
      BY <1>4 DEF DisbandMove
    <2>2. /\ TeamInv' /\ ~fireTeams'[t].inuse
          /\ \A f \in Fireteam : f # t => fireTeams'[f] = fireTeams[f]
      BY <1>0, <2>1, Disbanding
    <2>3. fireTeams'[t].joinOrder = <<>>
      BY <2>2 DEF TeamInv, WellFormed
    <2>4. Orders' = [Orders EXCEPT ![t] = <<>>]
      BY <2>2, <2>3, OneOrder
    <2>5. Roster!Disband(t)
      BY <1>s, <2>1, <2>4 DEF Roster!Disband
    <2> QED BY <2>5 DEF Roster!RosterNext
  <1>5. CASE StayMove
    <2>1. Orders' = Orders
      BY <1>5 DEF StayMove, SameTeams, Orders
    <2>2. \A c \in Client : status[c] # "gone" => status'[c] # "gone"
      BY <1>5 DEF StayMove
    <2>3. CASE \A c \in Client : status'[c] = "gone" <=> status[c] = "gone"
      BY <2>1, <2>3 DEF Connected
    <2>4. CASE \E c \in Client : status'[c] # "gone" /\ status[c] = "gone"
      <3>1. PICK c \in Client : status'[c] # "gone" /\ status[c] = "gone"
        BY <2>4
      <3>2. \A d \in Client : d # c => (status'[d] = "gone" <=> status[d] = "gone")
        BY <3>1, PresenceStep
      <3>3. c \notin Connected /\ Connected' = Connected \cup {c}
        BY <3>1, <3>2 DEF Connected
      <3>4. Roster!Enter(c)
        BY <2>1, <3>3 DEF Roster!Enter
      <3> QED BY <3>4 DEF Roster!RosterNext
    <2> QED BY <2>2, <2>3, <2>4
  <1> QED BY <1>1, <1>2, <1>3, <1>4, <1>5, Moves

\* Fireteams are rosters: every operation on a team, every question and answer, every rule,
\* reconnect and change of map is a step of Rosters or leaves the members alone.
THEOREM FireteamsAreRosters == FireteamSpec => IsRosters
  <1>1. FireteamInv /\ [FireteamNext]_vars => [Roster!RosterNext]_<<Orders, Connected>>
    BY RosterStep
  <1>2. FireteamInv /\ [FireteamNext]_vars => [Roster!RosterNext]_(Roster!rosterVars)
    BY <1>1 DEF Roster!rosterVars
  <1> QED BY <1>2, RosterInitial, Invariance, PTL DEF FireteamSpec, IsRosters, Roster!RosterSpec
=============================================================================
