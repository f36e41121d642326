-------------------------------- MODULE Rosters --------------------------------
(***************************************************************************)
(* What the fireteams promise about their members: a team is its members   *)
(* in the order they joined in, the first of them leads it, and a client   *)
(* is on one team while it is connected, and on none afterwards.  How      *)
(* members are found, asked and ruled is not part of it.                   *)
(***************************************************************************)
EXTENDS Naturals, Sequences

CONSTANTS
    Client,     \* who can connect
    Team,
    Room        \* how many a team can have by joining it

VARIABLES
    roster,     \* the members of each team, its leader first
    present     \* the connected clients

rosterVars == <<roster, present>>

RosterInit ==
    /\ roster = [t \in Team |-> <<>>]
    /\ present = {}

-----------------------------------------------------------------------------
OnRoster(c, t) == \E i \in 1..Len(roster[t]) : roster[t][i] = c

Free(c) == c \in present /\ \A t \in Team : ~OnRoster(c, t)

\* A client connects; it is on no team.
Enter(c) ==
    /\ c \notin present
    /\ present' = present \cup {c}
    /\ UNCHANGED roster

\* A client makes a team of its own.
Found(c, t) ==
    /\ Free(c)
    /\ roster[t] = <<>>
    /\ roster' = [roster EXCEPT ![t] = <<c>>]
    /\ UNCHANGED present

\* A client joins a team, as its last.
Join(c, t) ==
    /\ Free(c)
    /\ roster[t] # <<>>
    /\ Len(roster[t]) < Room
    /\ roster' = [roster EXCEPT ![t] = Append(@, c)]
    /\ UNCHANGED present

\* The members behind the i-th move up.
Removed(order, i) == [j \in 1..(Len(order) - 1) |-> order[IF j < i THEN j ELSE j + 1]]

\* The place of c on a team is closed.
Close(c, t) ==
    \E i \in 1..Len(roster[t]) :
        /\ roster[t][i] = c
        /\ roster' = [roster EXCEPT ![t] = Removed(@, i)]

\* A member leaves its team, by its own will or not.
Leave(c, t) ==
    /\ Close(c, t)
    /\ UNCHANGED present

\* A client is gone, and with it its place on a team.
Depart(c) ==
    /\ c \in present
    /\ present' = present \ {c}
    /\ \/ Free(c) /\ UNCHANGED roster
       \/ \E t \in Team : Close(c, t)

\* All members leave a team at once.
Disband(t) ==
    /\ roster' = [roster EXCEPT ![t] = <<>>]
    /\ UNCHANGED present

RosterNext ==
    \/ \E c \in Client : Enter(c) \/ Depart(c)
    \/ \E c \in Client, t \in Team : Found(c, t) \/ Join(c, t) \/ Leave(c, t)
    \/ \E t \in Team : Disband(t)

RosterSpec == RosterInit /\ [][RosterNext]_rosterVars
=============================================================================
