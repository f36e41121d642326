----------------------------- MODULE MCSaveSystem -----------------------------
(* The instances of SaveSystem that TLC checks.                            *)
EXTENDS SaveSystem

\* A run with the default flags, one that survives deaths and team changes but has
\* no backups, and one without saves that ends on either.
MapRuns == {{}, {"NoBackups"}, {"ResetTeamChange", "ResetDeath", "NoSave"}}

\* States are told apart by what a later step or a property reads: not the origin of a
\* position that is not valid, which copy was the latest slot once, the flags of a run
\* that is over, nor what was stored for a client without a guid, which is never read.
Origin(p) == IF p.isValid THEN p.origin ELSE 0
Slots(g) == [t \in Team |-> [s \in Slot |->
                LET p == saves[g][t][s] IN <<p.isValid, p.isLatest, p.isTimerunSave, Origin(p)>>]]
Backups(g) == [t \in Team |-> [b \in Backup |->
                LET p == backups[g][t][b] IN <<p.isValid, p.isTimerunSave, Origin(p)>>]]
Quick(g) == [t \in Team |->
                LET p == quickDeploy[g][t] IN <<p.isValid, p.isValid /\ p.isTimerunSave, Origin(p)>>]
KeptFor(g) == IF savedPositions[g] = NoEntry THEN NoEntry
           ELSE <<savedPositions[g].saveLimit, [t \in Team |-> [s \in Slot |->
                LET p == savedPositions[g].saves[t][s] IN <<p.isLatest, Origin(p)>>]]>>
Timer(c) == IF timerunActive[c] THEN <<runSpawnflags[c], loaded[c], repeatedInRun[c]>> ELSE <<>>
View == <<connection, [c \in Client |-> <<Slots(c), Backups(c), Quick(c), KeptFor(c), Timer(c)>>],
          timerunActive, run, origins, savedIn, used, left, repeats>>
=============================================================================
