CONSTANTS
    User = {u1, u2}
    Run = {r1}
    MaxSeason = 2
    MaxTime = 3
    MaxDate = 2
    NoRecord = NoRecord
    MaxSegment = 2
    MaxSplit = 2
    NoSplit = NoSplit
    MaxRemoved = 2
SPECIFICATION SegmentsSpec
SYMMETRY Symmetry
CONSTRAINT FewRemoved
INVARIANTS
    SegmentsTypeOK
    GlobalIsBestPersonal
    RemovedNeverCounts
    SplitsAreTraceable
    LiveOrArchivedOnce
    DateIdentifiesCompletion
    NoOrphans
    RemovalCanBeUndone
PROPERTIES
    SplitsOnlyImprove
    RecordsAreKept
CHECK_DEADLOCK FALSE
