CONSTANTS
    Task = {t1, t2, t3}
    Worker = {w1}
    Main = Main
    Free = Free
    NoTask = NoTask
SPECIFICATION FairSpec
INVARIANTS
    ExactlyOnce
    PopIsSafe
    NoTaskAfterStop
    NoLockCycle
PROPERTIES
    IsTaskQueue
    EventuallyDelivered
    StopReturnsWhenAwake
CHECK_DEADLOCK FALSE
