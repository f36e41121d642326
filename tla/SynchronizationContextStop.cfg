CONSTANTS
    Task = {t1}
    Worker = {w1}
    Main = Main
    Free = Free
    NoTask = NoTask
SPECIFICATION FairSpec
PROPERTIES
    StopReturns
CHECK_DEADLOCK FALSE
