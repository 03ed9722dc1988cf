CONSTANTS
    Threads = {t1, t2}
    Watchdogs = {w1, w2}
    Procs = {p1, p2}
    NoProc = NoProc
    MaxFailures = 1
    MaxStops = 1
    MaxReboots = 1
SPECIFICATION Spec
INVARIANTS
    TypeOK
    OrphansPaidFor
    StoppedMeansStopped
    WatchdogsPaidFor
PROPERTIES
    DeadEngineRestarts
    StopEndsEngine
CHECK_DEADLOCK FALSE
