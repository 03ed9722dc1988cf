CONSTANTS
    Positions = {p1}
    NoPosition = NoPosition
    ApiThreads = {a1, a2}
    MaxStarts = 3
    MaxFaults = 1
    MaxMisreads = 1
SPECIFICATION Spec
INVARIANTS
    TypeOK
    CountsPaidFor
    PartialsPaidFor
PROPERTIES
    ServesWhileRunning
    StaleEntriesLeave
CHECK_DEADLOCK FALSE
