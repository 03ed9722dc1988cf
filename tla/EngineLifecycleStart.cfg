CONSTANTS
    Positions = {p1}
    NoPosition = NoPosition
    ApiThreads = {a1}
    MaxStarts = 1
    MaxFaults = 0
    MaxMisreads = 0
SPECIFICATION Spec
PROPERTY StartIsServed
CHECK_DEADLOCK FALSE
