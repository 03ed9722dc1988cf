CONSTANTS
    Tickets = {t1, t2}
    Symbols = {s1, s2}
    NoTicket = NoTicket
    NoSymbol = NoSymbol
    PnLs <- MCLosses
    LossLimit = 3
    Cooldown = 1
    RecoveryWins = 2
    MaxConcurrent = 2
    ScalperMax = 2
    MaxOutsiders = 0
    MaxFaults = 0
    MaxRestarts = 0
    MaxDays = 0
SYMMETRY Symmetry
SPECIFICATION Spec
INVARIANT BreakerOpensOnDistinctLosses
CHECK_DEADLOCK FALSE
