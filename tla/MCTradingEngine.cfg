CONSTANTS
    Tickets = {t1, t2, t3}
    Symbols = {s1, s2, s3}
    NoTicket = NoTicket
    NoSymbol = NoSymbol
    PnLs <- MCLosses
    LossLimit = 3
    Cooldown = 1
    RecoveryWins = 2
    MaxConcurrent = 2
    ScalperMax = 2
    MaxOutsiders = 1
    MaxFaults = 1
    MaxRestarts = 1
    MaxDays = 1
SYMMETRY Symmetry
CONSTRAINT RareEvents
SPECIFICATION Spec
INVARIANTS
    TypeOK
    NoDoubleUp
    PortfolioBounded
    MainSeesEveryPosition
    RecordedOnlyClosed
    CountedOnceOrTwice
CHECK_DEADLOCK FALSE
