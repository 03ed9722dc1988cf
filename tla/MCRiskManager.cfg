CONSTANTS
    LossLimit = 2
    Cooldown = 1
    RecoveryWins = 2
    InitialBalance = 10
    PnLs <- MCPnLs
    Accounts = {9}
    Floating <- MCFloating
    TargetPerMille = 200
    LimitPerMille = 300
    PausePerMille = 200
    ExtractPerMille = 300
    DayLength = 2
    ExtractionDays = {0, 2}
    MaxTime = 4
    MaxTrades = 4
SPECIFICATION Spec
INVARIANTS
    TypeOK
    LedgersAgree
    ExtractedWasEarned
PROPERTIES
    ImplementsContract
    PauseLiftsByRecovery
CHECK_DEADLOCK FALSE
