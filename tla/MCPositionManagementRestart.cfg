CONSTANTS
    Prices <- MCPrices
    OpenPrice = 4
    Stop = 1
    Target = 14
    NoStop <- MCNoStop
    OnePercent = 5
    Atr = 2
    SyncedAtr = 1
    Buffer = 1
    TrailStep = 2
    Cooldown = 2
    Unbound = Unbound
    MaxRefusals = 0
    MaxRestarts = 1
SPECIFICATION Spec
INVARIANT RestartClosesNothing
CHECK_DEADLOCK FALSE
