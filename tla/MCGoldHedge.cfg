CONSTANTS
    Prices = {0, 1, 2, 3}
    Progression <- MCProgression
    LotMultiplier = 150
    MaxLevels = 3
    HedgeDistance = 2
    TakeProfit = 8
    Floor = 1
    TrailingStep = 2
    FreezeLoss = 8
    MaxOrders = 4
    MaxFaults = 1
    MaxOutside = 1
    MaxRestarts = 1
SPECIFICATION Spec
INVARIANTS
    TypeOK
    BookMatchesAccount
    UnmanagedPaidFor
PROPERTY LossEndsBasket
CHECK_DEADLOCK FALSE
