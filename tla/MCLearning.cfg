CONSTANTS
    Timeframes = {h1, h4}
    Symbols = {s1, s2}
    Situations = {x1}
    NoPosition = NoPosition
    NoFile = NoFile
    Torn = Torn
    Untrained = Untrained
    NotLoaded = NotLoaded
    Weight <- MCWeight
    NoData = NoData
    Installed = TRUE
    Looks <- MCLooks
    Models <- MCModels
    PnLs <- MCPnLs
    RuleScores <- MCRuleScores
    MaxConcurrent = 2
    KellyMin = 2
    KellyWindow = 3
    Keep = 3
    ProfileMin = 1
    RetrainAt = 2
    Diversity = 1
    MaxSamples = 2
    BaseLots = 300
    SymbolMax = 250
    MaxResults = 4
    MaxOrders = 2
    MaxRestarts = 1
    MaxRetrains = 1
SYMMETRY Symmetry
CONSTRAINT FewAfterRaising
SPECIFICATION Spec
INVARIANTS
    TypeOK
    OneModelDecides
    ColdStaysCold
PROPERTY LossMakesNoBigger
CHECK_DEADLOCK FALSE
