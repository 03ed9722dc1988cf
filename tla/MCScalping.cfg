CONSTANTS
    Engine = Engine
    Api = Api
    Strategies <- MCStrategies
    Loadable <- MCLoadable
    Gate <- MCGate
    Default <- MCDefault
    Symbols <- MCSymbols
    Answers <- MCAnswers
    Changes <- MCChanges
    None = None
    Torn = Torn
    NoData = NoData
    MaxToggles = 3
    MaxRestarts = 1
SPECIFICATION Spec
INVARIANTS
    TypeOK
    SettingsSurvive
    EveryStrategyAsked
PROPERTY StatusesAgree
