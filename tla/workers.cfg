SPECIFICATION MCSpec
CONSTANTS
    None = None
    \* DaliWorker
    lampA = lampA
    lampB = lampB
    short = short
    group = group
    all = all
    Lamp = {lampA, lampB}
    Target = {short, group, all}
    Broadcast = all
    Reach <- MCReach
    Scenarios <- MCScenarios
    Units = 2
    Retries = 1
    \* RulesEngine
    RuleSets <- MCRuleSets
    RuleBlocks <- MCRuleBlocks
    RuleLamps = {"a", "b"}
    MaxContinuations = 2
    MaxTimers = 2
    MaxChainDepth = 2
    ChainWindow = 2
    MaxExpanded = 6
    StepCap = 5
    MaxCallDepth = 2
    MaxRepeat = 3
    WeekMinutes = 8
    CatchupCap = 3
    EchoLatency = 2
    EngineScenarios <- MCEngineScenarios
    \* RulesDocument
    Editors = {1, 2}
    RuleTexts <- MCRuleTexts
    BoundRules = {"q"}
    TextBanks = 2
    PeerDoc <- MCPeerDoc
    DocScenarios <- MCDocScenarios
INVARIANTS CommandsKept LampsEndInPublishOrder  WheelTurns EngineCurrent DocumentKept
PROPERTIES OnlyCommitsTear
CHECK_DEADLOCK FALSE
