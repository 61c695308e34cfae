SPECIFICATION MCSpec
CONSTANTS
    None = None
    \* WsHub
    Conns = {1, 2}
    Channels = {"logs", "sniffer"}
    LogLevels = {2}
    ArmedLevel = 1
    QueueDepth = 2
    QueueBytes = 3
    HubConfigs <- MCHubConfigs
    \* ConsoleQueue
    Loggers = {1, 2}
    ConsoleSlots = 3
    ReservedSlots = 1
    ReserveAttempts = 2
    TicketSpace = 8
    ConsoleScenarios <- MCConsoleScenarios
    \* HclScheduler
    HclIds = {1, 2}
    HclLamps = {"l1", "l2"}
    HclGroups = {"g1", "g2"}
    Everyone = "all"
    TickCap = 3
    DayRing = 6
    DayMinutes = 60
    HclScenarios <- MCHclScenarios
INVARIANTS HubBooksAgree ConsoleSafe LedgerIsTrue
PROPERTIES  SessionsEnd LinesPrinted QuietWhereAsked CurveApplied
CHECK_DEADLOCK FALSE
