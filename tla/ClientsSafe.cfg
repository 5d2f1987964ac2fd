SPECIFICATION ClientsSpec
CONSTANTS
    MaxTokens = 2
    MaxData = 1
    MaxInFlight = 2
    Absent = Absent
    MonitorId = {1, 2, 3}
    NoMonitor = NoMonitor
    MaxFetches = 2
    Local = Local
    Remote = Remote
    BufferCapacity = 1
    QueueCapacity = 1
    IngestCapacity = 1
    MaxChecks = 1
    MaxAssigned = 1
    MaxFaults = 1
    MaxOps = 1
    Pid = {1, 2, 3}
    Comm = {"nginx", "sh"}
    Wanted = "nginx"
    Nothing = Nothing
    MaxBlocks = 2
    Ring = 1
    Wire = 1
    MaxBroadcast = 3
    MaxCuts = 2
    MaxId = 2
    PollInterval = 1
    RetryDelay = 1
    MaxLate = 0
    MaxWritten = 2
    MaxChanges = 1
    MaxKeys = 1
    MaxOutages = 1
CHECK_DEADLOCK FALSE
INVARIANTS
    HistoryIsTheMonitors
    OnlyOverflowLoses
    RepeatsNeedFaults
    NoSilentGap
PROPERTIES
    SessionLasts
    ScreenFollows
    ResultsArrive
    RunningIsHeard
    SignalEnds
    ScanIsTrue
    ScreenCatchesUp
    HistoryFollows
