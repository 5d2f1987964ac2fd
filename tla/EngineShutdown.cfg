SPECIFICATION FairSpec
CONSTANTS
    Monitor = {m}
    WriterCapacity = 1
    BatchSize = 1
    MaxResults = 2
    AlertCapacity = 1
    RetryCapacity = 1
    MaxAlerts = 1
    MaxRefusals = 1
    MaxFaults = 0
    IngestCapacity = 1
    MaxProbes = 1
    MaxOpen = 1
CHECK_DEADLOCK FALSE
INVARIANTS
    TypeOK
    NothingLeftBehind
    OutcomesAccounted
PROPERTIES
    ShutdownEnds
