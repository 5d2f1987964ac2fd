SPECIFICATION TasksSpec
CONSTANTS
    m1 = m1
    m2 = m2
    eu = eu
    c1 = c1
    a = a
    b = b
    Absent = Absent
    Monitor <- MCMonitor
    Region <- MCRegion
    Measured <- MCMeasured
    Retention = 1
    Configured = {1, 2}
    Asked = {0}
    BatchSize = 1
    MaxBatches = 1
    Percent = 50
    Lag = 1
    MaxResults = 2
    MaxTime = 2
    MaxFaults = 1
    Cluster = {c1}
    Override <- MCOverride
    Files <- KubeFiles
    Token = {a, b}
    Unset = Unset
    NetworkKinds = {"http", "icmp"}
    K8sKinds = {"deployment", "service"}
    Permits = 2
    MaxWaiting = 1
    MaxHung = 1
    MaxReplicas = 1
    Capacity = 2
    RetryCapacity = 2
    MaxAlerts = 4
    MaxRefusals = 4
    MaxAlertFaults = 1
CHECK_DEADLOCK FALSE
INVARIANTS
    KeptInOrder
    HistoryIsTrue
PROPERTIES
    AnswersAreWhole
    CleanMeansClean
    ExpiredIsPruned
    WritesInOrder
    KeptIsRetried
    TroubleIsNotDown
    PermitsComeFree
