SPECIFICATION Spec
CONSTANTS
    t1 = t1
    t2 = t2
    Absent = Absent
    DownThreshold = 2
    UpThreshold = 1
    MaxId = 1
    Target <- MCTarget
    Kinds = {"network"}
    Links = {FALSE}
    BadTarget = {}
    HasK8sFactory = FALSE
    InitialRows <- MCNetworkRows
    MaxTasks = 2
    IngestCapacity = 1
    MaxOps = 4
    MaxFaults = 1
    MaxCrashes = 1
INVARIANTS
    FeedMatchesStatus
    OnlyRunnableScheduled
PROPERTIES
    DownIsEarned
    PauseSticks
    KeepsLifecycle
