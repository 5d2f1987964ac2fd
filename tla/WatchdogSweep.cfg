SPECIFICATION WFairSpec
CONSTANTS
    t1 = t1
    Absent = Absent
    DownThreshold = 2
    UpThreshold = 1
    MaxId = 1
    Target <- MCTarget
    Kinds = {"host"}
    Links = {TRUE, FALSE}
    BadTarget = {}
    HasK8sFactory = FALSE
    InitialRows <- MCFedRows
    MaxTasks = 1
    IngestCapacity = 1
    MaxOps = 2
    MaxFaults = 1
    MaxCrashes = 0
PROPERTIES
    DownIsStillEarned
    KeepsLifecycle
    SilenceShows
