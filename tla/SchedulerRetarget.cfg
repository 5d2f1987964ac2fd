SPECIFICATION FairSpec
CONSTANTS
    t1 = t1
    t2 = t2
    Absent = Absent
    DownThreshold = 2
    UpThreshold = 1
    MaxId = 1
    Target <- MCTarget
    Kinds = {"k8s"}
    Links = {FALSE}
    BadTarget = {}
    HasK8sFactory = TRUE
    InitialRows <- MCLeftRows
    MaxTasks = 1
    IngestCapacity = 1
    MaxOps = 2
    MaxFaults = 0
    MaxCrashes = 0
PROPERTIES
    EditsReachCollectors
