SPECIFICATION FairSpec
CONSTANTS
    t1 = t1
    t2 = t2
    Absent = Absent
    DownThreshold = 2
    UpThreshold = 1
    MaxId = 1
    Target <- MCTarget
    Kinds = {"network", "k8s", "host"}
    Links = {TRUE, FALSE}
    BadTarget = {t2}
    HasK8sFactory = TRUE
    InitialRows <- MCLeftRows
    MaxTasks = 1
    IngestCapacity = 1
    MaxOps = 2
    MaxFaults = 1
    MaxCrashes = 0
INVARIANTS
    TypeOK
PROPERTIES
    RegistryCatchesUp
    PendingResolves
    UnavailableIsNotDown
