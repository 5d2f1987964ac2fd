SPECIFICATION ReuseSpec
CONSTANTS
    Absent = Absent
    DownThreshold = 2
    UpThreshold = 1
    MaxId = 1
    Target = {t1}
    Kinds = {"network"}
    Links = {FALSE}
    BadTarget = {}
    HasK8sFactory = FALSE
    InitialRows = {}
    MaxTasks = 1
    IngestCapacity = 1
    MaxOps = 3
    MaxFaults = 0
    MaxCrashes = 0
PROPERTIES
    DownIsItsOwn
