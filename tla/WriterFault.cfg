SPECIFICATION Spec
CONSTANTS
    m1 = m1
    m2 = m2
    Monitor <- MCMonitor
    Capacity = 2
    BatchSize = 2
    MaxResults = 3
    MaxFaults = 1
CHECK_DEADLOCK FALSE
PROPERTIES
    TransientFaultLosesNothing
