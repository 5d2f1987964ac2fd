SPECIFICATION TerminalFairSpec
CONSTANTS
    MaxId = 1
    PollInterval = 2
    RetryDelay = 3
    MaxLate = 1
    MaxWritten = 0
    MaxChanges = 0
    MaxKeys = 0
    MaxOutages = 0
PROPERTIES
    Reconnects
