SPECIFICATION FairSpec
CONSTANTS
    Fds <- TwoFds
    Ratio = 1
    Threshold = 2
    MaxBatches = 1
    MaxReports = 2
    MaxRequests = 2
INVARIANTS AckLedger SocketsOpen CountedOnce
PROPERTIES ReportTaken StopEnds
CHECK_DEADLOCK FALSE
