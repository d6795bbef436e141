SPECIFICATION FairSpec
CONSTANTS
    Fds <- ThreeFds
    Ratio = 2
    Threshold = 0
    MaxBatches = 0
    MaxReports = 0
    MaxRequests = 3
PROPERTIES PollsAgain
CHECK_DEADLOCK FALSE
