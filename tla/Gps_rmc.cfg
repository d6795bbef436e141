SPECIFICATION Spec
CONSTANTS
    W = 5
    MAX_AGE = 1
    XERR_INIT_AVG = 2
    CheckLag = 1
    UbxFirst = FALSE
    Start = 3
    MaxTime = 11
    MaxFaults = 0
    MaxInbox = 4
INVARIANTS GpsRecovers
CHECK_DEADLOCK FALSE
