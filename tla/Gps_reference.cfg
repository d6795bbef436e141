SPECIFICATION Spec
CONSTANTS
    W = 5
    MAX_AGE = 1
    XERR_INIT_AVG = 2
    CheckLag = 2
    UbxFirst = TRUE
    Start = 4
    MaxTime = 11
    MaxFaults = 3
    MaxInbox = 4
INVARIANTS ValidIsFresh GpsRecovers XtalSettled
PROPERTIES OutliersIgnored
CHECK_DEADLOCK FALSE
