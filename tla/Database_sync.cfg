SPECIFICATION FairSpec
CONSTANTS
    state = state
    packet = packet
    Keys <- BothKeys
    States <- OneState
    MaxChanges = 3
    MaxStarts = 1
INVARIANTS NoLostSync SettledAtExit
PROPERTIES ReadersGoForward EventuallySettled ExitEnds
CHECK_DEADLOCK FALSE
