SPECIFICATION Spec
CONSTANTS
    f1 = f1
    f2 = f2
    s1 = s1
    s2 = s2
    Servers <- TwoServers
    NB_LBT_QUEUE = 2
    Freqs <- TwoFreqs
    NoFreq = NoFreq
    Leads <- NearAndFar
    WinLow = 1
    WinHigh = 4
    Keep = 6
    TX_JIT_DELAY = 1
    Wrap = 20
    HalLag = 1
    MaxTime = 5
    MaxRequests = 2
SYMMETRY Alike
PROPERTIES SentWasFree LateIsSlow
CHECK_DEADLOCK FALSE
