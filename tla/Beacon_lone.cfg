SPECIFICATION FairSpec
CONSTANTS
    Wrap = 31
    JIT_QUEUE_MAX = 6
    TX_START_DELAY = 0
    TX_MARGIN_DELAY = 0
    TX_JIT_DELAY = 1
    TX_MAX_ADVANCE_DELAY = 12
    ASAP_DELAY = 1
    BEACON_GUARD = 0
    BEACON_RESERVED = 0
    s1 = s1
    Servers = {s1}
    JIT_NUM_BEACON_IN_QUEUE = 3
    Byte = 256
    Period = 3
    RefAge = 0
    StartTime = 15
    DownlinkLeads <- Soon
    MaxDownlinks = 2
    MaxTime = 55
    MaxOutage = 10
    MaxRetry = 6
INVARIANTS QuotaKept NoneMissing
PROPERTIES SentOnItsSlot CatchesUp
