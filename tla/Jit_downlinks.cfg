SPECIFICATION Spec
CONSTANTS
    Wrap = 176
    JIT_QUEUE_MAX = 4
    TX_START_DELAY = 1
    TX_MARGIN_DELAY = 1
    TX_JIT_DELAY = 3
    TX_MAX_ADVANCE_DELAY = 80
    ASAP_DELAY = 8
    BEACON_GUARD = 4
    BEACON_RESERVED = 3
    Servers = {s1, s2}
    NoNode = NoNode
    Requests <- Downlinks
    MaxRequests = 3
    Window = 8
    StartTime = 168
    JitLag = 1
    MaxStall = 2
INVARIANTS NoOverlap QueueSorted PeekedIsDequeued ProgrammedInTime RadioIsFree
PROPERTIES ClassCPlaced
