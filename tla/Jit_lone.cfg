SPECIFICATION FairSpec
CONSTANTS
    Wrap = 88
    JIT_QUEUE_MAX = 2
    TX_START_DELAY = 1
    TX_MARGIN_DELAY = 1
    TX_JIT_DELAY = 3
    TX_MAX_ADVANCE_DELAY = 40
    ASAP_DELAY = 7
    BEACON_GUARD = 4
    BEACON_RESERVED = 3
    Servers = {s1}
    NoNode = NoNode
    Requests <- BeaconMix
    MaxRequests = 3
    Window = 5
    StartTime = 82
    JitLag = 1
    MaxStall = 2
INVARIANTS QueueFits BeaconCount
PROPERTIES PurgedWasMissed ImplementsBook Drains
