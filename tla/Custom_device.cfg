SPECIFICATION Spec
CONSTANTS
    d1 = d1
    d2 = d2
    Nobody = Nobody
    Devices = {d1, d2}
    Known = {d1, d2}
    MAX_PENDING = 1
    MAC_DECODE = FALSE
    CounterWrap = 4
    Batches <- SomeUplinks
    Files <- MixedFiles
    MaxPackets = 2
    MaxFiles = 2
INVARIANTS SentToItsDevice

CHECK_DEADLOCK FALSE
