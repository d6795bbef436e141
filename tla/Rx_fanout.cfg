SPECIFICATION FairSpec
CONSTANTS
    N = 2
    Readers <- FirstReads
    Wrap = 4
    LIST_SIZE = 1
    MAX_AGE = 1
    MaxBatches = 2
    MaxTokens = 2
    FetchLag = 0
    HalLag = 1
    RoundLag = 1
INVARIANTS BindCountsUnread NoLostWakeup
PROPERTIES ImplementsFanout ReadOrRecycled BacklogShrinks
