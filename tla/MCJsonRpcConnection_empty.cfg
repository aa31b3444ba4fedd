\* An empty batch from another client.
CONSTANTS
    Subs = {k1, k2}
    Documents <- MCEmptyBatch
    Requests <- MCRequests
    MethodNames <- MCMethodNames
    sync = sync
    keep = keep
    Handlers = {sync}
    Offers <- MCOffers
    Keepers = {}
    MaxBatch = 3
    MaxMethods = 0
    MaxFaults = 0
    Transports = {"tcp"}
    MayBreak = FALSE
    NULL = NULL
SPECIFICATION ConnectionFairSpec
PROPERTIES
    EmptyBatchAnswered
CHECK_DEADLOCK FALSE
