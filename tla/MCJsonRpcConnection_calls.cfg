\* Two calls end to end, methods that return at once or later, other clients on the stream, a connection that may break.
CONSTANTS
    Subs = {k1, k2}
    Documents <- MCDocuments
    Requests <- MCRequests
    MethodNames <- MCMethodNames
    sync = sync
    keep = keep
    Handlers = {sync, keep}
    Offers <- MCOffers
    Keepers = {keep}
    MaxBatch = 3
    MaxMethods = 1
    MaxFaults = 0
    Transports = {"tcp", "ws"}
    MayBreak = TRUE
    NULL = NULL
SPECIFICATION ConnectionFairSpec
INVARIANTS
    AnswersAreResponses
    CallbackGetsOwnResults
PROPERTIES
    EveryCallCompletes
CHECK_DEADLOCK FALSE
