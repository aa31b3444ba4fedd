\* Two posts at once, methods that return at once or later, a failing allocation.
CONSTANTS
    Subs = {s1, s2}
    Documents <- MCDocuments
    MethodNames <- MCMethodNames
    sync = sync
    keep = keep
    Handlers = {sync, keep}
    Offers <- MCOffers
    Keepers = {keep}
    MaxBatch = 3
    MaxMethods = 1
    MaxFaults = 1
    NULL = NULL
SPECIFICATION HttpFairSpec
INVARIANTS
    RepliesFitDocument
    StatusTellsOutcome
    KeptRequestsHaveId
    HttpInvariant
PROPERTIES
    EveryPostReplied
CHECK_DEADLOCK FALSE
