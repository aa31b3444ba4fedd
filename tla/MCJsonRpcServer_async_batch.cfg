\* Two calls of a batch are kept by their methods at the same time.
CONSTANTS
    Subs = {s1}
    Documents <- MCBatch
    MethodNames <- MCMethodNames
    sync = sync
    keep = keep
    Handlers = {sync, keep}
    Offers <- MCOffers
    Keepers = {keep}
    MaxBatch = 2
    MaxMethods = 1
    MaxFaults = 0
    NULL = NULL
SPECIFICATION Spec
INVARIANTS
    ResponseIdsMatch
CHECK_DEADLOCK FALSE
