\* One of two methods is deleted.
CONSTANTS
    Subs = {s1}
    Documents <- MCBatch
    MethodNames <- MCMethodNames
    sync = sync
    keep = keep
    Handlers = {sync}
    Offers <- MCOffers
    Keepers = {}
    MaxBatch = 2
    MaxMethods = 2
    MaxFaults = 0
    NULL = NULL
SPECIFICATION Spec
INVARIANTS
    FreedWithItsMethods
CHECK_DEADLOCK FALSE
