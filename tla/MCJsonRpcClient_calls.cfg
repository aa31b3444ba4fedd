\* Three calls, three responses, and up to two allocations that fail.
CONSTANTS
    Sends = {k1, k2, k3}
    Requests <- MCRequests
    Responses <- MCResponses
    MaxArrivals = 3
    MaxFaults = 2
    NULL = NULL
SPECIFICATION Spec
INVARIANTS
    TypeOK
    UniqueIds
    CompletedOnceByOwnId
    NoCallbackLost
PROPERTIES
    TableSpec
CHECK_DEADLOCK FALSE
