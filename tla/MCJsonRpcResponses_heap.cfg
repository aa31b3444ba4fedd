\* A client that nests and shares its values, and responses built from them without memory.
CONSTANTS
    Values = {v1, v2, v3, v4, v5, v6, v7, v8}
    Entries = {e1, e2, e3, e4, e5, e6, e7}
    Keys <- MCKeys
    MaxOwned = 1
    MaxFaults = 2
    ClientFaults = 1
    MaxReturns = 1
    MaxLive = 2
    ClientKeys = {"id"}
    NULL = NULL
SPECIFICATION Spec
INVARIANTS
    HeapTypeOK
    CountsExact
    FreedWithLastReference
    NamesUnique
    LostOnlyWithoutMemory
    LocalReferences
PROPERTIES
    ResponsesComplete
    KeepsContract
CHECK_DEADLOCK FALSE
