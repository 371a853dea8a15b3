SPECIFICATION Spec
CONSTANTS
    Modules = {e, a}
    Entry = e
    Host = host
    Catchers = {e, a, host}
    Values = {v1}
    MaxDepth = 4
    MaxAbandoned = 1
    AllocMayFail = TRUE
CHECK_DEADLOCK FALSE
INVARIANTS NoWedgedModule SameValueToEveryRequirer DuplicateNeedsTwoCaughtErrors
PROPERTIES ImplementsCache
