SPECIFICATION PortSpec
CONSTANTS
    p = p
    q = q
    NoJob = NoJob
    NoResult = NoResult
    NoRecord = NoRecord
    MaxContexts = 2
    GenerationBound = 3
    Pairs = {p, q}
    MaxCreated = 4
    Requests <- MCRequests
    Needs <- MCNeeds
    Usages <- MCUsages
    Links <- MCLinks
    MaxCount = 3
    Buffers = {b}
    MemoryMayFail = TRUE
    MaxAsked = 2
INVARIANTS LiveHandlesWork StaleUntilWrap NothingLeaks ArtifactsMatchRequests FailuresAreExplained PureUntilTrap AnswersInOrder
PROPERTIES RequestsAreAnswered
CHECK_DEADLOCK FALSE
