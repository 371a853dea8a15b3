SPECIFICATION Spec
CONSTANTS
    root = root
    count = count
    inner = inner
    loop = loop
    plain = plain
    Root = root
    Children <- MCChildren
    Parent <- MCParent
    Site <- MCSite
    Shared = {loop, plain}
    FrameSize = 2
    Data = {d}
    MaxRuns = 2
    MaxDepth = 2
    MaxClosures = 2
    MaxCells = 2
    SelfFirst = TRUE
INVARIANTS ClosuresCaptureTheirSources
CHECK_DEADLOCK FALSE
