CONSTANTS
    Protos <- TwoProtos
    Code <- TwoCodes
    MaxDepth = 5
SPECIFICATION Spec
INVARIANTS
    NoInternalError
    SuspendedFramesArePublished
    OpYieldMarksSuspendedIterators
    FrameRunsItsOwnCode
PROPERTY ImplementsResumableCalls
