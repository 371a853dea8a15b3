SPECIFICATION Spec
CONSTANTS
    Codes = {2, 4}
    Thunks = {s, t}
    MaxNesting = 4
    MaxStale = 2
    RaiseOutside = FALSE
    None = None
    Failure = Failure
INVARIANTS ActiveIsInnermost CodesAreCurrent
PROPERTIES TrapsRemainFailures ImplementsExceptions
