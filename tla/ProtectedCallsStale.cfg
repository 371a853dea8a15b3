SPECIFICATION Spec
CONSTANTS
    Codes = {2, 4}
    Thunks = {s, t}
    MaxNesting = 2
    MaxStale = 2
    RaiseOutside = TRUE
    None = None
    Failure = Failure
PROPERTY TrapsRemainFailures
