SPECIFICATION LinkSpec
INVARIANTS
    RetainedIsReachable
    LinkedModuleBehaves
CONSTANTS
    Links <- MCLinks
    Inputs = {0, 1}
    Width = 5
    MinOps = 6
    MaxWindow = 12
    MaxLocals = 4
    MaxConstants = 4
    MaxLive = 3
    MaxWritten = 2
    MaxPacked = 3
    MaxHoles = 4
    MaxParameters = 8
    MaxHelpers = 2
    MaxFunctions = 13
CHECK_DEADLOCK FALSE
