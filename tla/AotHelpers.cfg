SPECIFICATION Spec
CONSTANTS
    GlobalsCall = FALSE
    FrameSize = 2
    Fixed = 1
    Extra = 1
    MaxConstants = 1
    Loads <- MCLoads
INVARIANTS
    AddressesAreFresh
    NothingLooseIsCollected
    BarriersArePaid
    TemporariesHaveRoom
    TopIsExact
