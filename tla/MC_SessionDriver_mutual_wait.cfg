SPECIFICATION Spec
CONSTANTS
    c1 = c1
    c2 = c2
    Chans <- MC_Chans
    HostOpened <- MC_HostOpened
    UpdateCap = 1
    OpsCap = 1
    MaxData = 2
    PeerEarlyEof = FALSE
    MaxOutputs <- MC_TwoOutputs
INVARIANTS
    NoMutualWait
