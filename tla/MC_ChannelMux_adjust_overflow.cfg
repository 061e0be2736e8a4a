\* Violation: the refill WINDOW_ADJUST pushes the peer window past u32::MAX.
CONSTANTS
    UINT_MAX = 7
    ChannelIdMax = 1
    RefillThreshold = 2
    DefaultWindow = 3
    DefaultMaxPacket = 2
    PeerChannels = {5}
    PeerWindows = {7}
    PeerMaxPackets = {7}
    AdjustDeltas = {2}
    PeerDataLens = {6}
    HostDataLens = {}
    e1 = e1
    e2 = e2
    none = none
    ExtCodes <- MC_ExtCodes
    NoExt <- none
    HostRequestKinds = {"shell"}
    PeerRequestKinds = {"unknown"}
    PeerUnsupported = {}
    IsServer = TRUE
    MaxHostBytes = 3
    MaxSteps = 6
SPECIFICATION Spec
INVARIANT AdjustWithinLimit
