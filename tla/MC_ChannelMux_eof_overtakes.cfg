\* Violation: queued data is drained after our CHANNEL_EOF.
CONSTANTS
    UINT_MAX = 7
    ChannelIdMax = 1
    RefillThreshold = 2
    DefaultWindow = 3
    DefaultMaxPacket = 2
    PeerChannels = {5}
    PeerWindows = {1}
    PeerMaxPackets = {1, 2}
    AdjustDeltas = {2}
    PeerDataLens = {}
    HostDataLens = {3}
    e1 = e1
    e2 = e2
    none = none
    ExtCodes <- MC_ExtCodes
    NoExt <- none
    HostRequestKinds = {"shell"}
    PeerRequestKinds = {"unknown"}
    PeerUnsupported = {}
    IsServer = TRUE
    MaxHostBytes = 3
    MaxSteps = 6
SPECIFICATION Spec
INVARIANT NoDataAfterEofOrClose
