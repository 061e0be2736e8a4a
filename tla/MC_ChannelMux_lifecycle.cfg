\* Channel lifecycle with two channel numbers: peer and host opens, counter
\* overflow, host and peer closes in either order, requests and replies.
CONSTANTS
    UINT_MAX = 7
    ChannelIdMax = 2
    RefillThreshold = 2
    DefaultWindow = 3
    DefaultMaxPacket = 2
    PeerChannels = {5}
    PeerWindows = {1}
    PeerMaxPackets = {1}
    AdjustDeltas = {1}
    PeerDataLens = {1}
    HostDataLens = {1}
    e1 = e1
    e2 = e2
    none = none
    ExtCodes <- MC_ExtCodes
    NoExt <- none
    HostRequestKinds = {"shell", "exec"}
    PeerRequestKinds = {"exec", "signal", "unknown"}
    PeerUnsupported = {"CHANNEL_EXTENDED_DATA"}
    IsServer = TRUE
    MaxHostBytes = 1
    MaxSteps = 6
SPECIFICATION Spec
INVARIANT TypeOK
INVARIANT OutboundStreamOrder
INVARIANT OutboundFlowControl
INVARIANT InboundWithinAdvertised
INVARIANT AtMostOneClose
INVARIANT ClosedIsTerminal
