\* Both data paths of one channel: send_data splitting and queueing, the
\* WINDOW_ADJUST drain of the default queue and of two extended queues in
\* either HashMap order, the CHANNEL_DATA checks and the refill rule,
\* including a refill that overflows u32 (wrap or panic).
CONSTANTS
    UINT_MAX = 7
    ChannelIdMax = 1
    RefillThreshold = 2
    DefaultWindow = 3
    DefaultMaxPacket = 2
    PeerChannels = {5}
    PeerWindows = {1, 7}
    PeerMaxPackets = {2, 7}
    AdjustDeltas = {1, 2}
    PeerDataLens = {1, 6}
    HostDataLens = {1, 3}
    e1 = e1
    e2 = e2
    none = none
    ExtCodes <- MC_TwoExtCodes
    NoExt <- none
    HostRequestKinds = {"shell"}
    PeerRequestKinds = {"shell", "signal"}
    PeerUnsupported = {}
    IsServer = TRUE
    MaxHostBytes = 3
    MaxSteps = 6
SPECIFICATION Spec
INVARIANT TypeOK
INVARIANT OutboundStreamOrder
INVARIANT OutboundFlowControl
INVARIANT InboundWithinAdvertised
INVARIANT AtMostOneClose
INVARIANT ClosedIsTerminal
